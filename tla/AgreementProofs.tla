-------------------------- MODULE AgreementProofs ---------------------------
(***************************************************************************)
(* Two endpoints that complete the handshake agree on the version, on the  *)
(* session and on the keys of both directions, for every pair of           *)
(* configurations, until the server asks for a renegotiation.              *)
(*                                                                         *)
(* Agreement speaks of two completed endpoints, and a single step of one   *)
(* endpoint sees only that endpoint and the message it reads.  BondInv is  *)
(* the strengthening: what the client has concluded so far is what the     *)
(* server has settled (ClientOwn, ServerOwn), and every message under way, *)
(* in a flight, in a record or half read, says something that is still so  *)
(* (Told, Offers).  What the server has settled it does not change (Fixed),*)
(* so that a message is true when it is read if it was when it was sent.   *)
(*                                                                         *)
(* Most functions of the state machines change nothing of this (Stays,     *)
(* Goes); those that send or read a hello or a Finished, or install a key, *)
(* have a lemma each (ClientStep, ServerStep).  The theorem is at the end. *)
(***************************************************************************)
EXTENDS HandshakeProofs

-----------------------------------------------------------------------------
(***************************************************************************)
(* Messages under way.                                                     *)
(***************************************************************************)
\* A message is among units, or in records.
InUnits(m, us) == \E i \in 1..Len(us) : us[i] = m
InRecords(m, q) == \E i \in 1..Len(q) : InUnits(m, q[i].units)

\* e has the message m to send, or to read.
Sends(e, m) == InUnits(m, e.pending_hs_data) \/ InRecords(m, e.pending_flight) \/ InRecords(m, e.outbound)
Reads(e, m) == InRecords(m, e.inbound) \/ InUnits(m, e.hs_buf)

\* Units behind units.
LEMMA InConcat ==
    ASSUME NEW x, NEW us, NEW vs, IsSeq(us), IsSeq(vs), InUnits(x, us \o vs)
    PROVE  InUnits(x, us) \/ InUnits(x, vs)
<1>1. PICK i \in 1..Len(us \o vs) : (us \o vs)[i] = x
  BY DEF InUnits
<1>2. \/ i \in 1..Len(us) /\ (us \o vs)[i] = us[i]
      \/ i - Len(us) \in 1..Len(vs) /\ (us \o vs)[i] = vs[i - Len(us)]
  BY <1>1, SeqConcat
<1> QED BY <1>1, <1>2 DEF InUnits

\* Part of some units.
LEMMA InSub ==
    ASSUME NEW x, NEW us, IsSeq(us), NEW m \in 1..(Len(us) + 1), NEW n \in (m - 1)..Len(us),
           InUnits(x, SubSeq(us, m, n))
    PROVE  InUnits(x, us)
<1>1. PICK i \in 1..Len(SubSeq(us, m, n)) : SubSeq(us, m, n)[i] = x
  BY DEF InUnits
<1>2. m + i - 1 \in 1..Len(us) /\ SubSeq(us, m, n)[i] = us[m + i - 1]
  BY <1>1, SeqSub
<1> QED BY <1>1, <1>2 DEF InUnits

\* The units of a message.
LEMMA InUnitsOf == ASSUME NEW x, NEW m, InUnits(x, Units(m)) PROVE x = m
BY UnitsOf DEF InUnits

\* There is nothing in nothing.
LEMMA InNothing == ASSUME NEW x PROVE ~InUnits(x, <<>>) /\ ~InRecords(x, <<>>)
BY SeqEmpty DEF InUnits, InRecords

\* Records behind records.
LEMMA InMoreRecords ==
    ASSUME NEW x, NEW q, NEW r, IsSeq(q), IsSeq(r), InRecords(x, q \o r)
    PROVE  InRecords(x, q) \/ InRecords(x, r)
<1>1. PICK i \in 1..Len(q \o r) : InUnits(x, (q \o r)[i].units)
  BY DEF InRecords
<1>2. \/ i \in 1..Len(q) /\ (q \o r)[i] = q[i]
      \/ i - Len(q) \in 1..Len(r) /\ (q \o r)[i] = r[i - Len(q)]
  BY <1>1, SeqConcat
<1> QED BY <1>1, <1>2 DEF InRecords

\* Part of some records.
LEMMA InFewerRecords ==
    ASSUME NEW x, NEW q, IsSeq(q), NEW m \in 1..(Len(q) + 1), NEW n \in (m - 1)..Len(q),
           InRecords(x, SubSeq(q, m, n))
    PROVE  InRecords(x, q)
<1>1. PICK i \in 1..Len(SubSeq(q, m, n)) : InUnits(x, SubSeq(q, m, n)[i].units)
  BY DEF InRecords
<1>2. m + i - 1 \in 1..Len(q) /\ SubSeq(q, m, n)[i] = q[m + i - 1]
  BY <1>1, SeqSub
<1> QED BY <1>1, <1>2 DEF InRecords

\* One more record.
LEMMA InLastRecord ==
    ASSUME NEW x, NEW q, NEW r, IsSeq(q), InRecords(x, Append(q, r))
    PROVE  InRecords(x, q) \/ InUnits(x, r.units)
<1>1. PICK i \in 1..Len(Append(q, r)) : InUnits(x, Append(q, r)[i].units)
  BY DEF InRecords
<1> QED BY <1>1, SeqAppend DEF InRecords

\* The first record and the others.
LEMMA InTail ==
    ASSUME NEW x, NEW q, IsSeq(q), q # <<>>
    PROVE  /\ InRecords(x, Tail(q)) => InRecords(x, q)
           /\ InUnits(x, Head(q).units) => InRecords(x, q)
<1>1. ASSUME InRecords(x, Tail(q)) PROVE InRecords(x, q)
  <2>1. PICK i \in 1..Len(Tail(q)) : InUnits(x, Tail(q)[i].units)
    BY <1>1 DEF InRecords
  <2> QED BY <2>1, SeqHead DEF InRecords
<1>2. ASSUME InUnits(x, Head(q).units) PROVE InRecords(x, q)
  <2>1. Head(q) = q[1] /\ 1 \in 1..Len(q)
    BY SeqHead, SeqLen, SeqNone
  <2> QED BY <1>2, <2>1 DEF InRecords
<1> QED BY <1>1, <1>2

\* Units cut into records.
LEMMA InCut ==
    ASSUME NEW x, NEW us, NEW key, IsSeq(us), InRecords(x, Records(key, us))
    PROVE  InUnits(x, us)
<1> DEFINE n == (Len(us) + MaxFragment - 1) \div MaxFragment
           part(i) == SubSeq(us, (i - 1) * MaxFragment + 1, IF i = n THEN Len(us) ELSE i * MaxFragment)
           rs == Records(key, us)
<1>0. Len(us) \in Nat /\ MaxFragment \in Nat \ {0}
  BY SeqLen, LayerAssumption
<1>1. n \in Nat /\ Len(us) <= n * MaxFragment /\ n * MaxFragment <= Len(us) + MaxFragment - 1
  BY <1>0, Quotient
<1>2. rs = [i \in 1..n |-> Record("handshake", key, part(i))]
  BY Zenon DEF Records
<1> HIDE DEF n, rs
<1>3. Len(rs) = n
  BY <1>1, <1>2, SeqFunction
<1>4. PICK i \in 1..n : InUnits(x, rs[i].units)
  BY <1>3 DEF InRecords, rs
<1>5. InUnits(x, part(i))
  BY <1>2, <1>4 DEF Record
<1>6. /\ (i - 1) * MaxFragment + 1 \in 1..(Len(us) + 1)
      /\ i # n => i * MaxFragment \in ((i - 1) * MaxFragment)..Len(us)
      /\ i = n => Len(us) \in ((i - 1) * MaxFragment)..Len(us)
  BY <1>0, <1>1, Slices
<1> DEFINE a == (i - 1) * MaxFragment + 1
           b == IF i = n THEN Len(us) ELSE i * MaxFragment
<1>7. (i - 1) * MaxFragment = a - 1
  BY <1>0, <1>4
<1>8. a \in 1..(Len(us) + 1) /\ b \in (a - 1)..Len(us)
  BY <1>6, <1>7
<1>9. InUnits(x, SubSeq(us, a, b))
  BY <1>5
<1> HIDE DEF a, b
<1> QED BY <1>8, <1>9, InSub

-----------------------------------------------------------------------------
(***************************************************************************)
(* What a step leaves as it was.                                           *)
(***************************************************************************)
\* u is t, or t with more behind it; the two hellos a transcript begins with stay.
Extends(t, u) == IsSeq(t) => /\ IsSeq(u) /\ Len(u) >= Len(t)
                             /\ Len(t) >= 2 => SubSeq(u, 1, 2) = SubSeq(t, 1, 2)

\* The fields of a key.
KeyFields == {"level", "side", "secret", "generation"}

\* l is k, or a later generation of it.
Turns(k, l) == DOMAIN k = KeyFields => DOMAIN l = KeyFields /\ SameSecret(l, k)

\* A message that says nothing about what is agreed on.
Plain(m) == m.type \notin {"hello_request", "client_hello", "server_hello", "hello_retry_request", "finished"}

\* The endpoint f is e with nothing changed that the peers agree on, but perhaps the state.
Keeps(e, f) ==
    /\ DOMAIN f = Fields
    /\ f.side = e.side /\ f.cfg = e.cfg /\ f.version = e.version
    /\ f.session_reused = e.session_reused /\ f.secret = e.secret /\ f.app = e.app
    /\ f.total_renegotiations = e.total_renegotiations
    /\ Extends(e.transcript, f.transcript)
    /\ Turns(e.read_key, f.read_key) /\ Turns(e.write_key, f.write_key)
    /\ \A m : Sends(f, m) => Sends(e, m) \/ Plain(m)
    /\ \A m : Reads(f, m) => Reads(e, m)

\* The state stays too, or becomes the given one, in TLS 1.2 or in TLS 1.3.
Stays(e, f) == Keeps(e, f) /\ f.state = e.state /\ f.tls13_state = e.tls13_state
Goes(e, f, state) == Keeps(e, f) /\ f.state = state /\ f.tls13_state = e.tls13_state
Goes13(e, f, state) == Keeps(e, f) /\ f.state = e.state /\ f.tls13_state = state

\* A transcript extends itself ...
LEMMA ExtendsItself == ASSUME NEW t PROVE Extends(t, t)
<1> SUFFICES ASSUME IsSeq(t) PROVE Len(t) >= Len(t)
  BY DEF Extends
<1> QED BY SeqLen

\* ... and what it extended before ...
LEMMA ExtendsTrans == ASSUME NEW t, NEW u, NEW v, Extends(t, u), Extends(u, v) PROVE Extends(t, v)
<1> SUFFICES ASSUME IsSeq(t) PROVE IsSeq(v) /\ Len(v) >= Len(t) /\ (Len(t) >= 2 => SubSeq(v, 1, 2) = SubSeq(t, 1, 2))
  BY DEF Extends
<1>1. Len(t) \in Nat /\ Len(u) \in Nat /\ Len(v) \in Nat /\ IsSeq(v) /\ Len(u) >= Len(t) /\ Len(v) >= Len(u)
  BY SeqLen DEF Extends
<1>2. Len(t) >= 2 => Len(u) >= 2
  BY <1>1
<1> QED BY <1>1, <1>2 DEF Extends

\* ... and is extended by a message.
LEMMA ExtendsAppend ==
    ASSUME NEW t, NEW m
    PROVE  Extends(t, Append(t, m)) /\ (IsSeq(t) => Len(Append(t, m)) = Len(t) + 1)
<1> SUFFICES ASSUME IsSeq(t)
             PROVE  /\ IsSeq(Append(t, m)) /\ Len(Append(t, m)) = Len(t) + 1 /\ Len(Append(t, m)) >= Len(t)
                    /\ Len(t) >= 2 => SubSeq(Append(t, m), 1, 2) = SubSeq(t, 1, 2)
  BY DEF Extends
<1>1. PICK S : t \in Seq(S)
  BY DEF IsSeq
<1>2. t \in Seq(S \cup {m}) /\ Append(t, m) \in Seq(S \cup {m}) /\ Len(t) \in Nat
  BY <1>1
<1>3. Len(Append(t, m)) = Len(t) + 1
  BY <1>1
<1>4. ASSUME Len(t) >= 2 PROVE SubSeq(Append(t, m), 1, 2) = SubSeq(t, 1, 2)
  <2> DEFINE a == SubSeq(Append(t, m), 1, 2)
             b == SubSeq(t, 1, 2)
  <2>1. a \in Seq(S \cup {m}) /\ b \in Seq(S \cup {m})
    BY <1>2, <1>3, <1>4
  <2>2. Len(a) = 2 /\ Len(b) = 2
    BY <1>2, <1>3, <1>4
  <2>3. ASSUME NEW i \in 1..2 PROVE a[i] = b[i]
    <3>1. a[i] = Append(t, m)[i] /\ b[i] = t[i]
      BY <1>2, <1>3, <1>4, <2>3
    <3>2. Append(t, m)[i] = t[i]
      BY <1>1, <1>4, <2>3
    <3> QED BY <3>1, <3>2
  <2> HIDE DEF a, b
  <2>4. a = b
    BY <2>1, <2>2, <2>3, SeqEqual
  <2> QED BY <2>4 DEF a, b
<1> QED BY <1>2, <1>3, <1>4 DEF IsSeq

\* Generations add up.
LEMMA TurnsTrans == ASSUME NEW k, NEW l, NEW n, Turns(k, l), Turns(l, n) PROVE Turns(k, n)
BY DEF Turns, SameSecret

\* A key is of its own generation.
LEMMA TurnsItself == ASSUME NEW k PROVE Turns(k, k)
BY DEF Turns, SameSecret

\* What is kept twice is kept.
LEMMA KeepsTrans == ASSUME NEW e, NEW f, NEW h, Keeps(e, f), Keeps(f, h) PROVE Keeps(e, h)
<1>1. Extends(e.transcript, h.transcript)
  BY ExtendsTrans DEF Keeps
<1>2. Turns(e.read_key, h.read_key) /\ Turns(e.write_key, h.write_key)
  BY TurnsTrans DEF Keeps
<1> QED BY <1>1, <1>2, Zenon DEF Keeps

\* The same fields but for some that nothing depends on, and the buffers.
Idle == {"running", "error", "wait", "used_hello_retry_request", "cert_request", "ticket_expected",
         "key_share", "peer", "verify", "pending_private_key_op", "key_result", "established",
         "key_update_pending", "key_update_count", "sent", "received", "callbacks", "signatures",
         "state", "tls13_state"}
Buffered == {"inbound", "hs_buf", "pending_hs_data", "pending_flight", "outbound"}

\* The buffers alone decide what is under way.
LEMMA SameBuffers ==
    ASSUME NEW e, NEW f, NEW X, Same(e, f, X), NEW m
    PROVE  /\ X \cap {"pending_hs_data", "pending_flight", "outbound"} = {} => Sends(f, m) = Sends(e, m)
           /\ X \cap {"inbound", "hs_buf"} = {} => Reads(f, m) = Reads(e, m)
<1>1. ASSUME X \cap {"pending_hs_data", "pending_flight", "outbound"} = {} PROVE Sends(f, m) = Sends(e, m)
  <2>1. f.pending_hs_data = e.pending_hs_data /\ f.pending_flight = e.pending_flight /\ f.outbound = e.outbound
    BY <1>1 DEF Same, Fields
  <2> QED BY <2>1, Zenon DEF Sends
<1>2. ASSUME X \cap {"inbound", "hs_buf"} = {} PROVE Reads(f, m) = Reads(e, m)
  <2>1. f.inbound = e.inbound /\ f.hs_buf = e.hs_buf
    BY <1>2 DEF Same, Fields
  <2> QED BY <2>1, Zenon DEF Reads
<1> QED BY <1>1, <1>2

\* A change of such fields and of buffers keeps the rest.
LEMMA KeepsIdle ==
    ASSUME NEW e, NEW f, Same(e, f, Idle \cup Buffered \cup {"transcript"}),
           Extends(e.transcript, f.transcript),
           \A m : Sends(f, m) => Sends(e, m) \/ Plain(m), \A m : Reads(f, m) => Reads(e, m)
    PROVE  Keeps(e, f)
<1>1. /\ DOMAIN f = Fields
      /\ f.side = e.side /\ f.cfg = e.cfg /\ f.version = e.version
      /\ f.session_reused = e.session_reused /\ f.secret = e.secret /\ f.app = e.app
      /\ f.total_renegotiations = e.total_renegotiations
      /\ f.read_key = e.read_key /\ f.write_key = e.write_key
  BY SMT DEF Same, Fields, Idle, Buffered
<1>2. Turns(e.read_key, f.read_key) /\ Turns(e.write_key, f.write_key)
  BY <1>1, TurnsItself
<1> QED BY <1>1, <1>2, Zenon DEF Keeps

\* A change of such fields alone does.
LEMMA KeepsSame ==
    ASSUME NEW e, NEW f, Same(e, f, Idle)
    PROVE  Keeps(e, f)
<1>1. Same(e, f, Idle \cup Buffered \cup {"transcript"})
  BY SameWider
<1>2. f.transcript = e.transcript
  BY DEF Same, Fields, Idle
<1>3. Extends(e.transcript, f.transcript)
  BY <1>2, ExtendsItself
<1>4. Idle \cap {"pending_hs_data", "pending_flight", "outbound"} = {} /\ Idle \cap {"inbound", "hs_buf"} = {}
  BY DEF Idle
<1>5. \A m : Sends(f, m) = Sends(e, m) /\ Reads(f, m) = Reads(e, m)
  BY <1>4, SameBuffers
<1> QED BY <1>1, <1>3, <1>5, KeepsIdle

-----------------------------------------------------------------------------
(***************************************************************************)
(* What the operations of HandshakeLayer do to the messages under way.     *)
(***************************************************************************)
\* The endpoint's buffers are sequences.
Lists(e) == /\ DOMAIN e = Fields
            /\ IsSeq(e.pending_hs_data) /\ IsSeq(e.pending_flight) /\ IsSeq(e.outbound)
            /\ IsSeq(e.inbound) /\ IsSeq(e.hs_buf)

\* Those of one that is in order are.
LEMMA GoodLists == ASSUME NEW e, NEW g, Good(e, g) PROVE Lists(e)
BY DEF Good, Typed, Wire, Carries, SoundUnits, SoundRecords, Lists

\* They stay so if they stay.
LEMMA SameLists ==
    ASSUME NEW e, NEW f, NEW X, Lists(e), Same(e, f, X), X \cap Buffered = {}
    PROVE  Lists(f)
<1>1. /\ f.pending_hs_data = e.pending_hs_data /\ f.pending_flight = e.pending_flight
      /\ f.outbound = e.outbound /\ f.inbound = e.inbound /\ f.hs_buf = e.hs_buf /\ DOMAIN f = Fields
  BY DEF Same, Fields, Buffered
<1> QED BY <1>1 DEF Lists

\* Records are a sequence.
LEMMA RecordsList == ASSUME NEW us, NEW key, IsSeq(us) PROVE IsSeq(Records(key, us))
<1> DEFINE n == (Len(us) + MaxFragment - 1) \div MaxFragment
           part(i) == Record("handshake", key, SubSeq(us, (i - 1) * MaxFragment + 1,
                                                      IF i = n THEN Len(us) ELSE i * MaxFragment))
<1>0. Len(us) \in Nat /\ MaxFragment \in Nat \ {0}
  BY SeqLen, LayerAssumption
<1>1. n \in Nat
  BY <1>0, Quotient
<1>2. Records(key, us) = [i \in 1..n |-> part(i)]
  BY Zenon DEF Records
<1> HIDE DEF n, part
<1> QED BY <1>1, <1>2, SeqFunction

\* Flushing the packed messages moves them.
LEMMA SendsFlushPendingHsData ==
    ASSUME NEW e, Lists(e)
    PROVE  LET h == FlushPendingHsData(e)
           IN  /\ Same(e, h, {"pending_flight", "pending_hs_data"}) /\ Lists(h)
               /\ \A x : Sends(h, x) => Sends(e, x)
<1> DEFINE h == FlushPendingHsData(e)
           rs == Records(e.write_key, e.pending_hs_data)
<1>1. Same(e, h, {"pending_flight", "pending_hs_data"})
  BY Zenon DEF Lists, Same, FlushPendingHsData
<1>2. h.pending_hs_data = <<>> /\ h.pending_flight = e.pending_flight \o rs
  BY SMT DEF Lists, Fields, FlushPendingHsData
<1>3. h.outbound = e.outbound /\ h.inbound = e.inbound /\ h.hs_buf = e.hs_buf /\ DOMAIN h = Fields
  BY <1>1 DEF Same, Fields
<1> HIDE DEF h
<1>4. IsSeq(rs) /\ IsSeq(h.pending_flight) /\ IsSeq(h.pending_hs_data)
  BY <1>2, RecordsList, SeqConcat, SeqEmpty DEF Lists
<1>5. ASSUME NEW x, Sends(h, x) PROVE Sends(e, x)
  <2>1. ~InUnits(x, h.pending_hs_data)
    BY <1>2, InNothing
  <2>2. InRecords(x, rs) => InUnits(x, e.pending_hs_data)
    BY InCut DEF Lists
  <2> HIDE DEF rs
  <2>3. InRecords(x, h.pending_flight) => InRecords(x, e.pending_flight) \/ InRecords(x, rs)
    BY <1>2, <1>4, InMoreRecords DEF Lists
  <2> QED BY <1>3, <1>5, <2>1, <2>2, <2>3 DEF Sends
<1>6. Lists(h)
  BY <1>3, <1>4 DEF Lists
<1> QED BY <1>1, <1>5, <1>6 DEF h

\* A message is added to what is under way, and to the transcript.
LEMMA SendsAddMessage ==
    ASSUME NEW e, NEW m, Lists(e)
    PROVE  LET h == AddMessage(e, m)
           IN  /\ Same(e, h, {"pending_flight", "pending_hs_data", "transcript"}) /\ Lists(h)
               /\ h.transcript = Append(e.transcript, m)
               /\ \A x : Sends(h, x) => Sends(e, x) \/ x = m
<1> DEFINE h == AddMessage(e, m)
           us == e.pending_hs_data \o Units(m)
           k  == ((Len(us) - 1) \div MaxFragment) * MaxFragment
           some == IF e.write_key = NullKey THEN Units(m) ELSE SubSeq(us, 1, k)
           key == IF e.write_key = NullKey THEN NullKey ELSE e.write_key
           later == IF e.write_key = NullKey THEN e.pending_hs_data ELSE SubSeq(us, k + 1, Len(us))
<1>1. Same(e, h, {"pending_flight", "pending_hs_data", "transcript"})
  BY Zenon DEF Lists, Same, AddMessage
<1>2. /\ h.pending_hs_data = later /\ h.pending_flight = e.pending_flight \o Records(key, some)
      /\ h.transcript = Append(e.transcript, m)
  <2>1. CASE e.write_key = NullKey
    BY <2>1, SMT DEF Lists, Fields, AddMessage
  <2>2. CASE e.write_key # NullKey
    <3> DEFINE r == Records(e.write_key, SubSeq(us, 1, k))
               l == SubSeq(us, k + 1, Len(us))
    <3>1. h = [e EXCEPT !.pending_flight = @ \o r, !.pending_hs_data = l, !.transcript = Append(@, m)]
      BY <2>2, Zenon DEF AddMessage
    <3> HIDE DEF h, r, l
    <3>2. h.pending_hs_data = l /\ h.pending_flight = e.pending_flight \o r /\ h.transcript = Append(e.transcript, m)
      BY <3>1, SMT DEF Lists, Fields
    <3> QED BY <2>2, <3>2, Zenon DEF r, l
  <2> QED BY <2>1, <2>2
<1>3. h.outbound = e.outbound /\ h.inbound = e.inbound /\ h.hs_buf = e.hs_buf /\ DOMAIN h = Fields
  BY <1>1 DEF Same, Fields
<1>4. /\ IsSeq(us) /\ IsSeq(Units(m)) /\ Len(us) = Len(e.pending_hs_data) + Len(Units(m))
      /\ Len(Units(m)) \in Nat \ {0} /\ Len(e.pending_hs_data) \in Nat /\ MaxFragment \in Nat \ {0}
  BY UnitsOf, SeqConcat, SeqLen, LayerAssumption DEF Lists
<1>5. k \in 0..Len(us) /\ Len(us) \in Nat
  <2> HIDE DEF us
  <2>1. Len(us) \in Nat \ {0} /\ MaxFragment \in Nat \ {0}
    BY <1>4
  <2> DEFINE l == Len(us)
             q == (l - 1) \div MaxFragment
  <2>2. q \in Nat /\ q * MaxFragment <= l - 1
    BY <2>1
  <2> QED BY <2>1, <2>2
<1>6. ASSUME NEW x, InUnits(x, us) PROVE InUnits(x, e.pending_hs_data) \/ x = m
  BY <1>4, <1>6, InConcat, InUnitsOf DEF Lists
<1> HIDE DEF us, k, h
<1>7. /\ 1 \in 1..(Len(us) + 1) /\ k \in (1 - 1)..Len(us) /\ k + 1 \in 1..(Len(us) + 1)
      /\ Len(us) \in ((k + 1) - 1)..Len(us)
  BY <1>5
<1>8. IsSeq(some) /\ IsSeq(later)
  BY <1>4, <1>7, SeqSub DEF Lists
<1>9. ASSUME NEW x, InUnits(x, some) \/ InUnits(x, later) PROVE InUnits(x, e.pending_hs_data) \/ x = m
  <2>1. CASE e.write_key = NullKey
    BY <1>9, <2>1, InUnitsOf
  <2>2. CASE e.write_key # NullKey
    <3>1. InUnits(x, us)
      BY <1>4, <1>7, <1>9, <2>2, InSub
    <3> QED BY <1>6, <3>1
  <2> QED BY <2>1, <2>2
<1> HIDE DEF some, later, key
<1>10. IsSeq(Records(key, some))
  BY <1>8, RecordsList
<1>11. ASSUME NEW x, Sends(h, x) PROVE Sends(e, x) \/ x = m
  <2>1. InRecords(x, h.pending_flight) => InRecords(x, e.pending_flight) \/ InUnits(x, some)
    BY <1>2, <1>8, <1>10, InMoreRecords, InCut DEF Lists
  <2> QED BY <1>2, <1>3, <1>9, <1>11, <2>1 DEF Sends
<1>12. Lists(h)
  BY <1>2, <1>3, <1>8, <1>10, SeqConcat DEF Lists
<1> QED BY <1>1, <1>2, <1>11, <1>12 DEF h

\* A ChangeCipherSpec is no message.
LEMMA SendsAddChangeCipherSpec ==
    ASSUME NEW e, Lists(e)
    PROVE  LET h == AddChangeCipherSpec(e)
           IN  /\ Same(e, h, {"pending_flight", "pending_hs_data"}) /\ Lists(h)
               /\ \A x : Sends(h, x) => Sends(e, x)
<1> DEFINE f == FlushPendingHsData(e)
           r == Record("change_cipher_spec", e.write_key, <<>>)
           h == AddChangeCipherSpec(e)
<1>1. Same(e, f, {"pending_flight", "pending_hs_data"}) /\ Lists(f) /\ \A x : Sends(f, x) => Sends(e, x)
  BY SendsFlushPendingHsData
<1>2. h = [f EXCEPT !.pending_flight = Append(@, r)]
  BY Zenon DEF AddChangeCipherSpec
<1> HIDE DEF f, h
<1>3. Same(f, h, {"pending_flight"})
  BY <1>1, <1>2, Zenon DEF Same, Lists
<1>4. h.pending_flight = Append(f.pending_flight, r)
  BY <1>1, <1>2, SMT DEF Fields, Lists
<1>5. Same(e, h, {"pending_flight", "pending_hs_data"})
  <2>1. Same(e, h, {"pending_flight", "pending_hs_data"} \cup {"pending_flight"})
    BY <1>1, <1>3, SameTrans
  <2> QED BY <2>1, SameWider
<1>6. /\ h.pending_hs_data = f.pending_hs_data /\ h.outbound = f.outbound
      /\ h.inbound = f.inbound /\ h.hs_buf = f.hs_buf /\ DOMAIN h = Fields
  BY <1>3 DEF Same, Fields
<1>7. r.units = <<>>
  BY DEF Record
<1> HIDE DEF r
<1>8. ASSUME NEW x, Sends(h, x) PROVE Sends(f, x)
  <2>1. InRecords(x, h.pending_flight) => InRecords(x, f.pending_flight)
    BY <1>1, <1>4, <1>7, InLastRecord, InNothing DEF Lists
  <2> QED BY <1>6, <1>8, <2>1 DEF Sends
<1>9. Lists(h)
  BY <1>1, <1>4, <1>6, SeqAppend DEF Lists
<1> QED BY <1>1, <1>5, <1>8, <1>9 DEF h

\* Flushing the flight moves it.
LEMMA SendsFlushFlight ==
    ASSUME NEW e, Lists(e)
    PROVE  LET h == FlushFlight(e)
           IN  /\ Same(e, h, {"pending_flight", "pending_hs_data", "outbound"}) /\ Lists(h)
               /\ \A x : Sends(h, x) => Sends(e, x)
<1> DEFINE f == FlushPendingHsData(e)
           h == FlushFlight(e)
<1>1. Same(e, f, {"pending_flight", "pending_hs_data"}) /\ Lists(f) /\ \A x : Sends(f, x) => Sends(e, x)
  BY SendsFlushPendingHsData
<1>2. h = [f EXCEPT !.outbound = @ \o f.pending_flight, !.pending_flight = <<>>]
  BY Zenon DEF FlushFlight
<1> HIDE DEF f, h
<1>3. Same(f, h, {"pending_flight", "outbound"})
  BY <1>1, <1>2, Zenon DEF Same, Lists
<1>4. h.pending_flight = <<>> /\ h.outbound = f.outbound \o f.pending_flight
  BY <1>1, <1>2, SMT DEF Fields, Lists
<1>5. Same(e, h, {"pending_flight", "pending_hs_data", "outbound"})
  <2>1. Same(e, h, {"pending_flight", "pending_hs_data"} \cup {"pending_flight", "outbound"})
    BY <1>1, <1>3, SameTrans
  <2> QED BY <2>1, SameWider
<1>6. h.pending_hs_data = f.pending_hs_data /\ h.inbound = f.inbound /\ h.hs_buf = f.hs_buf /\ DOMAIN h = Fields
  BY <1>3 DEF Same, Fields
<1>7. ASSUME NEW x, Sends(h, x) PROVE Sends(f, x)
  <2>1. ~InRecords(x, h.pending_flight)
    BY <1>4, InNothing
  <2>2. InRecords(x, h.outbound) => InRecords(x, f.outbound) \/ InRecords(x, f.pending_flight)
    BY <1>1, <1>4, InMoreRecords DEF Lists
  <2> QED BY <1>6, <1>7, <2>1, <2>2 DEF Sends
<1>8. Lists(h)
  BY <1>1, <1>4, <1>6, SeqConcat, SeqEmpty DEF Lists
<1> QED BY <1>1, <1>5, <1>7, <1>8 DEF h

\* A new key sends nothing.
LEMMA SendsSetWriteKey ==
    ASSUME NEW e, NEW key, Lists(e)
    PROVE  LET h == SetWriteKey(e, key)
           IN  /\ Same(e, h, {"pending_flight", "pending_hs_data", "write_key"}) /\ Lists(h)
               /\ h.write_key = key /\ \A x : Sends(h, x) => Sends(e, x)
<1> DEFINE f == FlushPendingHsData(e)
           h == SetWriteKey(e, key)
<1>1. Same(e, f, {"pending_flight", "pending_hs_data"}) /\ Lists(f) /\ \A x : Sends(f, x) => Sends(e, x)
  BY SendsFlushPendingHsData
<1>2. h = [f EXCEPT !.write_key = key]
  BY Zenon DEF SetWriteKey
<1> HIDE DEF f, h
<1>3. Same(f, h, {"write_key"})
  BY <1>1, <1>2, Zenon DEF Same, Lists
<1>4. h.write_key = key
  BY <1>1, <1>2, SMT DEF Fields, Lists
<1>5. Same(e, h, {"pending_flight", "pending_hs_data", "write_key"})
  <2>1. Same(e, h, {"pending_flight", "pending_hs_data"} \cup {"write_key"})
    BY <1>1, <1>3, SameTrans
  <2> QED BY <2>1, SameWider
<1>6. Lists(h) /\ \A x : Sends(h, x) = Sends(f, x)
  BY <1>1, <1>3, SameBuffers, SameLists DEF Buffered
<1> QED BY <1>1, <1>4, <1>5, <1>6 DEF h

\* An alert is no message.
LEMMA SendsAlert ==
    ASSUME NEW e, NEW why, Lists(e)
    PROVE  LET h == Alert(e, why)
           IN  /\ Same(e, h, {"pending_flight", "pending_hs_data", "outbound", "wait", "error", "running"})
               /\ Lists(h) /\ \A x : Sends(h, x) => Sends(e, x)
<1> DEFINE f == FlushFlight(e)
           r == Record("alert", e.write_key, <<>>)
           h == Alert(e, why)
<1>1. Same(e, f, {"pending_flight", "pending_hs_data", "outbound"}) /\ Lists(f) /\ \A x : Sends(f, x) => Sends(e, x)
  BY SendsFlushFlight
<1>2. h = [f EXCEPT !.outbound = Append(@, r), !.wait = "error", !.error = why, !.running = FALSE]
  BY Zenon DEF Alert, Error
<1> HIDE DEF f, h
<1>3. Same(f, h, {"outbound", "wait", "error", "running"})
  BY <1>1, <1>2, Zenon DEF Same, Lists
<1>4. h.outbound = Append(f.outbound, r)
  BY <1>1, <1>2, SMT DEF Fields, Lists
<1>5. Same(e, h, {"pending_flight", "pending_hs_data", "outbound", "wait", "error", "running"})
  <2>1. Same(e, h, {"pending_flight", "pending_hs_data", "outbound"} \cup {"outbound", "wait", "error", "running"})
    BY <1>1, <1>3, SameTrans
  <2> QED BY <2>1, SameWider
<1>6. /\ h.pending_hs_data = f.pending_hs_data /\ h.pending_flight = f.pending_flight
      /\ h.inbound = f.inbound /\ h.hs_buf = f.hs_buf /\ DOMAIN h = Fields
  BY <1>3 DEF Same, Fields
<1>7. r.units = <<>>
  BY DEF Record
<1> HIDE DEF r
<1>8. ASSUME NEW x, Sends(h, x) PROVE Sends(f, x)
  <2>1. InRecords(x, h.outbound) => InRecords(x, f.outbound)
    BY <1>1, <1>4, <1>7, InLastRecord, InNothing DEF Lists
  <2> QED BY <1>6, <1>8, <2>1 DEF Sends
<1>9. Lists(h)
  BY <1>1, <1>4, <1>6, SeqAppend DEF Lists
<1> QED BY <1>1, <1>5, <1>8, <1>9 DEF h

\* Taking a message takes it from what is to be read.
LEMMA ReadsMessage ==
    ASSUME NEW e, Lists(e), HasMessage(e)
    PROVE  /\ Reads(e, Message(e)) /\ Same(e, NextMessage(e), {"hs_buf"}) /\ Lists(NextMessage(e))
           /\ \A x : Reads(NextMessage(e), x) => Reads(e, x)
<1> DEFINE h == NextMessage(e)
           n == Len(Units(Message(e)))
<1>1. IsSeq(e.hs_buf) /\ e.hs_buf # <<>> /\ Len(e.hs_buf) >= n
  BY DEF Lists, HasMessage, Message
<1>2. Reads(e, Message(e))
  <2>1. Head(e.hs_buf) = e.hs_buf[1] /\ 1 \in 1..Len(e.hs_buf)
    BY <1>1, SeqHead, SeqLen, SeqNone
  <2> QED BY <2>1 DEF Reads, InUnits, Message
<1>3. n \in Nat \ {0} /\ Len(e.hs_buf) \in Nat
  BY <1>1, UnitsOf, SeqLen
<1>4. Same(e, h, {"hs_buf"})
  BY Zenon DEF Lists, Same, NextMessage
<1>5. h.hs_buf = SubSeq(e.hs_buf, n + 1, Len(e.hs_buf))
  BY SMT DEF Lists, Fields, NextMessage
<1> HIDE DEF h, n
<1>6. n + 1 \in 1..(Len(e.hs_buf) + 1) /\ Len(e.hs_buf) \in ((n + 1) - 1)..Len(e.hs_buf)
  BY <1>1, <1>3
<1>7. /\ h.pending_hs_data = e.pending_hs_data /\ h.pending_flight = e.pending_flight
      /\ h.inbound = e.inbound /\ h.outbound = e.outbound /\ DOMAIN h = Fields
  BY <1>4 DEF Same, Fields
<1>8. ASSUME NEW x, Reads(h, x) PROVE Reads(e, x)
  <2>1. InUnits(x, h.hs_buf) => InUnits(x, e.hs_buf)
    BY <1>1, <1>5, <1>6, InSub
  <2> QED BY <1>7, <1>8, <2>1 DEF Reads
<1>9. Lists(h)
  BY <1>1, <1>5, <1>6, <1>7, SeqSub DEF Lists
<1> QED BY <1>2, <1>4, <1>8, <1>9 DEF h

-----------------------------------------------------------------------------
(***************************************************************************)
(* How a function of the state machine ends, seen from what is agreed on.  *)
(***************************************************************************)
\* Waiting and failing change nothing ...
LEMMA StaysWait == ASSUME NEW e, NEW wait, DOMAIN e = Fields PROVE Stays(e, Wait(e, wait))
<1>1. Same(e, Wait(e, wait), {"wait"})
  BY Zenon DEF Same, Wait
<1>2. Same(e, Wait(e, wait), Idle)
  BY <1>1, SameWider DEF Idle
<1>3. Wait(e, wait).state = e.state /\ Wait(e, wait).tls13_state = e.tls13_state
  BY <1>1 DEF Same, Fields
<1> QED BY <1>2, <1>3, KeepsSame DEF Stays

\* An error changes nothing else, ...
LEMMA StaysError == ASSUME NEW e, NEW why, DOMAIN e = Fields PROVE Stays(e, Error(e, why))
<1>1. Same(e, Error(e, why), {"wait", "error", "running"})
  BY Zenon DEF Same, Error
<1>2. Same(e, Error(e, why), Idle)
  BY <1>1, SameWider DEF Idle
<1>3. Error(e, why).state = e.state /\ Error(e, why).tls13_state = e.tls13_state
  BY <1>1 DEF Same, Fields
<1> QED BY <1>2, <1>3, KeepsSame DEF Stays

\* ... nor does an alert, ...
LEMMA StaysAlert == ASSUME NEW e, NEW why, Lists(e) PROVE Stays(e, Alert(e, why))
<1> DEFINE h == Alert(e, why)
           X == {"pending_flight", "pending_hs_data", "outbound", "wait", "error", "running"}
<1>1. Same(e, h, X) /\ \A x : Sends(h, x) => Sends(e, x)
  BY SendsAlert
<1> HIDE DEF h
<1>2. Same(e, h, Idle \cup Buffered \cup {"transcript"})
  BY <1>1, SameWider DEF Idle, Buffered
<1>3. \A x : Reads(h, x) = Reads(e, x)
  BY <1>1, SameBuffers
<1>4. h.transcript = e.transcript /\ h.state = e.state /\ h.tls13_state = e.tls13_state
  BY <1>1 DEF Same, Fields
<1>5. Keeps(e, h)
  BY <1>1, <1>2, <1>3, <1>4, ExtendsItself, KeepsIdle
<1> QED BY <1>4, <1>5 DEF Stays, h

\* ... not even when the message had been hashed.
LEMMA StaysHash == ASSUME NEW e, DOMAIN e = Fields PROVE Stays(e, HashMessage(e)) /\ Same(e, HashMessage(e), {"transcript"})
<1> DEFINE h == HashMessage(e)
<1>1. Same(e, h, {"transcript"})
  BY Zenon DEF Same, HashMessage
<1>2. h.transcript = Append(e.transcript, Message(e))
  BY SMT DEF HashMessage, Fields
<1> HIDE DEF h
<1>3. Same(e, h, Idle \cup Buffered \cup {"transcript"})
  BY <1>1, SameWider
<1>4. \A x : Reads(h, x) = Reads(e, x) /\ Sends(h, x) = Sends(e, x)
  BY <1>1, SameBuffers
<1>5. h.state = e.state /\ h.tls13_state = e.tls13_state
  BY <1>1 DEF Same, Fields
<1>6. Keeps(e, h)
  BY <1>2, <1>3, <1>4, ExtendsAppend, KeepsIdle
<1> QED BY <1>1, <1>5, <1>6 DEF Stays, h

\* Staying twice is staying.
LEMMA StaysTrans == ASSUME NEW e, NEW f, NEW h, Stays(e, f), Stays(f, h) PROVE Stays(e, h)
BY KeepsTrans DEF Stays

\* ... after the message was hashed as well.
LEMMA StaysHashAlert == ASSUME NEW e, NEW why, Lists(e) PROVE Stays(e, Alert(HashMessage(e), why))
<1>1. Stays(e, HashMessage(e)) /\ Lists(HashMessage(e))
  BY StaysHash, SameLists DEF Lists, Buffered
<1> QED BY <1>1, StaysAlert, StaysTrans

\* Expect goes on, or changes nothing.
LEMMA ExpectCases ==
    ASSUME NEW e, NEW type, NEW then, Lists(e)
    PROVE  \/ Stays(e, Expect(e, type, then))
           \/ HasMessage(e) /\ Message(e).type = type /\ Expect(e, type, then) = then
<1>1. CASE ~HasMessage(e)
  BY <1>1, StaysWait, Zenon DEF Expect, Lists
<1>2. CASE HasMessage(e) /\ Message(e).type # type
  BY <1>2, StaysAlert, Zenon DEF Expect
<1>3. CASE HasMessage(e) /\ Message(e).type = type
  BY <1>3, Zenon DEF Expect
<1> QED BY <1>1, <1>2, <1>3

\* So does the verification of the peer's certificate ...
LEMMA AfterVerifyCases ==
    ASSUME NEW e, NEW then, Lists(e)
    PROVE  Stays(e, AfterVerify(e, then)) \/ AfterVerify(e, then) = then
<1> DEFINE asked == e.verify # "notStarted"
           n == IF asked THEN e.callbacks ELSE e.callbacks + 1
           p == [e EXCEPT !.verify = "pending", !.callbacks = n]
           w == Wait(p, "certificate_verify")
<1>1. \/ AfterVerify(e, then) = Alert(e, "illegal_parameter")
      \/ AfterVerify(e, then) = Alert(e, "certificate_unknown")
      \/ AfterVerify(e, then) = then \/ AfterVerify(e, then) = w
  BY Zenon DEF AfterVerify
<1>2. Stays(e, w)
  <2>1. Same(e, p, {"verify", "callbacks"})
    BY Zenon DEF Same, Lists
  <2> HIDE DEF p
  <2>2. Same(e, p, Idle) /\ p.state = e.state /\ p.tls13_state = e.tls13_state
    BY <2>1, SameWider DEF Idle, Same, Fields
  <2>3. Stays(e, p) /\ DOMAIN p = Fields
    BY <2>2, KeepsSame DEF Stays, Same
  <2> QED BY <2>3, StaysWait, StaysTrans
<1> HIDE DEF w
<1> QED BY <1>1, <1>2, StaysAlert

\* ... and the signature, which touches nothing else.
LEMMA AfterSignCases ==
    ASSUME NEW e, NEW then, Lists(e), DOMAIN then = Fields, e.key_result \in {"none", "signature", "failure"}
    PROVE  \/ Stays(e, AfterSign(e, then))
           \/ Stays(then, AfterSign(e, then))
<1> DEFINE r == AfterSign(e, then)
           a == [then EXCEPT !.signatures = @ + 1]
           b == [then EXCEPT !.pending_private_key_op = FALSE]
           c == [e EXCEPT !.pending_private_key_op = TRUE, !.signatures = @ + 1]
<1>1. \/ r = a \/ r = b \/ r = Wait(c, "private_key_operation") \/ r = Wait(e, "private_key_operation")
      \/ r = Error(e, "precondition") \/ r = Error(e, "private_key")
  BY Zenon DEF AfterSign
<1>2. Stays(then, a)
  <2>1. Same(then, a, {"signatures"})
    BY Zenon DEF Same
  <2> HIDE DEF a
  <2> QED BY <2>1, SameWider, KeepsSame DEF Idle, Same, Fields, Stays
<1>3. Stays(then, b)
  <2>1. Same(then, b, {"pending_private_key_op"})
    BY Zenon DEF Same
  <2> HIDE DEF b
  <2> QED BY <2>1, SameWider, KeepsSame DEF Idle, Same, Fields, Stays
<1>4. Stays(e, c) /\ DOMAIN c = Fields
  <2>1. Same(e, c, {"pending_private_key_op", "signatures"})
    BY Zenon DEF Same, Lists
  <2> HIDE DEF c
  <2> QED BY <2>1, SameWider, KeepsSame DEF Idle, Same, Fields, Stays
<1> HIDE DEF a, b, c, r
<1>5. Stays(e, Wait(c, "private_key_operation"))
  BY <1>4, StaysWait, StaysTrans
<1> QED BY <1>1, <1>2, <1>3, <1>5, StaysWait, StaysError DEF Lists, r

\* Going on and staying there.
LEMMA GoesStays ==
    ASSUME NEW e, NEW f, NEW h, NEW state, Stays(f, h)
    PROVE  (Goes(e, f, state) => Goes(e, h, state)) /\ (Goes13(e, f, state) => Goes13(e, h, state))
BY KeepsTrans DEF Goes, Goes13, Stays

\* A message that is taken.
LEMMA KeepsTake ==
    ASSUME NEW e, NEW f, Lists(e), HasMessage(e), Same(e, f, Idle \cup {"transcript", "hs_buf"}),
           f.transcript = Append(e.transcript, Message(e)), f.hs_buf = NextMessage(e).hs_buf
    PROVE  Keeps(e, f)
<1>1. Same(e, f, Idle \cup Buffered \cup {"transcript"})
  BY SameWider DEF Buffered
<1>2. \A x : Sends(f, x) = Sends(e, x)
  <2>1. (Idle \cup {"transcript", "hs_buf"}) \cap {"pending_hs_data", "pending_flight", "outbound"} = {}
    BY DEF Idle
  <2> QED BY <2>1, SameBuffers
<1>3. f.inbound = e.inbound /\ NextMessage(e).inbound = e.inbound
  BY ReadsMessage DEF Same, Fields, Idle
<1>4. \A x : Reads(f, x) => Reads(e, x)
  BY <1>3, ReadsMessage DEF Reads
<1> QED BY <1>1, <1>2, <1>4, ExtendsAppend, KeepsIdle

\* A message that is sent and says nothing.
LEMMA KeepsAddMessage ==
    ASSUME NEW e, NEW m, Lists(e), Plain(m)
    PROVE  Stays(e, AddMessage(e, m)) /\ Lists(AddMessage(e, m))
<1> DEFINE h == AddMessage(e, m)
           X == {"pending_flight", "pending_hs_data", "transcript"}
<1>1. /\ Same(e, h, X) /\ Lists(h) /\ h.transcript = Append(e.transcript, m)
      /\ \A x : Sends(h, x) => Sends(e, x) \/ x = m
  BY SendsAddMessage
<1> HIDE DEF h
<1>2. Same(e, h, Idle \cup Buffered \cup {"transcript"})
  BY <1>1, SameWider DEF Buffered
<1>3. \A x : Reads(h, x) = Reads(e, x)
  BY <1>1, SameBuffers
<1>4. h.state = e.state /\ h.tls13_state = e.tls13_state
  BY <1>1 DEF Same, Fields
<1>5. Keeps(e, h)
  BY <1>1, <1>2, <1>3, ExtendsAppend, KeepsIdle
<1> QED BY <1>1, <1>4, <1>5 DEF Stays, h

\* A flight that is flushed.
LEMMA StaysFlushFlight == ASSUME NEW e, Lists(e) PROVE Stays(e, FlushFlight(e)) /\ Lists(FlushFlight(e))
<1> DEFINE h == FlushFlight(e)
           X == {"pending_flight", "pending_hs_data", "outbound"}
<1>1. Same(e, h, X) /\ Lists(h) /\ \A x : Sends(h, x) => Sends(e, x)
  BY SendsFlushFlight
<1> HIDE DEF h
<1>2. Same(e, h, Idle \cup Buffered \cup {"transcript"})
  BY <1>1, SameWider DEF Buffered
<1>3. \A x : Reads(h, x) = Reads(e, x)
  BY <1>1, SameBuffers
<1>4. h.transcript = e.transcript /\ h.state = e.state /\ h.tls13_state = e.tls13_state
  BY <1>1 DEF Same, Fields
<1>5. Keeps(e, h)
  BY <1>1, <1>2, <1>3, <1>4, ExtendsItself, KeepsIdle
<1> QED BY <1>1, <1>4, <1>5 DEF Stays, h

\* Going to another state.
LEMMA GoesTo ==
    ASSUME NEW e, NEW f, NEW state, Stays(e, f)
    PROVE  /\ Goes(e, To(f, state), state) /\ Goes(e, Wait(To(f, state), "flush"), state)
           /\ Goes13(e, To13(f, state), state) /\ Goes13(e, Wait(To13(f, state), "flush"), state)
<1>0. DOMAIN f = Fields
  BY DEF Stays, Keeps
<1> DEFINE a == To(f, state)
           b == To13(f, state)
<1>1. Same(f, a, {"state"}) /\ a.state = state /\ DOMAIN a = Fields
  BY <1>0, Zenon DEF Same, Fields, To
<1>2. Same(f, b, {"tls13_state"}) /\ b.tls13_state = state /\ DOMAIN b = Fields
  BY <1>0, Zenon DEF Same, Fields, To13
<1> HIDE DEF a, b
<1>3. Keeps(f, a) /\ a.tls13_state = f.tls13_state
  BY <1>1, SameWider, KeepsSame DEF Same, Fields, Idle
<1>4. Keeps(f, b) /\ b.state = f.state
  BY <1>2, SameWider, KeepsSame DEF Same, Fields, Idle
<1>5. Goes(e, a, state) /\ Goes13(e, b, state)
  BY <1>1, <1>2, <1>3, <1>4, KeepsTrans DEF Stays, Goes, Goes13
<1> QED BY <1>1, <1>2, <1>5, StaysWait, GoesStays DEF a, b

\* Nothing changed.
LEMMA StaysItself == ASSUME NEW e, DOMAIN e = Fields PROVE Stays(e, e)
<1>1. Same(e, e, Idle)
  BY DEF Same
<1> QED BY <1>1, KeepsSame DEF Stays

\* A message that is taken, with what it says noted.
LEMMA StaysTake ==
    ASSUME NEW e, NEW q, Lists(e), HasMessage(e), Same(e, q, {"peer", "key_share", "cert_request"})
    PROVE  Stays(e, Take(q)) /\ Lists(Take(q))
<1>1. Lists(q) /\ q.hs_buf = e.hs_buf /\ Stays(e, q)
  <2>1. Lists(q)
    BY SameLists DEF Buffered
  <2>2. Same(e, q, Idle)
    BY SameWider DEF Idle
  <2> QED BY <2>1, <2>2, KeepsSame DEF Same, Fields, Stays
<1>2. HasMessage(q)
  BY <1>1 DEF HasMessage
<1> DEFINE h == HashMessage(q)
           f == NextMessage(h)
<1>3. Same(q, h, {"transcript"}) /\ Stays(q, h)
  BY <1>1, StaysHash DEF Lists
<1> HIDE DEF h
<1>4. Lists(h) /\ h.hs_buf = q.hs_buf
  <2>1. {"transcript"} \cap Buffered = {}
    BY DEF Buffered
  <2>2. Lists(h)
    BY <1>1, <1>3, <2>1, SameLists
  <2> QED BY <1>3, <2>2 DEF Same, Fields
<1>5. HasMessage(h)
  BY <1>2, <1>4 DEF HasMessage
<1>6. Same(h, f, {"hs_buf"}) /\ Lists(f) /\ \A x : Reads(f, x) => Reads(h, x)
  BY <1>4, <1>5, ReadsMessage
<1>7. Take(q) = f
  BY DEF Take, h
<1> HIDE DEF f
<1>8. \A x : Sends(f, x) = Sends(h, x)
  BY <1>6, SameBuffers
<1>9. Same(h, f, Idle \cup Buffered \cup {"transcript"})
  BY <1>6, SameWider DEF Buffered
<1>10. f.transcript = h.transcript /\ f.state = h.state /\ f.tls13_state = h.tls13_state
  BY <1>6 DEF Same, Fields
<1>11. Stays(h, f)
  BY <1>6, <1>8, <1>9, <1>10, ExtendsItself, KeepsIdle DEF Stays
<1> QED BY <1>1, <1>3, <1>6, <1>7, <1>11, StaysTrans

-----------------------------------------------------------------------------
(***************************************************************************)
(* The state machines use the layer's operators.                           *)
(***************************************************************************)
\* Records, messages and signatures of the client of TLS 1.2.
LEMMA C12Records == ASSUME NEW k, NEW us PROVE C12!Records(k, us) = Records(k, us)
BY Zenon DEF Records, Record, C12!Records, C12!Record

\* The units of a message, for the client of TLS 1.2.
LEMMA C12Units == ASSUME NEW m PROVE C12!Units(m) = Units(m)
BY Zenon DEF Units, C12!Units

\* A message put into the flight, by the client of TLS 1.2.
LEMMA C12AddMessage == ASSUME NEW e, NEW m PROVE C12!AddMessage(e, m) = AddMessage(e, m)
<1>1. C12!NullKey = NullKey
  BY Zenon DEF NullKey, C12!NullKey
<1>2. CASE e.write_key = NullKey
  BY <1>1, <1>2, C12Records, C12Units, Zenon DEF AddMessage, C12!AddMessage
<1>3. CASE e.write_key # NullKey
  BY <1>1, <1>3, C12Records, C12Units, Zenon DEF AddMessage, C12!AddMessage
<1> QED BY <1>2, <1>3

\* What follows a signature of the client of TLS 1.2.
LEMMA C12AfterSign == ASSUME NEW e, NEW then PROVE C12!AfterSign(e, then) = AfterSign(e, then)
BY Zenon DEF AfterSign, C12!AfterSign, Error, C12!Error, Wait, C12!Wait

\* What is pending becomes records, for the client of TLS 1.2.
LEMMA C12Flush == ASSUME NEW e PROVE C12!FlushPendingHsData(e) = FlushPendingHsData(e)
BY C12Records, Zenon DEF FlushPendingHsData, C12!FlushPendingHsData

\* The flight is sent, by the client of TLS 1.2.
LEMMA C12FlushFlight == ASSUME NEW e PROVE C12!FlushFlight(e) = FlushFlight(e)
BY C12Flush, Zenon DEF FlushFlight, C12!FlushFlight

\* An alert of the client of TLS 1.2.
LEMMA C12Alert == ASSUME NEW e, NEW why PROVE C12!Alert(e, why) = Alert(e, why)
BY C12FlushFlight, Zenon DEF Alert, C12!Alert, Error, C12!Error, Record, C12!Record

\* A ChangeCipherSpec of the client of TLS 1.2.
LEMMA C12ChangeCipherSpec == ASSUME NEW e PROVE C12!AddChangeCipherSpec(e) = AddChangeCipherSpec(e)
BY C12Flush, Zenon DEF AddChangeCipherSpec, C12!AddChangeCipherSpec, Record, C12!Record

\* The write key of the client of TLS 1.2.
LEMMA C12SetWriteKey == ASSUME NEW e, NEW k PROVE C12!SetWriteKey(e, k) = SetWriteKey(e, k)
BY C12Flush, Zenon DEF SetWriteKey, C12!SetWriteKey

\* Records, messages and signatures of the client of TLS 1.3.
LEMMA C13Records == ASSUME NEW k, NEW us PROVE C13!Records(k, us) = Records(k, us)
BY Zenon DEF Records, Record, C13!Records, C13!Record

\* The units of a message, for the client of TLS 1.3.
LEMMA C13Units == ASSUME NEW m PROVE C13!Units(m) = Units(m)
BY Zenon DEF Units, C13!Units

\* A message put into the flight, by the client of TLS 1.3.
LEMMA C13AddMessage == ASSUME NEW e, NEW m PROVE C13!AddMessage(e, m) = AddMessage(e, m)
<1>1. C13!NullKey = NullKey
  BY Zenon DEF NullKey, C13!NullKey
<1>2. CASE e.write_key = NullKey
  BY <1>1, <1>2, C13Records, C13Units, Zenon DEF AddMessage, C13!AddMessage
<1>3. CASE e.write_key # NullKey
  BY <1>1, <1>3, C13Records, C13Units, Zenon DEF AddMessage, C13!AddMessage
<1> QED BY <1>2, <1>3

\* What follows a signature of the client of TLS 1.3.
LEMMA C13AfterSign == ASSUME NEW e, NEW then PROVE C13!AfterSign(e, then) = AfterSign(e, then)
BY Zenon DEF AfterSign, C13!AfterSign, Error, C13!Error, Wait, C13!Wait

\* What is pending becomes records, for the client of TLS 1.3.
LEMMA C13Flush == ASSUME NEW e PROVE C13!FlushPendingHsData(e) = FlushPendingHsData(e)
BY C13Records, Zenon DEF FlushPendingHsData, C13!FlushPendingHsData

\* The flight is sent, by the client of TLS 1.3.
LEMMA C13FlushFlight == ASSUME NEW e PROVE C13!FlushFlight(e) = FlushFlight(e)
BY C13Flush, Zenon DEF FlushFlight, C13!FlushFlight

\* An alert of the client of TLS 1.3.
LEMMA C13Alert == ASSUME NEW e, NEW why PROVE C13!Alert(e, why) = Alert(e, why)
BY C13FlushFlight, Zenon DEF Alert, C13!Alert, Error, C13!Error, Record, C13!Record

\* A ChangeCipherSpec of the client of TLS 1.3.
LEMMA C13ChangeCipherSpec == ASSUME NEW e PROVE C13!AddChangeCipherSpec(e) = AddChangeCipherSpec(e)
BY C13Flush, Zenon DEF AddChangeCipherSpec, C13!AddChangeCipherSpec, Record, C13!Record

\* The write key of the client of TLS 1.3.
LEMMA C13SetWriteKey == ASSUME NEW e, NEW k PROVE C13!SetWriteKey(e, k) = SetWriteKey(e, k)
BY C13Flush, Zenon DEF SetWriteKey, C13!SetWriteKey

\* Records, messages and signatures of the server of TLS 1.2.
LEMMA S12Records == ASSUME NEW k, NEW us PROVE S12!Records(k, us) = Records(k, us)
BY Zenon DEF Records, Record, S12!Records, S12!Record

\* The units of a message, for the server of TLS 1.2.
LEMMA S12Units == ASSUME NEW m PROVE S12!Units(m) = Units(m)
BY Zenon DEF Units, S12!Units

\* A message put into the flight, by the server of TLS 1.2.
LEMMA S12AddMessage == ASSUME NEW e, NEW m PROVE S12!AddMessage(e, m) = AddMessage(e, m)
<1>1. S12!NullKey = NullKey
  BY Zenon DEF NullKey, S12!NullKey
<1>2. CASE e.write_key = NullKey
  BY <1>1, <1>2, S12Records, S12Units, Zenon DEF AddMessage, S12!AddMessage
<1>3. CASE e.write_key # NullKey
  BY <1>1, <1>3, S12Records, S12Units, Zenon DEF AddMessage, S12!AddMessage
<1> QED BY <1>2, <1>3

\* What follows a signature of the server of TLS 1.2.
LEMMA S12AfterSign == ASSUME NEW e, NEW then PROVE S12!AfterSign(e, then) = AfterSign(e, then)
BY Zenon DEF AfterSign, S12!AfterSign, Error, S12!Error, Wait, S12!Wait

\* What is pending becomes records, for the server of TLS 1.2.
LEMMA S12Flush == ASSUME NEW e PROVE S12!FlushPendingHsData(e) = FlushPendingHsData(e)
BY S12Records, Zenon DEF FlushPendingHsData, S12!FlushPendingHsData

\* The flight is sent, by the server of TLS 1.2.
LEMMA S12FlushFlight == ASSUME NEW e PROVE S12!FlushFlight(e) = FlushFlight(e)
BY S12Flush, Zenon DEF FlushFlight, S12!FlushFlight

\* An alert of the server of TLS 1.2.
LEMMA S12Alert == ASSUME NEW e, NEW why PROVE S12!Alert(e, why) = Alert(e, why)
BY S12FlushFlight, Zenon DEF Alert, S12!Alert, Error, S12!Error, Record, S12!Record

\* A ChangeCipherSpec of the server of TLS 1.2.
LEMMA S12ChangeCipherSpec == ASSUME NEW e PROVE S12!AddChangeCipherSpec(e) = AddChangeCipherSpec(e)
BY S12Flush, Zenon DEF AddChangeCipherSpec, S12!AddChangeCipherSpec, Record, S12!Record

\* The write key of the server of TLS 1.2.
LEMMA S12SetWriteKey == ASSUME NEW e, NEW k PROVE S12!SetWriteKey(e, k) = SetWriteKey(e, k)
BY S12Flush, Zenon DEF SetWriteKey, S12!SetWriteKey

\* Records, messages and signatures of the server of TLS 1.3.
LEMMA S13Records == ASSUME NEW k, NEW us PROVE S13!Records(k, us) = Records(k, us)
BY Zenon DEF Records, Record, S13!Records, S13!Record

\* The units of a message, for the server of TLS 1.3.
LEMMA S13Units == ASSUME NEW m PROVE S13!Units(m) = Units(m)
BY Zenon DEF Units, S13!Units

\* A message put into the flight, by the server of TLS 1.3.
LEMMA S13AddMessage == ASSUME NEW e, NEW m PROVE S13!AddMessage(e, m) = AddMessage(e, m)
<1>1. S13!NullKey = NullKey
  BY Zenon DEF NullKey, S13!NullKey
<1>2. CASE e.write_key = NullKey
  BY <1>1, <1>2, S13Records, S13Units, Zenon DEF AddMessage, S13!AddMessage
<1>3. CASE e.write_key # NullKey
  BY <1>1, <1>3, S13Records, S13Units, Zenon DEF AddMessage, S13!AddMessage
<1> QED BY <1>2, <1>3

\* What follows a signature of the server of TLS 1.3.
LEMMA S13AfterSign == ASSUME NEW e, NEW then PROVE S13!AfterSign(e, then) = AfterSign(e, then)
BY Zenon DEF AfterSign, S13!AfterSign, Error, S13!Error, Wait, S13!Wait

\* What is pending becomes records, for the server of TLS 1.3.
LEMMA S13Flush == ASSUME NEW e PROVE S13!FlushPendingHsData(e) = FlushPendingHsData(e)
BY S13Records, Zenon DEF FlushPendingHsData, S13!FlushPendingHsData

\* The flight is sent, by the server of TLS 1.3.
LEMMA S13FlushFlight == ASSUME NEW e PROVE S13!FlushFlight(e) = FlushFlight(e)
BY S13Flush, Zenon DEF FlushFlight, S13!FlushFlight

\* An alert of the server of TLS 1.3.
LEMMA S13Alert == ASSUME NEW e, NEW why PROVE S13!Alert(e, why) = Alert(e, why)
BY S13FlushFlight, Zenon DEF Alert, S13!Alert, Error, S13!Error, Record, S13!Record

\* A ChangeCipherSpec of the server of TLS 1.3.
LEMMA S13ChangeCipherSpec == ASSUME NEW e PROVE S13!AddChangeCipherSpec(e) = AddChangeCipherSpec(e)
BY S13Flush, Zenon DEF AddChangeCipherSpec, S13!AddChangeCipherSpec, Record, S13!Record

\* The write key of the server of TLS 1.3.
LEMMA S13SetWriteKey == ASSUME NEW e, NEW k PROVE S13!SetWriteKey(e, k) = SetWriteKey(e, k)
BY S13Flush, Zenon DEF SetWriteKey, S13!SetWriteKey

\* do_read_server_certificate.
LEMMA C12ReadServerCertificateGoes ==
    ASSUME NEW e, NEW g, Good(e, g)
    PROVE  \/ Stays(e, C12!do_read_server_certificate(e))
           \/ Goes(e, C12!do_read_server_certificate(e), "verify_server_certificate")
<1> DEFINE f == To(Take([e EXCEPT !.peer = Message(e).cert]), "verify_server_certificate")
           then == IF Message(e).cert = "none" THEN Alert(HashMessage(e), "decode_error") ELSE f
<1>1. C12!do_read_server_certificate(e) = Expect(e, "certificate", then)
  BY Zenon DEF C12!do_read_server_certificate, To, Take, NextMessage, Units, Message,
       HashMessage, Alert, FlushFlight, FlushPendingHsData, Records, Record, Error, HasMessage,
       Expect, Wait, C12!To, C12!Take, C12!NextMessage, C12!Units, C12!Message, C12!HashMessage,
       C12!Alert, C12!FlushFlight, C12!FlushPendingHsData, C12!Records, C12!Record, C12!Error,
       C12!HasMessage, C12!Expect, C12!Wait
<1>2. Lists(e) /\ Stays(e, e)
  BY GoodLists, StaysItself DEF Lists
<1>3. ASSUME HasMessage(e) PROVE Goes(e, f, "verify_server_certificate")
  <2>1. Same(e, [e EXCEPT !.peer = Message(e).cert], {"peer", "key_share", "cert_request"})
    BY <1>2, Zenon DEF Same, Lists
  <2> QED BY <1>2, <1>3, <2>1, StaysTake, GoesTo
<1> HIDE DEF f
<1>4. ASSUME HasMessage(e) PROVE Stays(e, then) \/ Goes(e, then, "verify_server_certificate")
  BY <1>2, <1>3, <1>4, StaysHashAlert
<1> HIDE DEF then
<1> QED BY <1>1, <1>2, <1>4, ExpectCases

\* do_verify_server_certificate.
LEMMA C12VerifyServerCertificateGoes ==
    ASSUME NEW e, NEW g, Good(e, g)
    PROVE  \/ Stays(e, C12!do_verify_server_certificate(e))
           \/ Goes(e, C12!do_verify_server_certificate(e), "read_server_key_exchange")
<1> DEFINE f == To(e, "read_server_key_exchange")
<1>1. C12!do_verify_server_certificate(e) = AfterVerify(e, f)
  BY Zenon DEF C12!do_verify_server_certificate, To, AfterVerify, Alert, FlushFlight,
       FlushPendingHsData, Records, Record, Error, HasMessage, Units, Message, Wait, C12!To,
       C12!AfterVerify, C12!Alert, C12!FlushFlight, C12!FlushPendingHsData, C12!Records,
       C12!Record, C12!Error, C12!HasMessage, C12!Units, C12!Message, C12!Wait
<1>2. Lists(e) /\ Stays(e, e)
  BY GoodLists, StaysItself DEF Lists
<1>3. Goes(e, f, "read_server_key_exchange")
  BY <1>2, GoesTo
<1> HIDE DEF f
<1> QED BY <1>1, <1>2, <1>3, AfterVerifyCases

\* do_read_server_key_exchange.
LEMMA C12ReadServerKeyExchangeGoes ==
    ASSUME NEW e, NEW g, Good(e, g)
    PROVE  \/ Stays(e, C12!do_read_server_key_exchange(e))
           \/ Goes(e, C12!do_read_server_key_exchange(e), "read_certificate_request")
<1> DEFINE f == To(Take([e EXCEPT !.key_share = Message(e).group]), "read_certificate_request")
           then == IF \A i \in 1..Len(e.cfg.groups) : e.cfg.groups[i] # Message(e).group
                   THEN Alert(HashMessage(e), "illegal_parameter")
                   ELSE IF ~SignedBy(Message(e), e, SubSeq(e.transcript, 1, 2))
                   THEN Alert(HashMessage(e), "decrypt_error") ELSE f
<1>1. C12!do_read_server_key_exchange(e) = Expect(e, "server_key_exchange", then)
  BY Zenon DEF C12!do_read_server_key_exchange, To, Take, NextMessage, Units, Message,
       HashMessage, Alert, FlushFlight, FlushPendingHsData, Records, Record, Error, HasMessage,
       SignedBy, Expect, Wait, C12!To, C12!Take, C12!NextMessage, C12!Units, C12!Message,
       C12!HashMessage, C12!Alert, C12!FlushFlight, C12!FlushPendingHsData, C12!Records,
       C12!Record, C12!Error, C12!HasMessage, C12!SignedBy, C12!Expect, C12!Wait
<1>2. Lists(e) /\ Stays(e, e)
  BY GoodLists, StaysItself DEF Lists
<1>3. ASSUME HasMessage(e) PROVE Goes(e, f, "read_certificate_request")
  <2>1. Same(e, [e EXCEPT !.key_share = Message(e).group], {"peer", "key_share", "cert_request"})
    BY <1>2, Zenon DEF Same, Lists
  <2> QED BY <1>2, <1>3, <2>1, StaysTake, GoesTo
<1> HIDE DEF f
<1>4. ASSUME HasMessage(e) PROVE Stays(e, then) \/ Goes(e, then, "read_certificate_request")
  BY <1>2, <1>3, <1>4, StaysHashAlert
<1> HIDE DEF then
<1> QED BY <1>1, <1>2, <1>4, ExpectCases

\* do_read_certificate_request.
LEMMA C12ReadCertificateRequestGoes ==
    ASSUME NEW e, NEW g, Good(e, g)
    PROVE  \/ Stays(e, C12!do_read_certificate_request(e))
           \/ Goes(e, C12!do_read_certificate_request(e), "read_server_hello_done")
<1> DEFINE f == To(e, "read_server_hello_done")
           h == To(Take([e EXCEPT !.cert_request = TRUE]), "read_server_hello_done")
<1>1. C12!do_read_certificate_request(e) = IF HasMessage(e) /\ Message(e).type = "server_hello_done" THEN f
                                              ELSE Expect(e, "certificate_request", h)
  BY Zenon DEF C12!do_read_certificate_request, To, Take, NextMessage, Units, Message,
       HashMessage, HasMessage, Expect, Wait, Alert, FlushFlight, FlushPendingHsData, Records,
       Record, Error, C12!To, C12!Take, C12!NextMessage, C12!Units, C12!Message, C12!HashMessage,
       C12!HasMessage, C12!Expect, C12!Wait, C12!Alert, C12!FlushFlight, C12!FlushPendingHsData,
       C12!Records, C12!Record, C12!Error
<1>2. Lists(e) /\ Stays(e, e)
  BY GoodLists, StaysItself DEF Lists
<1>3. Goes(e, f, "read_server_hello_done")
  BY <1>2, GoesTo
<1>4. ASSUME HasMessage(e) PROVE Goes(e, h, "read_server_hello_done")
  <2>1. Same(e, [e EXCEPT !.cert_request = TRUE], {"peer", "key_share", "cert_request"})
    BY <1>2, Zenon DEF Same, Lists
  <2> QED BY <1>2, <1>4, <2>1, StaysTake, GoesTo
<1> HIDE DEF f, h
<1> QED BY <1>1, <1>2, <1>3, <1>4, ExpectCases

\* do_read_server_hello_done.
LEMMA C12ReadServerHelloDoneGoes ==
    ASSUME NEW e, NEW g, Good(e, g)
    PROVE  \/ Stays(e, C12!do_read_server_hello_done(e))
           \/ Goes(e, C12!do_read_server_hello_done(e), "send_client_certificate")
<1> DEFINE f == To(Take(e), "send_client_certificate")
           then == IF Excess(e) THEN Alert(HashMessage(e), "unexpected_message") ELSE f
<1>1. C12!do_read_server_hello_done(e) = Expect(e, "server_hello_done", then)
  BY Zenon DEF C12!do_read_server_hello_done, To, Take, NextMessage, Units, Message,
       HashMessage, Excess, Alert, FlushFlight, FlushPendingHsData, Records, Record, Error,
       HasMessage, Expect, Wait, C12!To, C12!Take, C12!NextMessage, C12!Units, C12!Message,
       C12!HashMessage, C12!Excess, C12!Alert, C12!FlushFlight, C12!FlushPendingHsData,
       C12!Records, C12!Record, C12!Error, C12!HasMessage, C12!Expect, C12!Wait
<1>2. Lists(e) /\ Stays(e, e)
  BY GoodLists, StaysItself DEF Lists
<1>3. ASSUME HasMessage(e) PROVE Goes(e, f, "send_client_certificate")
  <2>1. Same(e, e, {"peer", "key_share", "cert_request"})
    BY <1>2, Zenon DEF Same, Lists
  <2> QED BY <1>2, <1>3, <2>1, StaysTake, GoesTo
<1> HIDE DEF f
<1>4. ASSUME HasMessage(e) PROVE Stays(e, then) \/ Goes(e, then, "send_client_certificate")
  BY <1>2, <1>3, <1>4, StaysHashAlert
<1> HIDE DEF then
<1> QED BY <1>1, <1>2, <1>4, ExpectCases

\* do_send_client_certificate.
LEMMA C12SendClientCertificateGoes ==
    ASSUME NEW e, NEW g, Good(e, g)
    PROVE  \/ Stays(e, C12!do_send_client_certificate(e))
           \/ Goes(e, C12!do_send_client_certificate(e), "send_client_key_exchange")
<1> DEFINE d == AddMessage(e, Certificate(e))
           f == To(d, "send_client_key_exchange")
           h == To(e, "send_client_key_exchange")
<1>1. C12!do_send_client_certificate(e) = IF ~e.cert_request THEN h ELSE f
  BY C12AddMessage, Zenon DEF C12!do_send_client_certificate, Certificate, To,
       C12!Certificate, C12!To
<1>2. Lists(e) /\ Stays(e, e)
  BY GoodLists, StaysItself DEF Lists
<1>3. Plain(Certificate(e))
  BY DEF Plain, Certificate
<1>4. Goes(e, f, "send_client_key_exchange") /\ Goes(e, h, "send_client_key_exchange")
  BY <1>2, <1>3, KeepsAddMessage, GoesTo
<1> HIDE DEF f, h
<1> QED BY <1>1, <1>4

\* do_send_client_certificate_verify.
LEMMA C12SendClientCertificateVerifyGoes ==
    ASSUME NEW e, NEW g, Good(e, g)
    PROVE  \/ Stays(e, C12!do_send_client_certificate_verify(e))
           \/ Goes(e, C12!do_send_client_certificate_verify(e), "send_client_finished")
<1> DEFINE f == To(e, "send_client_finished")
           then == To(AddMessage(e, CertificateVerify(e)), "send_client_finished")
<1>1. C12!do_send_client_certificate_verify(e) = IF ~e.cert_request \/ ~e.cfg.cert THEN f
                                                    ELSE AfterSign(e, then)
  BY C12AddMessage, C12AfterSign, Zenon DEF C12!do_send_client_certificate_verify, To,
       CertificateVerify, Error, Wait, C12!To, C12!CertificateVerify, C12!Error, C12!Wait
<1>2. Lists(e) /\ Stays(e, e)
  BY GoodLists, StaysItself DEF Lists
<1>3. Plain(CertificateVerify(e))
  BY DEF Plain, CertificateVerify
<1>4. Goes(e, then, "send_client_finished")
  BY <1>2, <1>3, KeepsAddMessage, GoesTo
<1>5. Goes(e, f, "send_client_finished")
  BY <1>2, GoesTo
<1> HIDE DEF then, f
<1>6. DOMAIN then = Fields
  BY <1>4 DEF Goes, Keeps
<1>7. Stays(e, AfterSign(e, then)) \/ Goes(e, AfterSign(e, then), "send_client_finished")
  BY <1>2, <1>4, <1>6, AfterSignCases, GoesStays DEF Good, Typed
<1> QED BY <1>1, <1>5, <1>7

\* do_finish_flight.
LEMMA C12FinishFlightGoes ==
    ASSUME NEW e, NEW g, Good(e, g)
    PROVE  \/ Stays(e, C12!do_finish_flight(e))
           \/ Goes(e, C12!do_finish_flight(e), IF e.session_reused THEN "finish_client_handshake" ELSE "read_session_ticket")
<1> DEFINE f == To(e, IF e.session_reused THEN "finish_client_handshake" ELSE "read_session_ticket")
<1>1. C12!do_finish_flight(e) = f
  BY Zenon DEF C12!do_finish_flight, To, C12!To
<1>2. Lists(e) /\ Stays(e, e)
  BY GoodLists, StaysItself DEF Lists
<1> QED BY <1>1, <1>2, GoesTo

\* do_read_session_ticket.
LEMMA C12ReadSessionTicketGoes ==
    ASSUME NEW e, NEW g, Good(e, g)
    PROVE  \/ Stays(e, C12!do_read_session_ticket(e))
           \/ Goes(e, C12!do_read_session_ticket(e), "process_change_cipher_spec")
<1> DEFINE h == To(e, "process_change_cipher_spec")
           f == Wait(h, "read_change_cipher_spec")
           then == Wait(Take(h), "read_change_cipher_spec")
<1>1. C12!do_read_session_ticket(e) = IF ~e.ticket_expected THEN f ELSE Expect(e, "new_session_ticket", then)
  BY Zenon DEF C12!do_read_session_ticket, To, Wait, Take, NextMessage, Units, Message,
       HashMessage, Expect, HasMessage, Alert, FlushFlight, FlushPendingHsData, Records, Record,
       Error, C12!To, C12!Wait, C12!Take, C12!NextMessage, C12!Units, C12!Message, C12!HashMessage,
       C12!Expect, C12!HasMessage, C12!Alert, C12!FlushFlight, C12!FlushPendingHsData, C12!Records,
       C12!Record, C12!Error
<1>2. Lists(e) /\ Stays(e, e)
  BY GoodLists, StaysItself DEF Lists
<1>3. Goes(e, h, "process_change_cipher_spec") /\ DOMAIN h = Fields
  <2>1. Goes(e, h, "process_change_cipher_spec")
    BY <1>2, GoesTo
  <2> HIDE DEF h
  <2> QED BY <2>1 DEF Goes, Keeps
<1>4. Goes(e, f, "process_change_cipher_spec")
  <2> HIDE DEF h
  <2> QED BY <1>3, StaysWait, GoesStays
<1>5. ASSUME HasMessage(e) PROVE Goes(e, then, "process_change_cipher_spec")
  <2>1. Lists(h) /\ HasMessage(h)
    <3>1. Same(e, h, {"state"})
      BY <1>2, Zenon DEF Same, To, Lists
    <3> HIDE DEF h
    <3>2. {"state"} \cap Buffered = {}
      BY DEF Buffered
    <3>3. Lists(h) /\ h.hs_buf = e.hs_buf
      BY <1>2, <3>1, <3>2, SameLists DEF Same, Fields
    <3> QED BY <1>5, <3>3 DEF HasMessage
  <2> HIDE DEF h
  <2>2. Same(h, h, {"peer", "key_share", "cert_request"})
    BY <1>3 DEF Same
  <2>3. Stays(h, Take(h)) /\ Lists(Take(h))
    BY <2>1, <2>2, StaysTake
  <2> QED BY <1>3, <2>3, StaysWait, GoesStays, StaysTrans DEF Lists
<1> HIDE DEF f, then
<1> QED BY <1>1, <1>2, <1>4, <1>5, ExpectCases

\* do_finish_client_handshake.
LEMMA C12FinishClientHandshakeGoes ==
    ASSUME NEW e, NEW g, Good(e, g)
    PROVE  \/ Stays(e, C12!do_finish_client_handshake(e))
           \/ Goes(e, C12!do_finish_client_handshake(e), "done")
<1> DEFINE f == [e EXCEPT !.state = "done", !.established = e.peer]
<1>1. C12!do_finish_client_handshake(e) = f
  BY Zenon DEF C12!do_finish_client_handshake
<1>2. Lists(e) /\ Stays(e, e)
  BY GoodLists, StaysItself DEF Lists
<1>3. Same(e, f, {"state", "established"}) /\ f.state = "done"
  BY <1>2, Zenon DEF Same, Lists, Fields
<1> HIDE DEF f
<1>4. Same(e, f, Idle) /\ f.tls13_state = e.tls13_state
  BY <1>3, SameWider DEF Idle, Same, Fields
<1> QED BY <1>1, <1>3, <1>4, KeepsSame DEF Goes

\* do_read_encrypted_extensions.
LEMMA C13ReadEncryptedExtensionsGoes ==
    ASSUME NEW e, NEW g, Good(e, g)
    PROVE  \/ Stays(e, C13!do_read_encrypted_extensions(e))
           \/ Goes13(e, C13!do_read_encrypted_extensions(e), "read_certificate_request")
<1> DEFINE f == To13(Take(e), "read_certificate_request")
<1>1. C13!do_read_encrypted_extensions(e) = Expect(e, "encrypted_extensions", f)
  BY Zenon DEF C13!do_read_encrypted_extensions, To13, Take, NextMessage, Units, Message,
       HashMessage, Expect, HasMessage, Wait, Alert, FlushFlight, FlushPendingHsData, Records,
       Record, Error, C13!To13, C13!Take, C13!NextMessage, C13!Units, C13!Message, C13!HashMessage,
       C13!Expect, C13!HasMessage, C13!Wait, C13!Alert, C13!FlushFlight, C13!FlushPendingHsData,
       C13!Records, C13!Record, C13!Error
<1>2. Lists(e) /\ Stays(e, e)
  BY GoodLists, StaysItself DEF Lists
<1>3. ASSUME HasMessage(e) PROVE Goes13(e, f, "read_certificate_request")
  <2>1. Same(e, e, {"peer", "key_share", "cert_request"})
    BY <1>2, Zenon DEF Same, Lists
  <2> QED BY <1>2, <1>3, <2>1, StaysTake, GoesTo
<1> HIDE DEF f
<1> QED BY <1>1, <1>2, <1>3, ExpectCases

\* do_read_certificate_request.
LEMMA C13ReadCertificateRequestGoes ==
    ASSUME NEW e, NEW g, Good(e, g)
    PROVE  \/ Stays(e, C13!do_read_certificate_request(e))
           \/ Goes13(e, C13!do_read_certificate_request(e), "read_server_finished")
           \/ Goes13(e, C13!do_read_certificate_request(e), "read_server_certificate")
<1> DEFINE f == To13(e, "read_server_finished")
           h == To13(e, "read_server_certificate")
           r == To13(Take([e EXCEPT !.cert_request = TRUE]), "read_server_certificate")
<1>1. C13!do_read_certificate_request(e) = IF e.session_reused THEN f
        ELSE IF ~HasMessage(e) THEN Wait(e, "read_message")
        ELSE IF Message(e).type # "certificate_request" THEN h ELSE r
  BY Zenon DEF C13!do_read_certificate_request, To13, Take, NextMessage, Units, Message,
       HashMessage, HasMessage, Wait, C13!To13, C13!Take, C13!NextMessage, C13!Units, C13!Message,
       C13!HashMessage, C13!HasMessage, C13!Wait
<1>2. Lists(e) /\ Stays(e, e)
  BY GoodLists, StaysItself DEF Lists
<1>3. Goes13(e, f, "read_server_finished") /\ Goes13(e, h, "read_server_certificate")
  BY <1>2, GoesTo
<1>4. ASSUME HasMessage(e) PROVE Goes13(e, r, "read_server_certificate")
  <2>1. Same(e, [e EXCEPT !.cert_request = TRUE], {"peer", "key_share", "cert_request"})
    BY <1>2, Zenon DEF Same, Lists
  <2> QED BY <1>2, <1>4, <2>1, StaysTake, GoesTo
<1> HIDE DEF f, h, r
<1> QED BY <1>1, <1>2, <1>3, <1>4, StaysWait DEF Lists

\* do_read_server_certificate.
LEMMA C13ReadServerCertificateGoes ==
    ASSUME NEW e, NEW g, Good(e, g)
    PROVE  \/ Stays(e, C13!do_read_server_certificate(e))
           \/ Goes13(e, C13!do_read_server_certificate(e), "read_server_certificate_verify")
<1> DEFINE f == To13(Take([e EXCEPT !.peer = Message(e).cert]), "read_server_certificate_verify")
           then == IF Message(e).cert = "none" THEN Alert(e, "certificate_required") ELSE f
<1>1. C13!do_read_server_certificate(e) = Expect(e, "certificate", then)
  BY Zenon DEF C13!do_read_server_certificate, To13, Take, NextMessage, Units, Message,
       HashMessage, Alert, FlushFlight, FlushPendingHsData, Records, Record, Error, HasMessage,
       Expect, Wait, C13!To13, C13!Take, C13!NextMessage, C13!Units, C13!Message, C13!HashMessage,
       C13!Alert, C13!FlushFlight, C13!FlushPendingHsData, C13!Records, C13!Record, C13!Error,
       C13!HasMessage, C13!Expect, C13!Wait
<1>2. Lists(e) /\ Stays(e, e)
  BY GoodLists, StaysItself DEF Lists
<1>3. ASSUME HasMessage(e) PROVE Goes13(e, f, "read_server_certificate_verify")
  <2>1. Same(e, [e EXCEPT !.peer = Message(e).cert], {"peer", "key_share", "cert_request"})
    BY <1>2, Zenon DEF Same, Lists
  <2> QED BY <1>2, <1>3, <2>1, StaysTake, GoesTo
<1> HIDE DEF f
<1>4. ASSUME HasMessage(e) PROVE Stays(e, then) \/ Goes13(e, then, "read_server_certificate_verify")
  BY <1>2, <1>3, <1>4, StaysAlert
<1> HIDE DEF then
<1> QED BY <1>1, <1>2, <1>4, ExpectCases

\* do_read_server_certificate_verify.
LEMMA C13ReadServerCertificateVerifyGoes ==
    ASSUME NEW e, NEW g, Good(e, g)
    PROVE  \/ Stays(e, C13!do_read_server_certificate_verify(e))
           \/ Goes13(e, C13!do_read_server_certificate_verify(e), "read_server_finished")
<1> DEFINE f == To13(Take(e), "read_server_finished")
           then == IF ~SignedBy(Message(e), e, e.transcript) THEN Alert(e, "decrypt_error") ELSE f
<1>1. C13!do_read_server_certificate_verify(e) = IF ~HasMessage(e) THEN Wait(e, "read_message")
                                                    ELSE AfterVerify(e, Expect(e, "certificate_verify", then))
  BY Zenon DEF C13!do_read_server_certificate_verify, To13, Take, NextMessage, Units, Message,
       HashMessage, SignedBy, Alert, FlushFlight, FlushPendingHsData, Records, Record, Error,
       HasMessage, Wait, AfterVerify, Expect, C13!To13, C13!Take, C13!NextMessage, C13!Units,
       C13!Message, C13!HashMessage, C13!SignedBy, C13!Alert, C13!FlushFlight,
       C13!FlushPendingHsData, C13!Records, C13!Record, C13!Error, C13!HasMessage, C13!Wait,
       C13!AfterVerify, C13!Expect
<1>2. Lists(e) /\ Stays(e, e)
  BY GoodLists, StaysItself DEF Lists
<1>3. ASSUME HasMessage(e) PROVE Goes13(e, f, "read_server_finished")
  <2>1. Same(e, e, {"peer", "key_share", "cert_request"})
    BY <1>2, Zenon DEF Same, Lists
  <2> QED BY <1>2, <1>3, <2>1, StaysTake, GoesTo
<1> HIDE DEF f
<1>4. ASSUME HasMessage(e) PROVE Stays(e, then) \/ Goes13(e, then, "read_server_finished")
  BY <1>2, <1>3, <1>4, StaysAlert
<1> HIDE DEF then
<1> DEFINE x == Expect(e, "certificate_verify", then)
<1>5. Stays(e, x) \/ Goes13(e, x, "read_server_finished")
  BY <1>2, <1>4, ExpectCases
<1> HIDE DEF x
<1>6. Stays(e, AfterVerify(e, x)) \/ Goes13(e, AfterVerify(e, x), "read_server_finished")
  BY <1>2, <1>5, AfterVerifyCases
<1> QED BY <1>1, <1>2, <1>6, StaysWait DEF x, Lists

\* do_send_client_certificate.
LEMMA C13SendClientCertificateGoes ==
    ASSUME NEW e, NEW g, Good(e, g)
    PROVE  \/ Stays(e, C13!do_send_client_certificate(e))
           \/ Goes13(e, C13!do_send_client_certificate(e), "send_client_certificate_verify")
           \/ Goes13(e, C13!do_send_client_certificate(e), "complete_second_flight")
<1> DEFINE d == AddMessage(e, Certificate(e))
           f == To13(d, "send_client_certificate_verify")
           h == To13(e, "complete_second_flight")
<1>1. C13!do_send_client_certificate(e) = IF ~e.cert_request THEN h ELSE f
  BY C13AddMessage, Zenon DEF C13!do_send_client_certificate, Certificate, To13,
       C13!Certificate, C13!To13
<1>2. Lists(e) /\ Stays(e, e)
  BY GoodLists, StaysItself DEF Lists
<1>3. Plain(Certificate(e))
  BY DEF Plain, Certificate
<1>4. Goes13(e, f, "send_client_certificate_verify") /\ Goes13(e, h, "complete_second_flight")
  BY <1>2, <1>3, KeepsAddMessage, GoesTo
<1> HIDE DEF f, h
<1> QED BY <1>1, <1>4

\* do_send_client_certificate_verify.
LEMMA C13SendClientCertificateVerifyGoes ==
    ASSUME NEW e, NEW g, Good(e, g)
    PROVE  \/ Stays(e, C13!do_send_client_certificate_verify(e))
           \/ Goes13(e, C13!do_send_client_certificate_verify(e), "complete_second_flight")
<1> DEFINE f == To13(e, "complete_second_flight")
           then == To13(AddMessage(e, CertificateVerify(e)), "complete_second_flight")
<1>1. C13!do_send_client_certificate_verify(e) = IF ~e.cfg.cert THEN f ELSE AfterSign(e, then)
  BY C13AddMessage, C13AfterSign, Zenon DEF C13!do_send_client_certificate_verify, To13,
       CertificateVerify, Error, Wait, C13!To13, C13!CertificateVerify, C13!Error, C13!Wait
<1>2. Lists(e) /\ Stays(e, e)
  BY GoodLists, StaysItself DEF Lists
<1>3. Plain(CertificateVerify(e))
  BY DEF Plain, CertificateVerify
<1>4. Goes13(e, then, "complete_second_flight")
  BY <1>2, <1>3, KeepsAddMessage, GoesTo
<1>5. Goes13(e, f, "complete_second_flight")
  BY <1>2, GoesTo
<1> HIDE DEF then, f
<1>6. DOMAIN then = Fields
  BY <1>4 DEF Goes13, Keeps
<1>7. Stays(e, AfterSign(e, then)) \/ Goes13(e, AfterSign(e, then), "complete_second_flight")
  BY <1>2, <1>4, <1>6, AfterSignCases, GoesStays DEF Good, Typed
<1> QED BY <1>1, <1>5, <1>7

\* do_start_accept.
LEMMA S12StartAcceptGoes ==
    ASSUME NEW e, NEW g, Good(e, g)
    PROVE  \/ Stays(e, S12!do_start_accept(e))
           \/ Goes(e, S12!do_start_accept(e), "read_client_hello")
<1> DEFINE f == To(e, "read_client_hello")
<1>1. S12!do_start_accept(e) = f
  BY Zenon DEF S12!do_start_accept, To, S12!To
<1>2. Lists(e) /\ Stays(e, e)
  BY GoodLists, StaysItself DEF Lists
<1> QED BY <1>1, <1>2, GoesTo

\* do_read_client_hello.
LEMMA S12ReadClientHelloGoes ==
    ASSUME NEW e, NEW g, Good(e, g)
    PROVE  \/ Stays(e, S12!do_read_client_hello(e))
           \/ Goes(e, S12!do_read_client_hello(e), "read_client_hello_after_ech")
<1> DEFINE f == To(e, "read_client_hello_after_ech")
           then == IF Excess(e) THEN Alert(e, "unexpected_message") ELSE f
<1>1. S12!do_read_client_hello(e) = Expect(e, "client_hello", then)
  BY Zenon DEF S12!do_read_client_hello, To, Excess, Units, Message, Alert, FlushFlight,
       FlushPendingHsData, Records, Record, Error, HasMessage, Expect, Wait, S12!To, S12!Excess,
       S12!Units, S12!Message, S12!Alert, S12!FlushFlight, S12!FlushPendingHsData, S12!Records,
       S12!Record, S12!Error, S12!HasMessage, S12!Expect, S12!Wait
<1>2. Lists(e) /\ Stays(e, e)
  BY GoodLists, StaysItself DEF Lists
<1>3. Goes(e, f, "read_client_hello_after_ech")
  BY <1>2, GoesTo
<1> HIDE DEF f
<1>4. Stays(e, then) \/ Goes(e, then, "read_client_hello_after_ech")
  BY <1>2, <1>3, StaysAlert
<1> HIDE DEF then
<1> QED BY <1>1, <1>2, <1>4, ExpectCases

\* do_send_server_certificate.
LEMMA S12SendServerCertificateGoes ==
    ASSUME NEW e, NEW g, Good(e, g)
    PROVE  \/ Stays(e, S12!do_send_server_certificate(e))
           \/ Goes(e, S12!do_send_server_certificate(e), "send_server_key_exchange")
<1> DEFINE d == AddMessage(e, Certificate(e))
           f == To(d, "send_server_key_exchange")
<1>1. S12!do_send_server_certificate(e) = f
  BY S12AddMessage, Zenon DEF S12!do_send_server_certificate, Certificate, To,
       S12!Certificate, S12!To
<1>2. Lists(e) /\ Stays(e, e)
  BY GoodLists, StaysItself DEF Lists
<1>3. Plain(Certificate(e))
  BY DEF Plain, Certificate
<1> QED BY <1>1, <1>2, <1>3, KeepsAddMessage, GoesTo

\* do_send_server_key_exchange.
LEMMA S12SendServerKeyExchangeGoes ==
    ASSUME NEW e, NEW g, Good(e, g)
    PROVE  \/ Stays(e, S12!do_send_server_key_exchange(e))
           \/ Goes(e, S12!do_send_server_key_exchange(e), "send_server_hello_done")
<1> DEFINE m == [type |-> "server_key_exchange", group |-> e.key_share, key |-> e.side,
                  over |-> SubSeq(e.transcript, 1, 2)]
           then == To(AddMessage(e, m), "send_server_hello_done")
<1>1. S12!do_send_server_key_exchange(e) = AfterSign(e, then)
  BY S12AddMessage, S12AfterSign, Zenon DEF S12!do_send_server_key_exchange, To, Error, Wait,
       S12!To, S12!Error, S12!Wait
<1>2. Lists(e) /\ Stays(e, e)
  BY GoodLists, StaysItself DEF Lists
<1>3. Plain(m)
  BY DEF Plain
<1> HIDE DEF m
<1>4. Goes(e, then, "send_server_hello_done")
  BY <1>2, <1>3, KeepsAddMessage, GoesTo
<1> HIDE DEF then
<1>5. DOMAIN then = Fields
  BY <1>4 DEF Goes, Keeps
<1>6. Stays(e, AfterSign(e, then)) \/ Goes(e, AfterSign(e, then), "send_server_hello_done")
  BY <1>2, <1>4, <1>5, AfterSignCases, GoesStays DEF Good, Typed
<1> QED BY <1>1, <1>6

\* do_send_server_hello_done.
LEMMA S12SendServerHelloDoneGoes ==
    ASSUME NEW e, NEW g, Good(e, g)
    PROVE  \/ Stays(e, S12!do_send_server_hello_done(e))
           \/ Goes(e, S12!do_send_server_hello_done(e), "read_client_certificate")
<1> DEFINE request == [type |-> "certificate_request"]
           done == [type |-> "server_hello_done"]
           a == IF e.cert_request THEN AddMessage(e, request) ELSE e
           d == AddMessage(a, done)
           f == Wait(To(d, "read_client_certificate"), "flush")
<1>1. S12!do_send_server_hello_done(e) = f
  BY S12AddMessage, Zenon DEF S12!do_send_server_hello_done, Wait, To, S12!Wait, S12!To
<1>2. Lists(e) /\ Stays(e, e)
  BY GoodLists, StaysItself DEF Lists
<1>3. Plain(request) /\ Plain(done)
  BY DEF Plain
<1> HIDE DEF request, done
<1>4. Stays(e, a) /\ Lists(a)
  BY <1>2, <1>3, KeepsAddMessage
<1> HIDE DEF a
<1>5. Stays(e, d)
  BY <1>3, <1>4, KeepsAddMessage, StaysTrans
<1> HIDE DEF d
<1> QED BY <1>1, <1>5, GoesTo

\* do_read_client_certificate.
LEMMA S12ReadClientCertificateGoes ==
    ASSUME NEW e, NEW g, Good(e, g)
    PROVE  \/ Stays(e, S12!do_read_client_certificate(e))
           \/ Goes(e, S12!do_read_client_certificate(e), "verify_client_certificate")
<1> DEFINE h == To(e, "verify_client_certificate")
           f == To(Take([e EXCEPT !.peer = Message(e).cert]), "verify_client_certificate")
           then == IF Message(e).cert = "none" THEN Alert(HashMessage(e), "handshake_failure") ELSE f
<1>1. S12!do_read_client_certificate(e) = IF ~e.cert_request THEN h ELSE Expect(e, "certificate", then)
  BY Zenon DEF S12!do_read_client_certificate, To, Take, NextMessage, Units, Message,
       HashMessage, Alert, FlushFlight, FlushPendingHsData, Records, Record, Error, HasMessage,
       Expect, Wait, S12!To, S12!Take, S12!NextMessage, S12!Units, S12!Message, S12!HashMessage,
       S12!Alert, S12!FlushFlight, S12!FlushPendingHsData, S12!Records, S12!Record, S12!Error,
       S12!HasMessage, S12!Expect, S12!Wait
<1>2. Lists(e) /\ Stays(e, e)
  BY GoodLists, StaysItself DEF Lists
<1>3. ASSUME HasMessage(e) PROVE Goes(e, f, "verify_client_certificate")
  <2>1. Same(e, [e EXCEPT !.peer = Message(e).cert], {"peer", "key_share", "cert_request"})
    BY <1>2, Zenon DEF Same, Lists
  <2> QED BY <1>2, <1>3, <2>1, StaysTake, GoesTo
<1> HIDE DEF f
<1>4. ASSUME HasMessage(e) PROVE Stays(e, then) \/ Goes(e, then, "verify_client_certificate")
  BY <1>2, <1>3, <1>4, StaysHashAlert
<1>5. Goes(e, h, "verify_client_certificate")
  BY <1>2, GoesTo
<1> HIDE DEF then, h
<1> QED BY <1>1, <1>2, <1>4, <1>5, ExpectCases

\* do_verify_client_certificate.
LEMMA S12VerifyClientCertificateGoes ==
    ASSUME NEW e, NEW g, Good(e, g)
    PROVE  \/ Stays(e, S12!do_verify_client_certificate(e))
           \/ Goes(e, S12!do_verify_client_certificate(e), "read_client_key_exchange")
<1> DEFINE f == To(e, "read_client_key_exchange")
<1>1. S12!do_verify_client_certificate(e) = IF e.peer = "none" THEN f ELSE AfterVerify(e, f)
  BY Zenon DEF S12!do_verify_client_certificate, To, AfterVerify, Alert, FlushFlight,
       FlushPendingHsData, Records, Record, Error, HasMessage, Units, Message, Wait, S12!To,
       S12!AfterVerify, S12!Alert, S12!FlushFlight, S12!FlushPendingHsData, S12!Records,
       S12!Record, S12!Error, S12!HasMessage, S12!Units, S12!Message, S12!Wait
<1>2. Lists(e) /\ Stays(e, e)
  BY GoodLists, StaysItself DEF Lists
<1>3. Goes(e, f, "read_client_key_exchange")
  BY <1>2, GoesTo
<1> HIDE DEF f
<1> QED BY <1>1, <1>2, <1>3, AfterVerifyCases

\* do_read_client_certificate_verify.
LEMMA S12ReadClientCertificateVerifyGoes ==
    ASSUME NEW e, NEW g, Good(e, g)
    PROVE  \/ Stays(e, S12!do_read_client_certificate_verify(e))
           \/ Goes(e, S12!do_read_client_certificate_verify(e), "read_change_cipher_spec")
<1> DEFINE h == To(e, "read_change_cipher_spec")
           f == To(Take(e), "read_change_cipher_spec")
           then == IF ~SignedBy(Message(e), e, e.transcript) THEN Alert(e, "decrypt_error") ELSE f
<1>1. S12!do_read_client_certificate_verify(e) = IF e.peer = "none" THEN h ELSE Expect(e, "certificate_verify", then)
  BY Zenon DEF S12!do_read_client_certificate_verify, To, Take, NextMessage, Units, Message,
       HashMessage, SignedBy, Alert, FlushFlight, FlushPendingHsData, Records, Record, Error,
       HasMessage, Expect, Wait, S12!To, S12!Take, S12!NextMessage, S12!Units, S12!Message,
       S12!HashMessage, S12!SignedBy, S12!Alert, S12!FlushFlight, S12!FlushPendingHsData,
       S12!Records, S12!Record, S12!Error, S12!HasMessage, S12!Expect, S12!Wait
<1>2. Lists(e) /\ Stays(e, e)
  BY GoodLists, StaysItself DEF Lists
<1>3. ASSUME HasMessage(e) PROVE Goes(e, f, "read_change_cipher_spec")
  <2>1. Same(e, e, {"peer", "key_share", "cert_request"})
    BY <1>2, Zenon DEF Same, Lists
  <2> QED BY <1>2, <1>3, <2>1, StaysTake, GoesTo
<1> HIDE DEF f
<1>4. ASSUME HasMessage(e) PROVE Stays(e, then) \/ Goes(e, then, "read_change_cipher_spec")
  BY <1>2, <1>3, <1>4, StaysAlert
<1>5. Goes(e, h, "read_change_cipher_spec")
  BY <1>2, GoesTo
<1> HIDE DEF then, h
<1> QED BY <1>1, <1>2, <1>4, <1>5, ExpectCases

\* do_read_change_cipher_spec.
LEMMA S12ReadChangeCipherSpecGoes ==
    ASSUME NEW e, NEW g, Good(e, g)
    PROVE  \/ Stays(e, S12!do_read_change_cipher_spec(e))
           \/ Goes(e, S12!do_read_change_cipher_spec(e), "process_change_cipher_spec")
<1> DEFINE f == Wait(To(e, "process_change_cipher_spec"), "read_change_cipher_spec")
<1>1. S12!do_read_change_cipher_spec(e) = f
  BY Zenon DEF S12!do_read_change_cipher_spec, Wait, To, S12!Wait, S12!To
<1>2. Lists(e) /\ Stays(e, e)
  BY GoodLists, StaysItself DEF Lists
<1> DEFINE h == To(e, "process_change_cipher_spec")
<1>3. Goes(e, h, "process_change_cipher_spec") /\ DOMAIN h = Fields
  <2>1. Goes(e, h, "process_change_cipher_spec")
    BY <1>2, GoesTo
  <2> HIDE DEF h
  <2> QED BY <2>1 DEF Goes, Keeps
<1> HIDE DEF h
<1>4. Goes(e, Wait(h, "read_change_cipher_spec"), "process_change_cipher_spec")
  BY <1>3, StaysWait, GoesStays
<1> QED BY <1>1, <1>4 DEF h

\* do_finish_server_handshake.
LEMMA S12FinishServerHandshakeGoes ==
    ASSUME NEW e, NEW g, Good(e, g)
    PROVE  \/ Stays(e, S12!do_finish_server_handshake(e))
           \/ Goes(e, S12!do_finish_server_handshake(e), "done")
<1> DEFINE f == [e EXCEPT !.state = "done", !.established = "server"]
<1>1. S12!do_finish_server_handshake(e) = f
  BY Zenon DEF S12!do_finish_server_handshake
<1>2. Lists(e) /\ Stays(e, e)
  BY GoodLists, StaysItself DEF Lists
<1>3. Same(e, f, {"state", "established"}) /\ f.state = "done"
  BY <1>2, Zenon DEF Same, Lists, Fields
<1> HIDE DEF f
<1>4. Same(e, f, Idle) /\ f.tls13_state = e.tls13_state
  BY <1>3, SameWider DEF Idle, Same, Fields
<1> QED BY <1>1, <1>3, <1>4, KeepsSame DEF Goes

\* do_read_second_client_hello.
LEMMA S13ReadSecondClientHelloGoes ==
    ASSUME NEW e, NEW g, Good(e, g)
    PROVE  \/ Stays(e, S13!do_read_second_client_hello(e))
           \/ Goes13(e, S13!do_read_second_client_hello(e), "send_server_hello")
<1> DEFINE f == To13(Take(e), "send_server_hello")
           then == IF e.session_reused /\ Message(e).session # 13 THEN Alert(e, "illegal_parameter")
                   ELSE IF e.session_reused /\ Message(e).binder # e.transcript
                   THEN Alert(e, "decrypt_error")
                   ELSE IF Message(e).key_share # e.key_share THEN Alert(e, "illegal_parameter")
                   ELSE IF Excess(e) THEN Alert(HashMessage(e), "unexpected_message") ELSE f
<1>1. S13!do_read_second_client_hello(e) = Expect(e, "client_hello", then)
  BY Zenon DEF S13!do_read_second_client_hello, To13, Take, NextMessage, Units, Message,
       HashMessage, Alert, FlushFlight, FlushPendingHsData, Records, Record, Error, HasMessage,
       Excess, Expect, Wait, S13!To13, S13!Take, S13!NextMessage, S13!Units, S13!Message,
       S13!HashMessage, S13!Alert, S13!FlushFlight, S13!FlushPendingHsData, S13!Records,
       S13!Record, S13!Error, S13!HasMessage, S13!Excess, S13!Expect, S13!Wait
<1>2. Lists(e) /\ Stays(e, e)
  BY GoodLists, StaysItself DEF Lists
<1>3. ASSUME HasMessage(e) PROVE Goes13(e, f, "send_server_hello")
  <2>1. Same(e, e, {"peer", "key_share", "cert_request"})
    BY <1>2, Zenon DEF Same, Lists
  <2> QED BY <1>2, <1>3, <2>1, StaysTake, GoesTo
<1> HIDE DEF f
<1>4. ASSUME HasMessage(e) PROVE Stays(e, then) \/ Goes13(e, then, "send_server_hello")
  BY <1>2, <1>3, <1>4, StaysAlert, StaysHashAlert
<1> HIDE DEF then
<1> QED BY <1>1, <1>2, <1>4, ExpectCases

\* do_send_server_certificate_verify.
LEMMA S13SendServerCertificateVerifyGoes ==
    ASSUME NEW e, NEW g, Good(e, g)
    PROVE  \/ Stays(e, S13!do_send_server_certificate_verify(e))
           \/ Goes13(e, S13!do_send_server_certificate_verify(e), "send_server_finished")
<1> DEFINE then == To13(AddMessage(e, CertificateVerify(e)), "send_server_finished")
<1>1. S13!do_send_server_certificate_verify(e) = AfterSign(e, then)
  <2> DEFINE thenthen == S13!To13(S13!AddMessage(e, S13!CertificateVerify(e)), "send_server_finished")
  <2>1. S13!do_send_server_certificate_verify(e) = S13!AfterSign(e, thenthen)
    BY Zenon DEF S13!do_send_server_certificate_verify
  <2>2. thenthen = then
    BY S13Layer
  <2> HIDE DEF thenthen, then
  <2> QED BY <2>1, <2>2, S13Layer
<1>2. Lists(e) /\ Stays(e, e)
  BY GoodLists, StaysItself DEF Lists
<1>3. Plain(CertificateVerify(e))
  BY DEF Plain, CertificateVerify
<1>4. Goes13(e, then, "send_server_finished")
  BY <1>2, <1>3, KeepsAddMessage, GoesTo
<1> HIDE DEF then
<1>5. DOMAIN then = Fields
  BY <1>4 DEF Goes13, Keeps
<1>6. Stays(e, AfterSign(e, then)) \/ Goes13(e, AfterSign(e, then), "send_server_finished")
  BY <1>2, <1>4, <1>5, AfterSignCases, GoesStays DEF Good, Typed
<1> QED BY <1>1, <1>6

\* do_send_half_rtt_ticket.
LEMMA S13SendHalfRttTicketGoes ==
    ASSUME NEW e, NEW g, Good(e, g)
    PROVE  \/ Stays(e, S13!do_send_half_rtt_ticket(e))
           \/ Goes13(e, S13!do_send_half_rtt_ticket(e), "process_end_of_early_data")
<1> DEFINE f == Wait(To13(e, "process_end_of_early_data"), "flush")
<1>1. S13!do_send_half_rtt_ticket(e) = f
  BY Zenon DEF S13!do_send_half_rtt_ticket, Wait, To13, S13!Wait, S13!To13
<1>2. Lists(e) /\ Stays(e, e)
  BY GoodLists, StaysItself DEF Lists
<1> QED BY <1>1, <1>2, GoesTo

\* do_read_client_certificate.
LEMMA S13ReadClientCertificateGoes ==
    ASSUME NEW e, NEW g, Good(e, g)
    PROVE  \/ Stays(e, S13!do_read_client_certificate(e))
           \/ Goes13(e, S13!do_read_client_certificate(e), "read_client_finished")
           \/ Goes13(e, S13!do_read_client_certificate(e), "read_client_certificate_verify")
<1> DEFINE h == To13(e, "read_client_finished")
           f == To13(Take([e EXCEPT !.peer = Message(e).cert]), "read_client_certificate_verify")
           then == IF Message(e).cert = "none" THEN Alert(e, "certificate_required") ELSE f
<1>1. S13!do_read_client_certificate(e) = IF ~e.cert_request THEN h ELSE Expect(e, "certificate", then)
  BY Zenon DEF S13!do_read_client_certificate, To13, Take, NextMessage, Units, Message,
       HashMessage, Alert, FlushFlight, FlushPendingHsData, Records, Record, Error, HasMessage,
       Expect, Wait, S13!To13, S13!Take, S13!NextMessage, S13!Units, S13!Message, S13!HashMessage,
       S13!Alert, S13!FlushFlight, S13!FlushPendingHsData, S13!Records, S13!Record, S13!Error,
       S13!HasMessage, S13!Expect, S13!Wait
<1>2. Lists(e) /\ Stays(e, e)
  BY GoodLists, StaysItself DEF Lists
<1>3. ASSUME HasMessage(e) PROVE Goes13(e, f, "read_client_certificate_verify")
  <2>1. Same(e, [e EXCEPT !.peer = Message(e).cert], {"peer", "key_share", "cert_request"})
    BY <1>2, Zenon DEF Same, Lists
  <2> QED BY <1>2, <1>3, <2>1, StaysTake, GoesTo
<1> HIDE DEF f
<1>4. ASSUME HasMessage(e) PROVE Stays(e, then) \/ Goes13(e, then, "read_client_certificate_verify")
  BY <1>2, <1>3, <1>4, StaysAlert
<1>5. Goes13(e, h, "read_client_finished")
  BY <1>2, GoesTo
<1> HIDE DEF then, h
<1> QED BY <1>1, <1>2, <1>4, <1>5, ExpectCases

\* do_read_client_certificate_verify.
LEMMA S13ReadClientCertificateVerifyGoes ==
    ASSUME NEW e, NEW g, Good(e, g)
    PROVE  \/ Stays(e, S13!do_read_client_certificate_verify(e))
           \/ Goes13(e, S13!do_read_client_certificate_verify(e), "read_client_finished")
<1> DEFINE h == To13(e, "read_client_finished")
           f == To13(Take(e), "read_client_finished")
           then == IF ~SignedBy(Message(e), e, e.transcript) THEN Alert(e, "decrypt_error") ELSE f
<1>1. S13!do_read_client_certificate_verify(e) = IF e.peer = "none" THEN h
        ELSE IF ~HasMessage(e) THEN Wait(e, "read_message")
        ELSE AfterVerify(e, Expect(e, "certificate_verify", then))
  BY Zenon DEF S13!do_read_client_certificate_verify, To13, Take, NextMessage, Units, Message,
       HashMessage, SignedBy, Alert, FlushFlight, FlushPendingHsData, Records, Record, Error,
       HasMessage, Wait, AfterVerify, Expect, S13!To13, S13!Take, S13!NextMessage, S13!Units,
       S13!Message, S13!HashMessage, S13!SignedBy, S13!Alert, S13!FlushFlight,
       S13!FlushPendingHsData, S13!Records, S13!Record, S13!Error, S13!HasMessage, S13!Wait,
       S13!AfterVerify, S13!Expect
<1>2. Lists(e) /\ Stays(e, e)
  BY GoodLists, StaysItself DEF Lists
<1>3. ASSUME HasMessage(e) PROVE Goes13(e, f, "read_client_finished")
  <2>1. Same(e, e, {"peer", "key_share", "cert_request"})
    BY <1>2, Zenon DEF Same, Lists
  <2> QED BY <1>2, <1>3, <2>1, StaysTake, GoesTo
<1> HIDE DEF f
<1>4. ASSUME HasMessage(e) PROVE Stays(e, then) \/ Goes13(e, then, "read_client_finished")
  BY <1>2, <1>3, <1>4, StaysAlert
<1> HIDE DEF then
<1> DEFINE x == Expect(e, "certificate_verify", then)
<1>5. Stays(e, x) \/ Goes13(e, x, "read_client_finished")
  BY <1>2, <1>4, ExpectCases
<1> HIDE DEF x
<1>6. Stays(e, AfterVerify(e, x)) \/ Goes13(e, AfterVerify(e, x), "read_client_finished")
  BY <1>2, <1>5, AfterVerifyCases
<1>7. Goes13(e, h, "read_client_finished")
  BY <1>2, GoesTo
<1> HIDE DEF h
<1> QED BY <1>1, <1>2, <1>6, <1>7, StaysWait DEF x, Lists

\* do_send_new_session_ticket.
LEMMA S13SendNewSessionTicketGoes ==
    ASSUME NEW e, NEW g, Good(e, g)
    PROVE  \/ Stays(e, S13!do_send_new_session_ticket(e))
           \/ Goes13(e, S13!do_send_new_session_ticket(e), "done")
<1> DEFINE m == [type |-> "new_session_ticket"]
           d == IF e.cfg.tickets THEN AddMessage(e, m) ELSE e
           f == To13(d, "done")
<1>1. S13!do_send_new_session_ticket(e) = f
  <2> DEFINE dd == IF e.cfg.tickets THEN S13!AddMessage(e, m) ELSE e
             ff == S13!To13(dd, "done")
  <2>1. S13!do_send_new_session_ticket(e) = ff
    BY Zenon DEF S13!do_send_new_session_ticket
  <2>2. dd = d
    BY S13Layer
  <2> HIDE DEF dd, d
  <2>3. ff = f
    BY <2>2, S13Layer
  <2> HIDE DEF ff, f
  <2> QED BY <2>1, <2>3, <2>2, S13Layer
<1>2. Lists(e) /\ Stays(e, e)
  BY GoodLists, StaysItself DEF Lists
<1>3. Plain(m)
  BY DEF Plain
<1> HIDE DEF m
<1>4. Stays(e, d)
  BY <1>2, <1>3, KeepsAddMessage
<1> HIDE DEF d
<1> QED BY <1>1, <1>4, GoesTo

-----------------------------------------------------------------------------
(***************************************************************************)
(* What binds the client to the server.                                    *)
(***************************************************************************)
\* The keys an endpoint derives in TLS 1.2, from the hellos and the master
\* secret, and in TLS 1.3; a key that is such a one, of any generation.
Hellos(e) == SubSeq(e.transcript, 1, 2)
Key12(e, side) == Key("tls12", side, [master |-> e.secret, hellos |-> Hellos(e)])
App(e, side) == Key("application", side, e.app)
Derived(k, l) == DOMAIN k = KeyFields /\ SameSecret(k, l)

\* The server has decided whether the session is resumed ...
Decided12 == {"send_server_hello", "send_server_certificate", "send_server_key_exchange",
              "send_server_hello_done", "read_client_certificate", "verify_client_certificate",
              "read_client_key_exchange", "read_client_certificate_verify", "read_change_cipher_spec",
              "process_change_cipher_spec", "read_client_finished", "send_server_finished"}
Sealed12 == {"read_client_certificate_verify", "read_change_cipher_spec", "process_change_cipher_spec",
             "read_client_finished", "send_server_finished"}
Sealed13 == {"send_half_rtt_ticket", "process_end_of_early_data", "read_client_certificate",
             "read_client_certificate_verify", "read_client_finished", "send_new_session_ticket", "done"}
Decided13 == Sealed13 \cup {"send_hello_retry_request", "read_second_client_hello", "send_server_hello",
                            "send_server_certificate_verify", "send_server_finished"}
Full12 == {"send_server_certificate", "send_server_key_exchange", "send_server_hello_done",
           "read_client_certificate", "verify_client_certificate", "read_client_key_exchange",
           "read_client_certificate_verify"}
ServerEnd == {"finish_server_handshake", "done"}
Decided(s) == At(s, Decided12 \cup ServerEnd, Decided13)

\* ... and what its keys are made from.
Sealed(s) == At(s, Sealed12 \cup ServerEnd, Sealed13)

\* The version of a server to whom V was offered.
ServerVersion(s, V) ==
    /\ s.state \in {"start", "read_client_hello", "read_client_hello_after_ech"} => s.version = 0
    /\ s.state \in {"select_certificate"} \cup ServerEnd => s.version # 0
    /\ s.state = "tls13" => s.version = 13
    /\ s.state \in Decided12 \cup {"select_parameters"} => s.version = 12
    /\ s.state \in Full12 => ~s.session_reused
    /\ s.version # 0 => \A v \in V \cap s.cfg.versions : v <= s.version

\* Its transcript has the hellos.
ServerTranscript(s) ==
    /\ IsSeq(s.transcript)
    /\ s.state \in Decided12 \cup ServerEnd /\ s.version = 12 => Len(s.transcript) >= 1
    /\ s.state \in (Decided12 \cup ServerEnd) \ {"send_server_hello"} /\ s.version = 12 => Len(s.transcript) >= 2

\* Its keys.
ServerKeys(s) ==
    /\ s.version = 12 /\ (\/ s.state \in ServerEnd \cup {"read_client_finished"}
                          \/ ~s.session_reused /\ s.state = "send_server_finished")
          => Derived(s.read_key, Key12(s, "client"))
    /\ s.version = 12 /\ (\/ s.state \in ServerEnd
                          \/ s.session_reused /\ s.state \in {"read_change_cipher_spec",
                                                     "process_change_cipher_spec", "read_client_finished"})
          => Derived(s.write_key, Key12(s, "server"))
    /\ s.version = 13 /\ Sealed(s) => Derived(s.write_key, App(s, "server"))
    /\ s.version = 13 /\ At(s, ServerEnd, {"send_new_session_ticket", "done"})
          => Derived(s.read_key, App(s, "client"))

\* What holds of the server to whom V was offered.
ServerOwn(s, V) == ServerVersion(s, V) /\ ServerTranscript(s) /\ ServerKeys(s)

\* The client has read a ServerHello, in TLS 1.2 or 1.3 ...
Shown12 == {"read_server_certificate", "verify_server_certificate", "read_server_key_exchange",
            "read_certificate_request", "read_server_hello_done", "send_client_certificate",
            "send_client_key_exchange", "send_client_certificate_verify", "send_client_finished",
            "finish_flight", "read_session_ticket", "process_change_cipher_spec", "read_server_finished"}
Asked12 == {"read_server_certificate", "verify_server_certificate", "read_server_key_exchange",
            "read_certificate_request", "read_server_hello_done", "send_client_certificate",
            "send_client_key_exchange", "send_client_certificate_verify"}
ClientEnd == {"finish_client_handshake", "done"}
Confirmed13 == {"send_client_certificate", "send_client_certificate_verify", "complete_second_flight", "done"}
Shown13 == Confirmed13 \cup {"read_encrypted_extensions", "read_certificate_request",
                             "read_server_certificate", "read_server_certificate_verify", "read_server_finished"}

\* ... and the Finished of the server.
Confirmed(c) == \/ At(c, ClientEnd, Confirmed13)
                \/ c.session_reused /\ c.state \in {"send_client_finished", "finish_flight"}

\* The client agrees with the server s on the version and on the session ...
ClientVersion(c, s) ==
    /\ c.total_renegotiations = 0
    /\ c.version # 0 => c.version = s.version
    /\ c.state = "tls13" => c.version = 13
    /\ c.state \in Shown12 => c.version = 12
    /\ c.state \in Asked12 => ~c.session_reused
    /\ c.state \in ClientEnd => c.version # 0
    /\ At(c, Shown12 \cup ClientEnd, Shown13) => Decided(s) /\ c.session_reused = s.session_reused

\* ... has the hellos in its transcript ...
ClientTranscript(c) ==
    /\ IsSeq(c.transcript)
    /\ c.state # "start" => Len(c.transcript) >= 1
    /\ c.state \in Shown12 \cup ClientEnd /\ c.version = 12 => Len(c.transcript) >= 2

\* ... agrees on the secrets once the server's Finished has confirmed them ...
ClientSecrets(c, s) ==
    Confirmed(c) => /\ Sealed(s)
                    /\ c.version = 12 => c.secret = s.secret /\ Hellos(c) = Hellos(s)
                    /\ c.version = 13 => c.app = s.app

\* ... and has keys made from them.
ClientKeys(c) ==
    /\ c.version = 12 /\ (\/ c.state \in ClientEnd \cup {"finish_flight"}
                          \/ ~c.session_reused /\ c.state \in {"read_session_ticket",
                                                     "process_change_cipher_spec", "read_server_finished"})
          => Derived(c.write_key, Key12(c, "client"))
    /\ c.version = 12 /\ (\/ c.state \in ClientEnd \cup {"read_server_finished"}
                          \/ c.session_reused /\ c.state \in {"send_client_finished", "finish_flight"})
          => Derived(c.read_key, Key12(c, "server"))
    /\ c.version = 13 /\ At(c, ClientEnd, {"done"})
          => Derived(c.write_key, App(c, "client")) /\ Derived(c.read_key, App(c, "server"))

\* What holds of the client, beside the server s.
ClientOwn(c, s) == ClientVersion(c, s) /\ ClientTranscript(c) /\ ClientSecrets(c, s) /\ ClientKeys(c)

\* What a message of the server s says is so.
Told(m, s) ==
    /\ m.type # "hello_request"
    /\ m.type \in {"server_hello", "hello_retry_request"} => s.version # 0 /\ m.version = s.version
    /\ m.type = "server_hello" => Decided(s) /\ m.reused = s.session_reused
    /\ m.type = "finished" => /\ s.version # 0 /\ Sealed(s) /\ m.secret = s.secret
                              /\ s.version = 12 => SubSeq(m.over, 1, 2) = Hellos(s)
                              /\ s.version = 13 => s.app = [m.secret EXCEPT !.transcript = Append(m.over, m)]

\* A ClientHello of the client offers V.
Offers(m, V) == m.type = "client_hello" => m.versions = V

\* What the server s has settled stays so in t.
Fixed(s, t) ==
    /\ t.total_renegotiations = s.total_renegotiations /\ t.cfg = s.cfg
    /\ s.version # 0 => t.version = s.version
    /\ Decided(s) => Decided(t) /\ t.session_reused = s.session_reused
    /\ Sealed(s) => /\ Sealed(t) /\ t.secret = s.secret /\ t.app = s.app
                    /\ s.version = 12 => Hellos(t) = Hellos(s)

\* What was told stays true ...
LEMMA FixedTold == ASSUME NEW s, NEW t, NEW m, Fixed(s, t), Told(m, s) PROVE Told(m, t)
BY DEF Fixed, Told

\* ... and so does what the client has concluded.
LEMMA FixedClient == ASSUME NEW s, NEW t, NEW c, Fixed(s, t), ClientOwn(c, s), c.version \in {0, 12, 13},
                            At(c, Shown12 \cup ClientEnd, Shown13) => c.version # 0
                     PROVE  ClientOwn(c, t)
<1>1. ClientVersion(c, t)
  BY DEF Fixed, ClientOwn, ClientVersion
<1>2. ASSUME Confirmed(c) PROVE At(c, Shown12 \cup ClientEnd, Shown13)
  BY <1>2 DEF Confirmed, At, Shown12, Shown13
<1>3. ClientSecrets(c, t)
  <2> SUFFICES ASSUME Confirmed(c)
               PROVE  Sealed(t) /\ (c.version = 12 => c.secret = t.secret /\ Hellos(c) = Hellos(t))
                      /\ (c.version = 13 => c.app = t.app)
    BY DEF ClientSecrets
  <2>1. Sealed(s) /\ (c.version = 12 => c.secret = s.secret /\ Hellos(c) = Hellos(s))
        /\ (c.version = 13 => c.app = s.app) /\ c.version = s.version
    BY <1>2 DEF ClientOwn, ClientSecrets, ClientVersion
  <2> QED BY <2>1 DEF Fixed
<1> QED BY <1>1, <1>3 DEF ClientOwn

\* A message that says nothing is true.
LEMMA PlainTold == ASSUME NEW m, NEW s, NEW V, Plain(m) PROVE Told(m, s) /\ Offers(m, V)
BY DEF Plain, Told, Offers

\* What is kept of keys and secrets.
Keeping(e, f) ==
    /\ IsSeq(f.transcript) /\ Len(e.transcript) \in Nat /\ Len(f.transcript) \in Nat
    /\ Len(f.transcript) >= Len(e.transcript)
    /\ Len(e.transcript) >= 2 => /\ Hellos(f) = Hellos(e)
                                 /\ \A side : Key12(f, side) = Key12(e, side)
    /\ \A side : App(f, side) = App(e, side)
    /\ \A k : Derived(e.read_key, k) => Derived(f.read_key, k)
    /\ \A k : Derived(e.write_key, k) => Derived(f.write_key, k)
    /\ f.cfg = e.cfg /\ f.version = e.version /\ f.session_reused = e.session_reused
    /\ f.secret = e.secret /\ f.app = e.app /\ f.total_renegotiations = e.total_renegotiations

\* Keeps leaves them so.
LEMMA KeepsKeys == ASSUME NEW e, NEW f, Keeps(e, f), IsSeq(e.transcript) PROVE Keeping(e, f)
<1>1. /\ IsSeq(f.transcript) /\ Len(e.transcript) \in Nat /\ Len(f.transcript) \in Nat
      /\ Len(f.transcript) >= Len(e.transcript)
      /\ Len(e.transcript) >= 2 => Hellos(f) = Hellos(e)
  BY SeqLen DEF Keeps, Extends, Hellos
<1>2. f.secret = e.secret /\ f.app = e.app
  BY DEF Keeps
<1>3. Len(e.transcript) >= 2 => \A side : Key12(f, side) = Key12(e, side)
  BY <1>1, <1>2, Zenon DEF Key12
<1>4. \A side : App(f, side) = App(e, side)
  BY <1>2, Zenon DEF App
<1>5. ASSUME NEW k, NEW l, NEW x, Turns(k, l), Derived(k, x) PROVE Derived(l, x)
  BY <1>5 DEF Turns, Derived, SameSecret
<1>6. Turns(e.read_key, f.read_key) /\ Turns(e.write_key, f.write_key)
  BY DEF Keeps
<1>7. (\A k : Derived(e.read_key, k) => Derived(f.read_key, k)) /\ (\A k : Derived(e.write_key, k) => Derived(f.write_key, k))
  BY <1>5, <1>6, Zenon
<1>8. /\ f.cfg = e.cfg /\ f.version = e.version /\ f.session_reused = e.session_reused
      /\ f.secret = e.secret /\ f.app = e.app /\ f.total_renegotiations = e.total_renegotiations
  BY DEF Keeps
<1> QED BY <1>1, <1>3, <1>4, <1>7, <1>8, Zenon DEF Keeping

\* A server that does not move.
LEMMA ServerStays ==
    ASSUME NEW s, NEW t, NEW V, ServerOwn(s, V), Stays(s, t)
    PROVE  ServerOwn(t, V) /\ Fixed(s, t)
<1>1. /\ s.state = t.state /\ s.tls13_state = t.tls13_state /\ Keeps(s, t) /\ IsSeq(s.transcript)
  BY DEF Stays, ServerOwn, ServerTranscript
<1>2. Keeping(s, t)
  BY <1>1, KeepsKeys
<1>4. Decided(t) = Decided(s) /\ Sealed(t) = Sealed(s)
  BY <1>1 DEF Decided, Sealed, At
<1>5. ServerVersion(t, V)
  BY <1>1, <1>2, SMT DEF ServerOwn, ServerVersion, Keeping
<1>6. ServerTranscript(t)
  BY <1>1, <1>2, SMT DEF ServerOwn, ServerTranscript, Keeping
<1>7. s.version = 12 /\ s.state \in (Decided12 \cup ServerEnd) \ {"send_server_hello"} => Len(s.transcript) >= 2
  BY SMT DEF ServerOwn, ServerTranscript
<1>8. ServerKeys(t)
  BY <1>1, <1>2, <1>4, <1>7, SMT DEF ServerOwn, ServerKeys, At, ServerEnd, Decided12, Keeping
<1>9. Fixed(s, t)
  BY <1>1, <1>2, <1>4, <1>7, SMT DEF Fixed, Sealed, At, Sealed12, ServerEnd, Decided12, ServerOwn,
     ServerVersion, Keeping
<1> QED BY <1>5, <1>6, <1>8, <1>9 DEF ServerOwn
\* A server that moves on, past what is settled.
ServerMoves(s, t) ==
    \/ /\ t.tls13_state = s.tls13_state
       /\ \/ s.state = "start" /\ t.state = "read_client_hello"
          \/ s.state = "read_client_hello" /\ t.state = "read_client_hello_after_ech"
          \/ s.state = "send_server_certificate" /\ t.state = "send_server_key_exchange"
          \/ s.state = "send_server_key_exchange" /\ t.state = "send_server_hello_done"
          \/ s.state = "send_server_hello_done" /\ t.state = "read_client_certificate"
          \/ s.state = "read_client_certificate" /\ t.state = "verify_client_certificate"
          \/ s.state = "verify_client_certificate" /\ t.state = "read_client_key_exchange"
          \/ s.state = "read_client_certificate_verify" /\ t.state = "read_change_cipher_spec"
          \/ s.state = "read_change_cipher_spec" /\ t.state = "process_change_cipher_spec"
          \/ s.state = "finish_server_handshake" /\ t.state = "done"
          \/ s.state = "read_client_finished" /\ s.session_reused /\ t.state = "finish_server_handshake"
          \/ s.state = "read_client_finished" /\ ~s.session_reused /\ t.state = "send_server_finished"
          \/ s.state = "tls13" /\ s.tls13_state = "done" /\ t.state = "finish_server_handshake"
    \/ /\ s.state = "tls13" /\ t.state = "tls13"
       /\ \/ s.tls13_state = "read_second_client_hello" /\ t.tls13_state = "send_server_hello"
          \/ s.tls13_state = "send_server_certificate_verify" /\ t.tls13_state = "send_server_finished"
          \/ s.tls13_state = "send_half_rtt_ticket" /\ t.tls13_state = "process_end_of_early_data"
          \/ s.tls13_state = "read_client_certificate" /\ t.tls13_state = "read_client_certificate_verify"
          \/ s.tls13_state = "read_client_certificate" /\ t.tls13_state = "read_client_finished"
          \/ s.tls13_state = "read_client_certificate_verify" /\ t.tls13_state = "read_client_finished"
          \/ s.tls13_state = "send_new_session_ticket" /\ t.tls13_state = "done"

\* Such a move leaves what holds of the server, and what it has settled.
LEMMA ServerMovesOn ==
    ASSUME NEW s, NEW t, NEW V, ServerOwn(s, V), Keeps(s, t), ServerMoves(s, t), s.session_reused \in BOOLEAN
    PROVE  ServerOwn(t, V) /\ Fixed(s, t)
<1>1. IsSeq(s.transcript)
  BY DEF ServerOwn, ServerTranscript
<1>2. Keeping(s, t)
  BY <1>1, KeepsKeys
<1>3. /\ Decided(s) => Decided(t)
      /\ Sealed(s) => Sealed(t)
      /\ Sealed(t) => Sealed(s)
  BY SMT DEF Decided, Sealed, At, ServerMoves, Decided12, Decided13, Sealed12, Sealed13, ServerEnd
<1>5. ServerVersion(t, V)
  BY <1>2, SMT DEF ServerOwn, ServerVersion, Keeping, ServerMoves, Full12, Decided12, ServerEnd
<1>6. ServerTranscript(t)
  BY <1>2, SMT DEF ServerOwn, ServerVersion, ServerTranscript, Keeping, ServerMoves, Decided12,
     ServerEnd
<1>7. s.version = 12 /\ s.state \in (Decided12 \cup ServerEnd) \ {"send_server_hello"} => Len(s.transcript) >= 2
  BY SMT DEF ServerOwn, ServerTranscript
<1>8. ServerKeys(t)
  BY <1>2, <1>3, <1>7, SMT DEF Full12, ServerOwn, ServerVersion, ServerKeys, At, ServerEnd,
     Decided12, Keeping, ServerMoves
<1>9. Fixed(s, t)
  <2>1. s.version = 12 /\ Sealed(s) => Len(s.transcript) >= 2
    BY <1>7, SMT DEF ServerOwn, ServerVersion, Sealed, At, Sealed12, Decided12, ServerEnd
  <2> QED BY <1>2, <1>3, <2>1, SMT DEF Fixed, Keeping
<1> QED BY <1>5, <1>6, <1>8, <1>9 DEF ServerOwn
\* A client that does not move.
LEMMA ClientStays ==
    ASSUME NEW c, NEW d, NEW s, ClientOwn(c, s), Stays(c, d)
    PROVE  ClientOwn(d, s)
<1>1. /\ c.state = d.state /\ c.tls13_state = d.tls13_state /\ Keeps(c, d) /\ IsSeq(c.transcript)
  BY DEF Stays, ClientOwn, ClientTranscript
<1>2. Keeping(c, d)
  BY <1>1, KeepsKeys
<1>3. Confirmed(d) => Confirmed(c)
  BY <1>1, <1>2 DEF Confirmed, At, Keeping
<1>4. ClientVersion(d, s)
  BY <1>1, <1>2, SMT DEF ClientOwn, ClientVersion, Keeping, At
<1>5. ClientTranscript(d)
  BY <1>1, <1>2, SMT DEF ClientOwn, ClientTranscript, Keeping
<1>6. c.version = 12 /\ c.state \in Shown12 \cup ClientEnd => Len(c.transcript) >= 2
  BY SMT DEF ClientOwn, ClientTranscript
<1>7. ClientKeys(d)
  BY <1>1, <1>2, <1>6, SMT DEF ClientOwn, ClientKeys, At, ClientEnd, Shown12, Keeping
<1>8. ClientSecrets(d, s)
  <2>1. Confirmed(c) /\ c.version = 12 => c.state \in Shown12 \cup ClientEnd
    BY SMT DEF Confirmed, At, ClientOwn, ClientVersion, Shown12
  <2> QED BY <1>2, <1>3, <1>6, <2>1, SMT DEF ClientOwn, ClientSecrets, Keeping
<1> QED BY <1>4, <1>5, <1>7, <1>8 DEF ClientOwn

\* A client that moves on, and has learned nothing.
ClientMoves(c, d) ==
    \/ /\ d.tls13_state = c.tls13_state
       /\ \/ c.state = "read_server_certificate" /\ d.state = "verify_server_certificate"
          \/ c.state = "verify_server_certificate" /\ d.state = "read_server_key_exchange"
          \/ c.state = "read_server_key_exchange" /\ d.state = "read_certificate_request"
          \/ c.state = "read_certificate_request" /\ d.state = "read_server_hello_done"
          \/ c.state = "read_server_hello_done" /\ d.state = "send_client_certificate"
          \/ c.state = "send_client_certificate" /\ d.state = "send_client_key_exchange"
          \/ c.state = "send_client_certificate_verify" /\ d.state = "send_client_finished"
          \/ c.state = "read_session_ticket" /\ d.state = "process_change_cipher_spec"
          \/ c.state = "finish_client_handshake" /\ d.state = "done"
          \/ c.state = "finish_flight" /\ c.session_reused /\ d.state = "finish_client_handshake"
          \/ c.state = "finish_flight" /\ ~c.session_reused /\ d.state = "read_session_ticket"
          \/ c.state = "tls13" /\ c.tls13_state = "done" /\ d.state = "finish_client_handshake"
    \/ /\ c.state = "tls13" /\ d.state = "tls13"
       /\ \/ c.tls13_state = "read_encrypted_extensions" /\ d.tls13_state = "read_certificate_request"
          \/ c.tls13_state = "read_certificate_request" /\ d.tls13_state = "read_server_finished"
          \/ c.tls13_state = "read_certificate_request" /\ d.tls13_state = "read_server_certificate"
          \/ c.tls13_state = "read_server_certificate" /\ d.tls13_state = "read_server_certificate_verify"
          \/ c.tls13_state = "read_server_certificate_verify" /\ d.tls13_state = "read_server_finished"
          \/ c.tls13_state = "send_client_certificate" /\ d.tls13_state = "send_client_certificate_verify"
          \/ c.tls13_state = "send_client_certificate" /\ d.tls13_state = "complete_second_flight"
          \/ c.tls13_state = "send_client_certificate_verify" /\ d.tls13_state = "complete_second_flight"

\* Such a move leaves what holds of the client.
LEMMA ClientMovesOn ==
    ASSUME NEW c, NEW d, NEW s, ClientOwn(c, s), Keeps(c, d), ClientMoves(c, d), c.session_reused \in BOOLEAN
    PROVE  ClientOwn(d, s)
<1>1. IsSeq(c.transcript)
  BY DEF ClientOwn, ClientTranscript
<1>2. Keeping(c, d)
  BY <1>1, KeepsKeys
<1>3. Confirmed(d) => Confirmed(c)
  BY <1>2, SMT DEF Confirmed, At, Keeping, ClientMoves, ClientOwn, ClientVersion, Asked12,
     ClientEnd, Confirmed13
<1>4. ClientVersion(d, s)
  BY <1>2, SMT DEF ClientOwn, ClientVersion, Keeping, At, ClientMoves, Shown12, Asked12, ClientEnd,
     Shown13, Confirmed13
<1>5. ClientTranscript(d)
  BY <1>2, SMT DEF ClientOwn, ClientVersion, ClientTranscript, Keeping, ClientMoves, Shown12,
     ClientEnd
<1>6. c.version = 12 /\ c.state \in Shown12 \cup ClientEnd => Len(c.transcript) >= 2
  BY SMT DEF ClientOwn, ClientTranscript
<1>7. ClientKeys(d)
  BY <1>2, <1>6, SMT DEF ClientOwn, ClientVersion, ClientKeys, At, ClientEnd, Shown12, Asked12,
     Keeping, ClientMoves
<1>8. ClientSecrets(d, s)
  <2>1. Confirmed(c) /\ c.version = 12 => c.state \in Shown12 \cup ClientEnd
    BY SMT DEF Confirmed, At, ClientOwn, ClientVersion, Shown12
  <2> QED BY <1>2, <1>3, <1>6, <2>1, SMT DEF ClientOwn, ClientSecrets, Keeping
<1> QED BY <1>4, <1>5, <1>7, <1>8 DEF ClientOwn

-----------------------------------------------------------------------------
(***************************************************************************)
(* Flights and messages, seen from what is agreed on.                      *)
(***************************************************************************)
\* d is e with the messages ms, and perhaps keys, put into its flight.
Flight(e, d, ms) == /\ Same(e, d, Written) /\ Lists(d)
                    /\ \A x : Sends(d, x) => Sends(e, x) \/ x \in ms

\* A flight begins, ...
LEMMA FlightStart == ASSUME NEW e, Lists(e) PROVE Flight(e, e, {})
BY DEF Flight, Same, Lists

\* ... goes on, ...
LEMMA FlightStep ==
    ASSUME NEW e, NEW d, NEW h, NEW ms, NEW ns, Flight(e, d, ms), Same(d, h, Written), Lists(h),
           \A x : Sends(h, x) => Sends(d, x) \/ x \in ns
    PROVE  Flight(e, h, ms \cup ns)
<1>1. Same(e, h, Written)
  BY SameTrans DEF Flight
<1> QED BY <1>1 DEF Flight

\* ... with a message, ...
LEMMA FlightAdd ==
    ASSUME NEW e, NEW d, NEW ms, NEW m, Flight(e, d, ms)
    PROVE  LET h == AddMessage(d, m)
           IN  /\ Flight(e, h, ms \cup {m}) /\ h.transcript = Append(d.transcript, m)
               /\ h.write_key = d.write_key
<1> DEFINE h == AddMessage(d, m)
<1>1. /\ Same(d, h, {"pending_flight", "pending_hs_data", "transcript"}) /\ Lists(h)
      /\ h.transcript = Append(d.transcript, m)
      /\ \A x : Sends(h, x) => Sends(d, x) \/ x = m
  BY SendsAddMessage DEF Flight
<1> HIDE DEF h
<1>2. Same(d, h, Written)
  BY <1>1, SameWider DEF Written
<1>3. h.write_key = d.write_key
  BY <1>1 DEF Same, Fields
<1>4. Flight(e, h, ms \cup {m})
  BY <1>1, <1>2, FlightStep
<1> QED BY <1>1, <1>3, <1>4 DEF h

\* One message is a flight.
LEMMA FlightOne ==
    ASSUME NEW e, NEW m, Lists(e)
    PROVE  LET h == AddMessage(e, m)
           IN  Flight(e, h, {m}) /\ h.transcript = Append(e.transcript, m) /\ h.write_key = e.write_key
<1> DEFINE h == AddMessage(e, m)
<1>1. /\ Same(e, h, {"pending_flight", "pending_hs_data", "transcript"}) /\ Lists(h)
      /\ h.transcript = Append(e.transcript, m)
      /\ \A x : Sends(h, x) => Sends(e, x) \/ x = m
  BY SendsAddMessage
<1> HIDE DEF h
<1>2. Same(e, h, Written)
  BY <1>1, SameWider DEF Written
<1>3. h.write_key = e.write_key
  BY <1>1 DEF Same, Fields
<1>4. Flight(e, h, {m})
  BY <1>1, <1>2 DEF Flight
<1> QED BY <1>1, <1>3, <1>4 DEF h

\* ... a ChangeCipherSpec ...
LEMMA FlightChange ==
    ASSUME NEW e, NEW d, NEW ms, Flight(e, d, ms)
    PROVE  LET h == AddChangeCipherSpec(d)
           IN  Flight(e, h, ms) /\ h.transcript = d.transcript /\ h.write_key = d.write_key
<1> DEFINE h == AddChangeCipherSpec(d)
<1>1. /\ Same(d, h, {"pending_flight", "pending_hs_data"}) /\ Lists(h)
      /\ \A x : Sends(h, x) => Sends(d, x)
  BY SendsAddChangeCipherSpec DEF Flight
<1> HIDE DEF h
<1>2. Same(d, h, Written)
  BY <1>1, SameWider DEF Written
<1>3. h.write_key = d.write_key /\ h.transcript = d.transcript
  BY <1>1 DEF Same, Fields
<1>4. Flight(e, h, ms \cup {})
  BY <1>1, <1>2, FlightStep
<1>5. ms \cup {} = ms
  OBVIOUS
<1> QED BY <1>3, <1>4, <1>5 DEF h

\* ... or a key.
LEMMA FlightKey ==
    ASSUME NEW e, NEW d, NEW ms, NEW key, Flight(e, d, ms)
    PROVE  LET h == SetWriteKey(d, key)
           IN  Flight(e, h, ms) /\ h.transcript = d.transcript /\ h.write_key = key
<1> DEFINE h == SetWriteKey(d, key)
<1>1. /\ Same(d, h, {"pending_flight", "pending_hs_data", "write_key"}) /\ Lists(h)
      /\ h.write_key = key /\ \A x : Sends(h, x) => Sends(d, x)
  BY SendsSetWriteKey DEF Flight
<1> HIDE DEF h
<1>2. Same(d, h, Written)
  BY <1>1, SameWider DEF Written
<1>3. h.transcript = d.transcript
  BY <1>1 DEF Same, Fields
<1>4. Flight(e, h, ms \cup {})
  BY <1>1, <1>2, FlightStep
<1>5. ms \cup {} = ms
  OBVIOUS
<1> QED BY <1>1, <1>3, <1>4, <1>5 DEF h

\* What is under way when it ends.
LEMMA FlightEnd ==
    ASSUME NEW e, NEW d, NEW f, NEW ms, NEW X, Flight(e, d, ms), Same(d, f, X), X \cap Buffered = {}
    PROVE  /\ \A x : Sends(f, x) => Sends(e, x) \/ x \in ms
           /\ \A x : Reads(f, x) => Reads(e, x)
           /\ Lists(f)
<1>1. X \cap {"pending_hs_data", "pending_flight", "outbound"} = {} /\ X \cap {"inbound", "hs_buf"} = {}
  BY DEF Buffered
<1>2. \A x : Sends(f, x) = Sends(d, x) /\ Reads(f, x) = Reads(d, x)
  BY <1>1, SameBuffers
<1>3. Written \cap {"inbound", "hs_buf"} = {}
  BY DEF Written
<1>4. \A x : Reads(d, x) = Reads(e, x)
  BY <1>3, SameBuffers DEF Flight
<1>5. Lists(f)
  BY SameLists DEF Flight
<1> QED BY <1>2, <1>4, <1>5 DEF Flight

\* What is under way when a message has been taken.
LEMMA TakenFrom ==
    ASSUME NEW e, NEW f, NEW X, Lists(e), HasMessage(e), Same(e, f, X),
           X \cap Buffered \subseteq {"hs_buf"}, f.hs_buf = NextMessage(e).hs_buf
    PROVE  /\ \A x : Sends(f, x) => Sends(e, x)
           /\ \A x : Reads(f, x) => Reads(e, x)
           /\ Lists(f)
<1>1. f.inbound = e.inbound /\ f.pending_hs_data = e.pending_hs_data
      /\ f.pending_flight = e.pending_flight /\ f.outbound = e.outbound /\ DOMAIN f = Fields
  BY DEF Same, Fields, Buffered
<1>2. /\ Same(e, NextMessage(e), {"hs_buf"}) /\ Lists(NextMessage(e))
      /\ \A x : Reads(NextMessage(e), x) => Reads(e, x)
  BY ReadsMessage
<1>3. NextMessage(e).inbound = e.inbound
  BY <1>2 DEF Same, Fields
<1>4. \A x : Sends(f, x) = Sends(e, x)
  BY <1>1, Zenon DEF Sends
<1>5. \A x : Reads(f, x) => Reads(e, x)
  BY <1>1, <1>2, <1>3, Zenon DEF Reads
<1>6. Lists(f)
  BY <1>1, <1>2 DEF Lists
<1> QED BY <1>4, <1>5, <1>6

-----------------------------------------------------------------------------
(***************************************************************************)
(* The client's steps.                                                     *)
(***************************************************************************)
\* A client c whose server is s, and all it reads is what that server told.
ClientTurn(c, s) == Good(c, s) /\ ClientOwn(c, s) /\ \A m : Reads(c, m) => Told(m, s)

\* A step to d: it goes on to agree, and offers what it offered.
ClientStep(c, d, s) ==
    /\ d.cfg = c.cfg /\ ClientOwn(d, s)
    /\ \A m : Sends(d, m) => Sends(c, m) \/ Offers(m, c.cfg.versions)
    /\ \A m : Reads(d, m) => Reads(c, m)

\* It may stay there, ...
LEMMA ClientStepStays ==
    ASSUME NEW c, NEW d, NEW f, NEW s, ClientStep(c, d, s), Stays(d, f)
    PROVE  ClientStep(c, f, s)
<1>1. ClientOwn(f, s)
  BY ClientStays DEF ClientStep
<1>2. Keeps(d, f)
  BY DEF Stays
<1>3. \A m : Sends(f, m) => Sends(c, m) \/ Offers(m, c.cfg.versions)
  BY <1>2, PlainTold, Zenon DEF ClientStep, Keeps
<1>4. f.cfg = c.cfg /\ \A m : Reads(f, m) => Reads(c, m)
  BY <1>2 DEF ClientStep, Keeps
<1> QED BY <1>1, <1>3, <1>4 DEF ClientStep

\* A client that stays takes a step.
LEMMA ClientStepNone ==
    ASSUME NEW c, NEW f, NEW s, ClientTurn(c, s), Stays(c, f)
    PROVE  ClientStep(c, f, s)
<1>1. ClientStep(c, c, s)
  BY DEF ClientStep, ClientTurn
<1> QED BY <1>1, ClientStepStays

\* ... or move on.
LEMMA ClientStepMoves ==
    ASSUME NEW c, NEW f, NEW s, ClientTurn(c, s), Keeps(c, f), ClientMoves(c, f)
    PROVE  ClientStep(c, f, s)
<1>1. ClientOwn(f, s)
  BY ClientMovesOn DEF ClientTurn, Good, Typed
<1>2. \A m : Sends(f, m) => Sends(c, m) \/ Offers(m, c.cfg.versions)
  BY PlainTold, Zenon DEF Keeps
<1>3. f.cfg = c.cfg /\ \A m : Reads(f, m) => Reads(c, m)
  BY DEF Keeps
<1> QED BY <1>1, <1>2, <1>3 DEF ClientStep

\* What is known of a client whose turn it is.
LEMMA ClientFacts ==
    ASSUME NEW c, NEW s, ClientTurn(c, s)
    PROVE  /\ Good(c, s) /\ Lists(c) /\ DOMAIN c = Fields /\ ClientOwn(c, s)
           /\ IsSeq(c.transcript) /\ Len(c.transcript) \in Nat
           /\ c.version \in {0, 12, 13} /\ c.session_reused \in BOOLEAN
           /\ c.state # "done" => c.established = "none"
<1>1. Lists(c)
  BY GoodLists DEF ClientTurn
<1>2. IsSeq(c.transcript)
  BY DEF ClientTurn, ClientOwn, ClientTranscript
<1>3. c.state # "done" => c.established = "none"
  BY DEF ClientTurn, ClientOwn, ClientVersion, Good, Trust
<1> QED BY <1>1, <1>2, <1>3, SeqLen DEF ClientTurn, Good, Typed, Lists

\* Waiting and failing are steps.
LEMMA ClientStepEnds ==
    ASSUME NEW c, NEW s, ClientTurn(c, s), NEW why
    PROVE  /\ ClientStep(c, Wait(c, why), s) /\ ClientStep(c, Error(c, why), s)
           /\ ClientStep(c, Alert(c, why), s) /\ ClientStep(c, Alert(HashMessage(c), why), s)
<1>1. Lists(c) /\ DOMAIN c = Fields
  BY ClientFacts
<1>2. Stays(c, Wait(c, why)) /\ Stays(c, Error(c, why)) /\ Stays(c, Alert(c, why)) /\ Stays(c, Alert(HashMessage(c), why))
  BY <1>1, StaysWait, StaysError, StaysAlert, StaysHashAlert
<1> QED BY <1>2, ClientStepNone

\* Failing after a step is a step.
LEMMA ClientStepAlert ==
    ASSUME NEW c, NEW d, NEW s, NEW why, ClientStep(c, d, s), Lists(d)
    PROVE  ClientStep(c, Alert(d, why), s)
BY StaysAlert, ClientStepStays

\* Before it has read a ServerHello a client owes nothing but the version.
LEMMA ClientHelloing ==
    ASSUME NEW d, NEW s, d.total_renegotiations = 0, IsSeq(d.transcript), Len(d.transcript) >= 1,
           d.version # 0 => d.version = s.version,
           \/ d.state = "read_server_hello"
           \/ /\ d.state = "tls13" /\ d.version = 13
              /\ d.tls13_state \in {"read_hello_retry_request", "send_second_client_hello", "read_server_hello"}
    PROVE  ClientOwn(d, s)
<1>1. ClientVersion(d, s)
  BY SMT DEF ClientVersion, At, Shown12, Shown13, ClientEnd, Confirmed13, Asked12
<1>2. ClientTranscript(d)
  BY SMT DEF ClientTranscript, Shown12, ClientEnd
<1>3. ClientSecrets(d, s)
  BY SMT DEF ClientSecrets, Confirmed, At, ClientEnd, Confirmed13
<1>4. ClientKeys(d)
  BY SMT DEF ClientKeys, At, ClientEnd
<1> QED BY <1>1, <1>2, <1>3, <1>4 DEF ClientOwn

\* The client's hello offers its versions.
LEMMA HelloOffers ==
    ASSUME NEW e, e.established = "none"
    PROVE  Offers(ClientHello(e), e.cfg.versions)
BY DEF Offers, ClientHello

\* One more message.
LEMMA LongerTranscript ==
    ASSUME NEW t, NEW m, IsSeq(t)
    PROVE  /\ IsSeq(Append(t, m)) /\ Len(t) \in Nat /\ Len(Append(t, m)) = Len(t) + 1
           /\ Len(t) >= 2 => SubSeq(Append(t, m), 1, 2) = SubSeq(t, 1, 2)
BY ExtendsAppend, SeqLen DEF Extends

\* do_start_connect.
LEMMA C12StartConnectStep ==
    ASSUME NEW e, NEW g, ClientTurn(e, g), e.state = "start"
    PROVE  ClientStep(e, C12!do_start_connect(e), g)
<1> DEFINE h == [e EXCEPT !.key_share = e.cfg.groups[1]]
           d == AddMessage(h, ClientHello(h))
           f == Wait(To(d, "read_server_hello"), "flush")
<1>1. C12!do_start_connect(e) = f
  BY C12AddMessage, Zenon DEF C12!do_start_connect, ClientHello, Wait, To, C12!ClientHello,
       C12!Wait, C12!To
<1>2. /\ Good(e, g) /\ Lists(e) /\ DOMAIN e = Fields /\ ClientOwn(e, g) /\ e.established = "none"
      /\ IsSeq(e.transcript) /\ Len(e.transcript) \in Nat
      /\ e.version \in {0, 12, 13} /\ e.session_reused \in BOOLEAN
  BY ClientFacts
<1>3. Same(e, h, {"key_share"})
  BY <1>2, Zenon DEF Same, Fields
<1> HIDE DEF h
<1>4. Lists(h) /\ h.established = "none" /\ h.cfg = e.cfg /\ h.transcript = e.transcript
  <2>1. {"key_share"} \cap Buffered = {}
    BY DEF Buffered
  <2>2. Lists(h)
    BY <1>2, <1>3, <2>1, SameLists
  <2> QED BY <1>2, <1>3, <2>2 DEF Same, Fields
<1>5. Flight(h, d, {ClientHello(h)}) /\ d.transcript = Append(h.transcript, ClientHello(h))
  BY <1>4, FlightOne
<1> HIDE DEF d
<1>6. Same(d, f, {"state", "wait"}) /\ f.state = "read_server_hello"
  <2>1. DOMAIN d = Fields
    BY <1>5 DEF Flight, Same
  <2> QED BY <2>1, SameToWait
<1> HIDE DEF f
<1>7. /\ f.total_renegotiations = e.total_renegotiations /\ f.version = e.version /\ f.cfg = e.cfg
      /\ f.transcript = d.transcript
  BY <1>3, <1>5, <1>6 DEF Flight, Same, Fields, Written
<1>8. ClientOwn(f, g)
  <2>1. f.total_renegotiations = 0 /\ (f.version # 0 => f.version = g.version)
    BY <1>2, <1>7 DEF ClientOwn, ClientVersion
  <2>2. IsSeq(f.transcript) /\ Len(f.transcript) >= 1
    BY <1>2, <1>4, <1>5, <1>7, LongerTranscript
  <2> QED BY <1>6, <2>1, <2>2, ClientHelloing
<1>9. /\ \A x : Sends(f, x) => Sends(h, x) \/ x \in {ClientHello(h)}
      /\ \A x : Reads(f, x) => Reads(h, x)
  <2>1. {"state", "wait"} \cap Buffered = {}
    BY DEF Buffered
  <2> QED BY <1>5, <1>6, <2>1, FlightEnd
<1>10. \A x : Sends(h, x) = Sends(e, x) /\ Reads(h, x) = Reads(e, x)
  BY <1>3, SameBuffers
<1>11. Offers(ClientHello(h), e.cfg.versions)
  BY <1>4, HelloOffers
<1>12. \A x : Sends(f, x) => Sends(e, x) \/ Offers(x, e.cfg.versions)
  BY <1>9, <1>10, <1>11
<1>13. \A x : Reads(f, x) => Reads(e, x)
  BY <1>9, <1>10
<1> QED BY <1>1, <1>7, <1>8, <1>12, <1>13 DEF ClientStep

\* do_read_server_hello.
LEMMA C12ReadServerHelloStep ==
    ASSUME NEW e, NEW g, ClientTurn(e, g), e.state = "read_server_hello"
    PROVE  ClientStep(e, C12!do_read_server_hello(e), g)
<1> DEFINE m == Message(e)
           v == [e EXCEPT !.version = m.version]
           h == Take([v EXCEPT !.session_reused = m.reused, !.ticket_expected = m.ticket])
           f13 == To13(To(v, "tls13"), "read_hello_retry_request")
           fr == To([h EXCEPT !.secret = [psk |-> TRUE, dhe |-> 0, transcript |-> <<>>], !.peer = "server"],
                    "read_session_ticket")
           ff == To(h, "read_server_certificate")
           wrong == \/ m.downgrade /\ 13 \in e.cfg.versions /\ e.established = "none"
                    \/ m.reused /\ ClientHello(e).session # 12
<1>1. C12!do_read_server_hello(e) = IF ~HasMessage(e) THEN Wait(e, "read_server_hello")
        ELSE IF m.type \notin {"server_hello", "hello_retry_request"} THEN Alert(e, "unexpected_message")
        ELSE IF m.version \notin e.cfg.versions \/ (e.established # "none" /\ m.version # e.version)
        THEN Alert(e, "protocol_version")
        ELSE IF m.version = 13 THEN f13
        ELSE IF wrong THEN Alert(v, "illegal_parameter")
        ELSE IF m.reused THEN fr ELSE ff
  BY Zenon DEF C12!do_read_server_hello, Message, Take, NextMessage, Units, HashMessage, To13,
       To, ClientHello, HasMessage, Wait, Alert, FlushFlight, FlushPendingHsData, Records, Record,
       Error, C12!Message, C12!Take, C12!NextMessage, C12!Units, C12!HashMessage, C12!To13, C12!To,
       C12!ClientHello, C12!HasMessage, C12!Wait, C12!Alert, C12!FlushFlight,
       C12!FlushPendingHsData, C12!Records, C12!Record, C12!Error
<1>2. /\ Good(e, g) /\ Lists(e) /\ DOMAIN e = Fields /\ ClientOwn(e, g) /\ e.established = "none"
      /\ IsSeq(e.transcript) /\ Len(e.transcript) \in Nat
      /\ e.version \in {0, 12, 13} /\ e.session_reused \in BOOLEAN
  BY ClientFacts
<1>3. ASSUME HasMessage(e), m.type \in {"server_hello", "hello_retry_request"}
      PROVE  /\ m.version \in {12, 13} /\ m.version = g.version
             /\ m.version = 12 => m.reused \in BOOLEAN /\ Decided(g) /\ m.reused = g.session_reused
  <2>1. Sound(m, g) /\ Reads(e, m)
    BY <1>2, <1>3, OnMessage, ReadsMessage DEF Good
  <2>2. Told(m, g)
    BY <2>1 DEF ClientTurn
  <2> HIDE DEF m
  <2> QED BY <1>3, <2>1, <2>2 DEF Sound, Told
<1> HIDE DEF m
<1>4. ASSUME m.version = 13, m.version = g.version PROVE ClientStep(e, f13, g)
  <2>1. Same(e, f13, {"version", "state", "tls13_state"})
    BY <1>2, Zenon DEF Same, To13, To
  <2>2. /\ f13.version = 13 /\ f13.state = "tls13"
        /\ f13.tls13_state = "read_hello_retry_request"
    BY <1>2, <1>4, SMT DEF To13, To, Fields
  <2> HIDE DEF f13
  <2>3. f13.total_renegotiations = e.total_renegotiations /\ f13.cfg = e.cfg /\ f13.transcript = e.transcript
    BY <2>1 DEF Same, Fields
  <2>4. ClientOwn(f13, g)
    <3>1. e.total_renegotiations = 0 /\ Len(e.transcript) >= 1
      BY <1>2 DEF ClientOwn, ClientVersion, ClientTranscript
    <3> QED BY <1>2, <1>4, <2>2, <2>3, <3>1, ClientHelloing
  <2>5. \A x : Sends(f13, x) = Sends(e, x) /\ Reads(f13, x) = Reads(e, x)
    BY <2>1, SameBuffers
  <2> QED BY <2>3, <2>4, <2>5 DEF ClientStep
<1>5. ASSUME m.version = g.version PROVE ClientStep(e, Alert(v, "illegal_parameter"), g)
  <2>1. Same(e, v, {"version"}) /\ v.version = m.version
    BY <1>2, Zenon DEF Same, Fields
  <2> HIDE DEF v
  <2>2. v.total_renegotiations = e.total_renegotiations /\ v.cfg = e.cfg /\ v.transcript = e.transcript /\ v.state = e.state
    BY <2>1 DEF Same, Fields
  <2>3. ClientOwn(v, g)
    <3>1. e.total_renegotiations = 0 /\ Len(e.transcript) >= 1
      BY <1>2 DEF ClientOwn, ClientVersion, ClientTranscript
    <3> QED BY <1>2, <1>5, <2>1, <2>2, <3>1, ClientHelloing
  <2>4. \A x : Sends(v, x) = Sends(e, x) /\ Reads(v, x) = Reads(e, x)
    BY <2>1, SameBuffers
  <2>5. ClientStep(e, v, g)
    BY <2>2, <2>3, <2>4 DEF ClientStep
  <2>6. {"version"} \cap Buffered = {}
    BY DEF Buffered
  <2>7. Lists(v)
    BY <1>2, <2>1, <2>6, SameLists
  <2> QED BY <2>5, <2>7, ClientStepAlert
<1> DEFINE X == {"version", "session_reused", "ticket_expected", "transcript", "hs_buf", "secret", "peer", "state"}
<1>6. ASSUME NEW f, HasMessage(e), m.version = 12, m.version = g.version, Decided(g), m.reused \in BOOLEAN, m.reused = g.session_reused,
             Same(e, f, X), f.version = 12, f.session_reused = m.reused, f.hs_buf = NextMessage(e).hs_buf,
             f.transcript = Append(e.transcript, m),
             \/ f.state = "read_session_ticket" /\ m.reused
             \/ f.state = "read_server_certificate" /\ ~m.reused
      PROVE  ClientStep(e, f, g)
  <2>1. f.total_renegotiations = e.total_renegotiations /\ f.cfg = e.cfg
    BY <1>6 DEF Same, Fields
  <2>2. e.total_renegotiations = 0 /\ Len(e.transcript) >= 1
    BY <1>2 DEF ClientOwn, ClientVersion, ClientTranscript
  <2>3. IsSeq(f.transcript) /\ Len(f.transcript) >= 2
    BY <1>2, <1>6, <2>2, LongerTranscript
  <2>4. ClientVersion(f, g)
    BY <1>6, <2>1, <2>2, SMT DEF ClientVersion, At, Shown12, Asked12, ClientEnd
  <2>5. ClientTranscript(f)
    BY <1>6, <2>3, SMT DEF ClientTranscript
  <2>6. ClientSecrets(f, g) /\ ClientKeys(f)
    BY <1>6, SMT DEF ClientSecrets, ClientKeys, Confirmed, At, ClientEnd
  <2>7. ClientOwn(f, g)
    BY <2>4, <2>5, <2>6 DEF ClientOwn
  <2>8. X \cap Buffered \subseteq {"hs_buf"}
    BY DEF Buffered
  <2>9. (\A x : Sends(f, x) => Sends(e, x)) /\ (\A x : Reads(f, x) => Reads(e, x))
    <3> HIDE DEF X
    <3> QED BY <1>2, <1>6, <2>8, TakenFrom
  <2> QED BY <2>1, <2>7, <2>9 DEF ClientStep
<1>7. /\ Same(e, fr, X) /\ fr.version = m.version /\ fr.state = "read_session_ticket" /\ fr.session_reused = m.reused
      /\ fr.hs_buf = NextMessage(e).hs_buf /\ fr.transcript = Append(e.transcript, m)
  <2>1. Same(e, fr, X)
    BY <1>2, Zenon DEF Same, To, Take, NextMessage, HashMessage
  <2>2. /\ fr.version = m.version /\ fr.state = "read_session_ticket" /\ fr.session_reused = m.reused
        /\ fr.hs_buf = NextMessage(e).hs_buf
    BY <1>2, SMT DEF To, Take, NextMessage, HashMessage, Message, Fields
  <2>3. fr.transcript = Append(e.transcript, m)
    BY <1>2, SMT DEF To, Take, NextMessage, HashMessage, Message, Fields, m
  <2> QED BY <2>1, <2>2, <2>3
<1>8. /\ Same(e, ff, X) /\ ff.version = m.version /\ ff.state = "read_server_certificate" /\ ff.session_reused = m.reused
      /\ ff.hs_buf = NextMessage(e).hs_buf /\ ff.transcript = Append(e.transcript, m)
  <2>1. Same(e, ff, X)
    BY <1>2, Zenon DEF Same, To, Take, NextMessage, HashMessage
  <2>2. /\ ff.version = m.version /\ ff.state = "read_server_certificate" /\ ff.session_reused = m.reused
        /\ ff.hs_buf = NextMessage(e).hs_buf
    BY <1>2, SMT DEF To, Take, NextMessage, HashMessage, Message, Fields
  <2>3. ff.transcript = Append(e.transcript, m)
    BY <1>2, SMT DEF To, Take, NextMessage, HashMessage, Message, Fields, m
  <2> QED BY <2>1, <2>2, <2>3
<1>9. ClientStep(e, Wait(e, "read_server_hello"), g) /\ ClientStep(e, Alert(e, "unexpected_message"), g)
      /\ ClientStep(e, Alert(e, "protocol_version"), g)
  BY ClientStepEnds
<1> HIDE DEF f13, fr, ff, v, wrong, X
<1>10. ASSUME HasMessage(e), m.type \in {"server_hello", "hello_retry_request"}, m.version # 13
       PROVE  (m.reused => ClientStep(e, fr, g)) /\ (~m.reused => ClientStep(e, ff, g))
  BY <1>3, <1>6, <1>7, <1>8, <1>10
<1> QED BY <1>1, <1>3, <1>4, <1>5, <1>9, <1>10

\* do_send_client_key_exchange.
LEMMA C12SendClientKeyExchangeStep ==
    ASSUME NEW e, NEW g, ClientTurn(e, g), e.state = "send_client_key_exchange"
    PROVE  ClientStep(e, C12!do_send_client_key_exchange(e), g)
<1> DEFINE m == [type |-> "client_key_exchange", group |-> e.key_share]
           d == AddMessage(e, m)
           f == To([d EXCEPT !.secret = [psk |-> FALSE, dhe |-> d.key_share, transcript |-> d.transcript]],
                   "send_client_certificate_verify")
<1>1. C12!do_send_client_key_exchange(e) = f
  BY C12AddMessage, Zenon DEF C12!do_send_client_key_exchange, To, C12!To
<1>2. /\ Good(e, g) /\ Lists(e) /\ DOMAIN e = Fields /\ ClientOwn(e, g) /\ e.established = "none"
      /\ IsSeq(e.transcript) /\ Len(e.transcript) \in Nat
      /\ e.version \in {0, 12, 13} /\ e.session_reused \in BOOLEAN
  BY ClientFacts
<1>3. Plain(m)
  BY DEF Plain
<1> HIDE DEF m
<1>4. Flight(e, d, {m}) /\ d.transcript = Append(e.transcript, m)
  BY <1>2, FlightOne
<1> HIDE DEF d
<1>5. Same(d, f, {"secret", "state"}) /\ f.state = "send_client_certificate_verify"
  <2>1. DOMAIN d = Fields
    BY <1>4 DEF Flight, Same
  <2> QED BY <2>1, Zenon DEF Same, Fields, To
<1> HIDE DEF f
<1>6. /\ f.total_renegotiations = e.total_renegotiations /\ f.version = e.version /\ f.cfg = e.cfg
      /\ f.session_reused = e.session_reused /\ f.transcript = d.transcript
  BY <1>4, <1>5 DEF Flight, Same, Fields, Written
<1>7. e.version = 12 /\ ~e.session_reused /\ Len(e.transcript) >= 2
  BY <1>2, SMT DEF ClientOwn, ClientVersion, ClientTranscript, Shown12, Asked12
<1>8. IsSeq(f.transcript) /\ Len(f.transcript) >= 2
  BY <1>2, <1>4, <1>6, <1>7, LongerTranscript
<1>9. ClientOwn(f, g)
  <2>1. ClientVersion(f, g)
    BY <1>2, <1>5, <1>6, <1>7, <1>8, SMT DEF ClientOwn, ClientVersion, At, Shown12, Asked12,
       ClientEnd, Shown13, Confirmed13
  <2>2. ClientTranscript(f)
    BY <1>2, <1>5, <1>6, <1>7, <1>8, SMT DEF ClientTranscript, Shown12, ClientEnd
  <2>3. ClientSecrets(f, g)
    BY <1>2, <1>5, <1>6, <1>7, <1>8, SMT DEF ClientOwn, ClientSecrets, ClientVersion, Confirmed, At,
       ClientEnd, Confirmed13, Asked12
  <2>4. ClientKeys(f)
    BY <1>2, <1>5, <1>6, <1>7, <1>8, SMT DEF ClientOwn, ClientKeys, ClientVersion, At, ClientEnd,
       Asked12
  <2> QED BY <2>1, <2>2, <2>3, <2>4 DEF ClientOwn
<1>10. /\ \A x : Sends(f, x) => Sends(e, x) \/ x \in {m}
       /\ \A x : Reads(f, x) => Reads(e, x)
  <2>1. {"secret", "state"} \cap Buffered = {}
    BY DEF Buffered
  <2> QED BY <1>4, <1>5, <2>1, FlightEnd
<1>11. Offers(m, e.cfg.versions)
  BY <1>3, PlainTold
<1>12. \A x : Sends(f, x) => Sends(e, x) \/ Offers(x, e.cfg.versions)
  BY <1>10, <1>11
<1> QED BY <1>1, <1>6, <1>9, <1>10, <1>12 DEF ClientStep

\* do_send_client_finished.
LEMMA C12SendClientFinishedStep ==
    ASSUME NEW e, NEW g, ClientTurn(e, g), e.state = "send_client_finished"
    PROVE  ClientStep(e, C12!do_send_client_finished(e), g)
<1> DEFINE a == AddChangeCipherSpec(e)
           b == SetWriteKey(a, C12!key(e, "client"))
           d == AddMessage(b, Finished("client", b))
           f == Wait(To(d, "finish_flight"), "flush")
<1>1. C12!do_send_client_finished(e) = f
  BY C12AddMessage, C12ChangeCipherSpec, C12SetWriteKey, Zenon DEF
       C12!do_send_client_finished, Finished, Wait, To, C12!Finished, C12!Wait, C12!To
<1>2. /\ Good(e, g) /\ Lists(e) /\ DOMAIN e = Fields /\ ClientOwn(e, g) /\ e.established = "none"
      /\ IsSeq(e.transcript) /\ Len(e.transcript) \in Nat
      /\ e.version \in {0, 12, 13} /\ e.session_reused \in BOOLEAN
  BY ClientFacts
<1> DEFINE m == Finished("client", b)
<1>3. m.type = "finished"
  BY DEF Finished
<1>4. C12!key(e, "client") = Key12(e, "client")
  BY Zenon DEF C12!key, C12!Key, Key, Key12, Hellos
<1>5. Flight(e, a, {}) /\ a.transcript = e.transcript
  BY <1>2, FlightStart, FlightChange
<1> HIDE DEF a
<1>6. Flight(e, b, {}) /\ b.transcript = e.transcript /\ b.write_key = Key12(e, "client")
  BY <1>4, <1>5, FlightKey
<1> HIDE DEF b
<1>7. Lists(b)
  BY <1>6 DEF Flight
<1> HIDE DEF m
<1>8. Flight(b, d, {m}) /\ d.transcript = Append(b.transcript, m) /\ d.write_key = b.write_key
  BY <1>7, FlightOne DEF m
<1> HIDE DEF d
<1>9. Same(d, f, {"state", "wait"}) /\ f.state = "finish_flight"
  <2>1. DOMAIN d = Fields
    BY <1>8 DEF Flight, Same
  <2> QED BY <2>1, SameToWait
<1> HIDE DEF f
<1>10. /\ f.total_renegotiations = e.total_renegotiations /\ f.version = e.version /\ f.cfg = e.cfg
       /\ f.session_reused = e.session_reused /\ f.transcript = d.transcript /\ f.secret = e.secret
       /\ f.write_key = Key12(e, "client") /\ f.read_key = e.read_key
  BY <1>6, <1>8, <1>9 DEF Flight, Same, Fields, Written
<1>11. e.version = 12 /\ Len(e.transcript) >= 2
  BY <1>2, SMT DEF ClientOwn, ClientVersion, ClientTranscript, Shown12
<1>12. IsSeq(f.transcript) /\ Len(f.transcript) >= 2 /\ Hellos(f) = Hellos(e)
  BY <1>2, <1>6, <1>8, <1>10, <1>11, LongerTranscript DEF Hellos
<1>13. Key12(f, "client") = Key12(e, "client") /\ Key12(f, "server") = Key12(e, "server")
  BY <1>10, <1>12, Zenon DEF Key12
<1>14. Derived(Key12(e, "client"), Key12(e, "client"))
  BY DEF Derived, Key12, Key, KeyFields, SameSecret
<1>15. ClientOwn(f, g)
  <2>1. ClientVersion(f, g)
    BY <1>2, <1>9, <1>10, <1>11, <1>12, <1>13, <1>14, SMT DEF ClientOwn, ClientVersion, At, Shown12,
       Asked12, ClientEnd, Shown13, Confirmed13
  <2>2. ClientTranscript(f)
    BY <1>2, <1>9, <1>10, <1>11, <1>12, <1>13, <1>14, SMT DEF ClientTranscript, Shown12, ClientEnd
  <2>3. ClientSecrets(f, g)
    BY <1>2, <1>9, <1>10, <1>11, <1>12, <1>13, <1>14, SMT DEF ClientOwn, ClientSecrets,
       ClientVersion, Confirmed, At, ClientEnd, Confirmed13, Asked12
  <2>4. ClientKeys(f)
    BY <1>2, <1>9, <1>10, <1>11, <1>12, <1>13, <1>14, SMT DEF ClientOwn, ClientKeys, ClientVersion,
       At, ClientEnd, Asked12
  <2> QED BY <2>1, <2>2, <2>3, <2>4 DEF ClientOwn
<1>16. /\ \A x : Sends(f, x) => Sends(b, x) \/ x \in {m}
       /\ \A x : Reads(f, x) => Reads(b, x)
  <2>1. {"state", "wait"} \cap Buffered = {}
    BY DEF Buffered
  <2> QED BY <1>8, <1>9, <2>1, FlightEnd
<1>17. (\A x : Sends(b, x) => Sends(e, x)) /\ \A x : Reads(b, x) => Reads(e, x)
  <2>1. {} \cap Buffered = {} /\ Same(b, b, {})
    BY <1>7 DEF Same, Lists
  <2> QED BY <1>6, <2>1, FlightEnd
<1>18. Offers(m, e.cfg.versions)
  BY <1>3 DEF Offers, m
<1>19. \A x : Sends(f, x) => Sends(e, x) \/ Offers(x, e.cfg.versions)
  BY <1>16, <1>17, <1>18
<1>20. \A x : Reads(f, x) => Reads(e, x)
  BY <1>16, <1>17
<1> QED BY <1>1, <1>10, <1>15, <1>19, <1>20 DEF ClientStep

\* do_process_change_cipher_spec.
LEMMA C12ProcessChangeCipherSpecStep ==
    ASSUME NEW e, NEW g, ClientTurn(e, g), e.state = "process_change_cipher_spec"
    PROVE  ClientStep(e, C12!do_process_change_cipher_spec(e), g)
<1> DEFINE k == C12!key(e, "server")
           f == [To(e, "read_server_finished") EXCEPT !.read_key = k]
<1>1. C12!do_process_change_cipher_spec(e) = IF e.hs_buf # <<>> THEN Alert(e, "unexpected_message") ELSE f
  BY Zenon DEF C12!do_process_change_cipher_spec, To, Alert, FlushFlight, FlushPendingHsData,
       Records, Record, Error, HasMessage, Units, Message, SetReadKey, C12!To, C12!Alert,
       C12!FlushFlight, C12!FlushPendingHsData, C12!Records, C12!Record, C12!Error, C12!HasMessage,
       C12!Units, C12!Message, C12!SetReadKey
<1>2. /\ Good(e, g) /\ Lists(e) /\ DOMAIN e = Fields /\ ClientOwn(e, g) /\ e.established = "none"
      /\ IsSeq(e.transcript) /\ Len(e.transcript) \in Nat
      /\ e.version \in {0, 12, 13} /\ e.session_reused \in BOOLEAN
  BY ClientFacts
<1>3. k = Key12(e, "server")
  BY Zenon DEF C12!key, C12!Key, Key, Key12, Hellos
<1> HIDE DEF k
<1>4. Same(e, f, {"state", "read_key"}) /\ f.state = "read_server_finished" /\ f.read_key = k
  BY <1>2, Zenon DEF Same, Fields, To
<1> HIDE DEF f
<1>5. /\ f.total_renegotiations = e.total_renegotiations /\ f.version = e.version /\ f.cfg = e.cfg
      /\ f.session_reused = e.session_reused /\ f.transcript = e.transcript /\ f.secret = e.secret
      /\ f.write_key = e.write_key
  BY <1>4 DEF Same, Fields
<1>6. e.version = 12 /\ Len(e.transcript) >= 2
  BY <1>2, SMT DEF ClientOwn, ClientVersion, ClientTranscript, Shown12
<1>7. Key12(f, "client") = Key12(e, "client") /\ Key12(f, "server") = Key12(e, "server")
  BY <1>5, Zenon DEF Key12, Hellos
<1>8. Derived(Key12(e, "server"), Key12(e, "server"))
  BY DEF Derived, Key12, Key, KeyFields, SameSecret
<1>9. ClientOwn(f, g)
  <2>1. ClientVersion(f, g)
    BY <1>2, <1>3, <1>4, <1>5, <1>6, <1>7, <1>8, SMT DEF ClientOwn, ClientVersion, At, Shown12,
       Asked12, ClientEnd, Shown13, Confirmed13
  <2>2. ClientTranscript(f)
    BY <1>2, <1>3, <1>4, <1>5, <1>6, <1>7, <1>8, SMT DEF ClientTranscript, Shown12, ClientEnd
  <2>3. ClientSecrets(f, g)
    BY <1>2, <1>3, <1>4, <1>5, <1>6, <1>7, <1>8, SMT DEF ClientOwn, ClientSecrets, ClientVersion,
       Confirmed, At, ClientEnd, Confirmed13, Asked12
  <2>4. ClientKeys(f)
    BY <1>2, <1>3, <1>4, <1>5, <1>6, <1>7, <1>8, SMT DEF ClientOwn, ClientKeys, ClientVersion, At,
       ClientEnd, Asked12
  <2> QED BY <2>1, <2>2, <2>3, <2>4 DEF ClientOwn
<1>10. \A x : Sends(f, x) = Sends(e, x) /\ Reads(f, x) = Reads(e, x)
  BY <1>4, SameBuffers
<1>11. ClientStep(e, f, g)
  BY <1>5, <1>9, <1>10 DEF ClientStep
<1> QED BY <1>1, <1>11, ClientStepEnds

\* do_read_server_finished.
LEMMA C12ReadServerFinishedStep ==
    ASSUME NEW e, NEW g, ClientTurn(e, g), e.state = "read_server_finished"
    PROVE  ClientStep(e, C12!do_read_server_finished(e), g)
<1> DEFINE f == To(Take(e), IF e.session_reused THEN "send_client_finished" ELSE "finish_client_handshake")
           then == IF Message(e) # Finished("server", e) THEN Alert(HashMessage(e), "decrypt_error")
                   ELSE IF Excess(e) THEN Alert(HashMessage(e), "unexpected_message") ELSE f
<1>1. C12!do_read_server_finished(e) = Expect(e, "finished", then)
  BY Zenon DEF C12!do_read_server_finished, To, Take, NextMessage, Units, Message,
       HashMessage, Finished, Alert, FlushFlight, FlushPendingHsData, Records, Record, Error,
       HasMessage, Excess, Expect, Wait, C12!To, C12!Take, C12!NextMessage, C12!Units, C12!Message,
       C12!HashMessage, C12!Finished, C12!Alert, C12!FlushFlight, C12!FlushPendingHsData,
       C12!Records, C12!Record, C12!Error, C12!HasMessage, C12!Excess, C12!Expect, C12!Wait
<1>2. /\ Good(e, g) /\ Lists(e) /\ DOMAIN e = Fields /\ ClientOwn(e, g) /\ e.established = "none"
      /\ IsSeq(e.transcript) /\ Len(e.transcript) \in Nat
      /\ e.version \in {0, 12, 13} /\ e.session_reused \in BOOLEAN
  BY ClientFacts
<1>3. ASSUME HasMessage(e), Message(e) = Finished("server", e) PROVE ClientStep(e, f, g)
  <2> DEFINE m == Message(e)
             X == {"transcript", "hs_buf", "state"}
  <2>1. Same(e, f, X)
    BY <1>2, Zenon DEF Same, To, Take, NextMessage, HashMessage
  <2>2. /\ f.hs_buf = NextMessage(e).hs_buf /\ f.transcript = Append(e.transcript, m)
        /\ f.state = IF e.session_reused THEN "send_client_finished" ELSE "finish_client_handshake"
    BY <1>2, SMT DEF To, Take, NextMessage, HashMessage, Message, Fields
  <2> HIDE DEF f
  <2>3. /\ f.total_renegotiations = e.total_renegotiations /\ f.version = e.version /\ f.cfg = e.cfg
        /\ f.session_reused = e.session_reused /\ f.secret = e.secret
        /\ f.write_key = e.write_key /\ f.read_key = e.read_key
    BY <2>1 DEF Same, Fields
  <2>4. Told(m, g)
    BY <1>2, <1>3, ReadsMessage DEF ClientTurn
  <2>5. m.type = "finished" /\ m.secret = e.secret /\ m.over = e.transcript
    BY <1>3 DEF Finished
  <2> HIDE DEF m
  <2>6. e.version = 12 /\ Len(e.transcript) >= 2 /\ g.version = 12
    BY <1>2, SMT DEF ClientOwn, ClientVersion, ClientTranscript, Shown12
  <2>7. Sealed(g) /\ e.secret = g.secret /\ Hellos(e) = Hellos(g)
    BY <2>4, <2>5, <2>6 DEF Told, Hellos
  <2>8. IsSeq(f.transcript) /\ Len(f.transcript) >= 2 /\ Hellos(f) = Hellos(e)
    BY <1>2, <2>2, <2>6, LongerTranscript DEF Hellos
  <2>9. Key12(f, "client") = Key12(e, "client") /\ Key12(f, "server") = Key12(e, "server")
    BY <2>3, <2>8, Zenon DEF Key12
  <2>10. ClientVersion(f, g)
    BY <1>2, <2>2, <2>3, <2>6, SMT DEF ClientOwn, ClientVersion, At, Shown12, Asked12, ClientEnd
  <2>11. ClientTranscript(f)
    BY <2>8, SMT DEF ClientTranscript
  <2>12. ClientSecrets(f, g)
    BY <2>3, <2>6, <2>7, <2>8, SMT DEF ClientSecrets
  <2>13. ClientKeys(f)
    BY <1>2, <2>2, <2>3, <2>6, <2>9, SMT DEF ClientOwn, ClientKeys, ClientEnd
  <2>14. ClientOwn(f, g)
    BY <2>10, <2>11, <2>12, <2>13 DEF ClientOwn
  <2>15. X \cap Buffered \subseteq {"hs_buf"}
    BY DEF Buffered
  <2>16. (\A x : Sends(f, x) => Sends(e, x)) /\ (\A x : Reads(f, x) => Reads(e, x))
    <3> HIDE DEF X
    <3> QED BY <1>2, <1>3, <2>1, <2>2, <2>15, TakenFrom
  <2> QED BY <2>3, <2>14, <2>16 DEF ClientStep
<1> HIDE DEF f
<1>4. ASSUME HasMessage(e) PROVE ClientStep(e, then, g)
  BY <1>3, <1>4, ClientStepEnds
<1> HIDE DEF then
<1> QED BY <1>1, <1>2, <1>4, ExpectCases, ClientStepNone

\* A transcript of one message.
LEMMA OneMessage == ASSUME NEW x PROVE IsSeq(<<x>>) /\ Len(<<x>>) = 1
<1>1. <<x>> \in Seq({x})
  OBVIOUS
<1> QED BY <1>1 DEF IsSeq

\* A step that leaves the state as it was, and adds a ChangeCipherSpec.
LEMMA StaysChange == ASSUME NEW e, Lists(e) PROVE Stays(e, AddChangeCipherSpec(e)) /\ Lists(AddChangeCipherSpec(e))
<1> DEFINE f == AddChangeCipherSpec(e)
<1>1. /\ Same(e, f, {"pending_flight", "pending_hs_data"}) /\ Lists(f)
      /\ \A x : Sends(f, x) => Sends(e, x)
  BY SendsAddChangeCipherSpec
<1> HIDE DEF f
<1>2. Same(e, f, Idle \cup Buffered \cup {"transcript"})
  BY <1>1, SameWider DEF Buffered
<1>3. f.transcript = e.transcript /\ f.state = e.state /\ f.tls13_state = e.tls13_state
  BY <1>1 DEF Same, Fields
<1>4. \A x : Reads(f, x) = Reads(e, x)
  BY <1>1, SameBuffers
<1>5. Keeps(e, f)
  BY <1>1, <1>2, <1>3, <1>4, ExtendsItself, KeepsIdle
<1> QED BY <1>1, <1>3, <1>5 DEF Stays, f

\* do_read_hello_retry_request.
LEMMA C13ReadHelloRetryRequestStep ==
    ASSUME NEW e, NEW g, ClientTurn(e, g), e.state = "tls13", e.tls13_state = "read_hello_retry_request"
    PROVE  ClientStep(e, C13!do_read_hello_retry_request(e), g)
<1> DEFINE m == Message(e)
           f == AddChangeCipherSpec(e)
           h == HashMessage([UpdateForHelloRetryRequest(f) EXCEPT
                             !.key_share = m.group, !.used_hello_retry_request = TRUE])
           r == To13(NextMessage(h), "send_second_client_hello")
           s == To13(f, "read_server_hello")
<1>1. C13!do_read_hello_retry_request(e) = IF ~HasMessage(e) THEN Wait(e, "read_message")
        ELSE IF m.type # "hello_retry_request" THEN s
        ELSE IF m.group = e.key_share \/ \A i \in 1..Len(e.cfg.groups) : e.cfg.groups[i] # m.group
        THEN Alert(f, "illegal_parameter")
        ELSE IF Excess(e) THEN Alert(h, "unexpected_message") ELSE r
  BY Zenon DEF C13!do_read_hello_retry_request, Message, AddChangeCipherSpec,
       FlushPendingHsData, Records, Record, HashMessage, UpdateForHelloRetryRequest, To13,
       NextMessage, Units, HasMessage, Wait, Alert, FlushFlight, Error, Excess, C13!Message,
       C13!AddChangeCipherSpec, C13!FlushPendingHsData, C13!Records, C13!Record, C13!HashMessage,
       C13!UpdateForHelloRetryRequest, C13!To13, C13!NextMessage, C13!Units, C13!HasMessage,
       C13!Wait, C13!Alert, C13!FlushFlight, C13!Error, C13!Excess
<1>2. /\ Good(e, g) /\ Lists(e) /\ DOMAIN e = Fields /\ ClientOwn(e, g) /\ e.established = "none"
      /\ IsSeq(e.transcript) /\ Len(e.transcript) \in Nat
      /\ e.version \in {0, 12, 13} /\ e.session_reused \in BOOLEAN
  BY ClientFacts
<1>3. e.version = 13 /\ e.total_renegotiations = 0 /\ Len(e.transcript) >= 1 /\ e.version = g.version
  BY <1>2 DEF ClientOwn, ClientVersion, ClientTranscript
<1>4. Stays(e, f) /\ Lists(f) /\ DOMAIN f = Fields
  BY <1>2, StaysChange DEF Lists
<1>5. ClientStep(e, f, g)
  BY <1>4, ClientStepNone
<1>6. f.hs_buf = e.hs_buf
  <2>1. Same(e, f, {"pending_flight", "pending_hs_data"})
    BY <1>2, SendsAddChangeCipherSpec
  <2> HIDE DEF f
  <2> QED BY <2>1 DEF Same, Fields
<1> DEFINE t == <<[type |-> "message_hash", of |-> f.transcript]>>
           X == {"transcript", "key_share", "used_hello_retry_request"}
<1> HIDE DEF f, m
<1>7. Same(f, h, X) /\ h.transcript = Append(t, Message(f))
  <2>1. Same(f, h, X)
    BY <1>4, Zenon DEF Same, HashMessage, UpdateForHelloRetryRequest
  <2>2. h.transcript = Append(t, Message(f))
    BY <1>4, SMT DEF HashMessage, UpdateForHelloRetryRequest, Message, Fields
  <2> QED BY <2>1, <2>2
<1>8. ASSUME HasMessage(e) PROVE Same(h, r, {"hs_buf", "tls13_state"}) /\ r.hs_buf = NextMessage(h).hs_buf
                                 /\ r.tls13_state = "send_second_client_hello"
  <2>1. DOMAIN h = Fields
    BY <1>7 DEF Same
  <2> HIDE DEF h
  <2>2. Same(h, r, {"hs_buf", "tls13_state"})
    BY <2>1, Zenon DEF Same, To13, NextMessage
  <2>3. r.hs_buf = NextMessage(h).hs_buf /\ r.tls13_state = "send_second_client_hello"
    BY <2>1, SMT DEF To13, NextMessage, Fields
  <2> QED BY <2>2, <2>3
<1>9. IsSeq(Append(t, Message(f))) /\ Len(Append(t, Message(f))) >= 1
  <2>1. IsSeq(t) /\ Len(t) = 1
    BY OneMessage
  <2> HIDE DEF t
  <2> QED BY <2>1, LongerTranscript
<1> HIDE DEF h, r, t
<1>10. /\ f.state = "tls13" /\ f.version = 13 /\ f.total_renegotiations = 0 /\ f.cfg = e.cfg
       /\ f.tls13_state = "read_hello_retry_request"
  BY <1>3, <1>4 DEF Stays, Keeps
<1>11. /\ h.state = "tls13" /\ h.version = 13 /\ h.total_renegotiations = 0 /\ h.cfg = e.cfg
       /\ h.tls13_state = "read_hello_retry_request" /\ h.hs_buf = e.hs_buf
  BY <1>6, <1>7, <1>10 DEF Same, Fields
<1>12. ClientOwn(h, g)
  BY <1>3, <1>7, <1>9, <1>11, ClientHelloing
<1>13. \A x : Sends(h, x) = Sends(f, x) /\ Reads(h, x) = Reads(f, x)
  BY <1>7, SameBuffers
<1>14. Lists(h)
  <2>1. X \cap Buffered = {}
    BY DEF Buffered
  <2> QED BY <1>4, <1>7, <2>1, SameLists
<1>15. ClientStep(e, h, g)
  BY <1>5, <1>11, <1>12, <1>13 DEF ClientStep
<1>16. ASSUME HasMessage(e) PROVE ClientStep(e, r, g)
  <2>1. HasMessage(h)
    BY <1>11, <1>16 DEF HasMessage
  <2>2. {"hs_buf", "tls13_state"} \cap Buffered \subseteq {"hs_buf"}
    BY DEF Buffered
  <2>3. (\A x : Sends(r, x) => Sends(h, x)) /\ (\A x : Reads(r, x) => Reads(h, x))
    BY <1>8, <1>14, <1>16, <2>1, <2>2, TakenFrom
  <2>4. /\ r.state = "tls13" /\ r.version = 13 /\ r.total_renegotiations = 0 /\ r.cfg = e.cfg
        /\ r.tls13_state = "send_second_client_hello" /\ r.transcript = h.transcript
    BY <1>8, <1>11, <1>16 DEF Same, Fields
  <2>5. ClientOwn(r, g)
    BY <1>3, <1>7, <1>9, <2>4, ClientHelloing
  <2> QED BY <1>15, <2>3, <2>4, <2>5 DEF ClientStep
<1>17. ClientStep(e, s, g)
  <2>1. Goes13(e, s, "read_server_hello")
    BY <1>4, GoesTo
  <2> HIDE DEF s
  <2>2. Keeping(e, s) /\ s.state = "tls13" /\ s.tls13_state = "read_server_hello"
    BY <1>2, <2>1, KeepsKeys DEF Goes13
  <2>3. ClientOwn(s, g)
    BY <1>2, <1>3, <2>2, ClientHelloing DEF Keeping
  <2>4. \A x : Sends(s, x) => Sends(e, x) \/ Offers(x, e.cfg.versions)
    BY <2>1, PlainTold, Zenon DEF Goes13, Keeps
  <2> QED BY <2>1, <2>3, <2>4 DEF ClientStep, Goes13, Keeps
<1>18. ClientStep(e, Alert(f, "illegal_parameter"), g) /\ ClientStep(e, Alert(h, "unexpected_message"), g)
  BY <1>4, <1>5, <1>14, <1>15, ClientStepAlert
<1>19. ClientStep(e, Wait(e, "read_message"), g)
  BY ClientStepEnds
<1> HIDE DEF s
<1> QED BY <1>1, <1>16, <1>17, <1>18, <1>19

\* do_send_second_client_hello.
LEMMA C13SendSecondClientHelloStep ==
    ASSUME NEW e, NEW g, ClientTurn(e, g), e.state = "tls13", e.tls13_state = "send_second_client_hello"
    PROVE  ClientStep(e, C13!do_send_second_client_hello(e), g)
<1> DEFINE d == AddMessage(e, ClientHello(e))
           f == Wait(To13(d, "read_server_hello"), "flush")
<1>1. C13!do_send_second_client_hello(e) = f
  BY C13AddMessage, Zenon DEF C13!do_send_second_client_hello, ClientHello, Wait, To13,
       C13!ClientHello, C13!Wait, C13!To13
<1>2. /\ Good(e, g) /\ Lists(e) /\ DOMAIN e = Fields /\ ClientOwn(e, g) /\ e.established = "none"
      /\ IsSeq(e.transcript) /\ Len(e.transcript) \in Nat
      /\ e.version \in {0, 12, 13} /\ e.session_reused \in BOOLEAN
  BY ClientFacts
<1>5. Flight(e, d, {ClientHello(e)}) /\ d.transcript = Append(e.transcript, ClientHello(e))
  BY <1>2, FlightOne
<1> HIDE DEF d
<1>6. Same(d, f, {"tls13_state", "wait"}) /\ f.tls13_state = "read_server_hello"
  <2>1. DOMAIN d = Fields
    BY <1>5 DEF Flight, Same
  <2>2. Same(d, f, {"tls13_state", "wait"})
    BY <2>1, Zenon DEF Same, To13, Wait
  <2>3. f.tls13_state = "read_server_hello"
    BY <2>1, SMT DEF To13, Wait, Fields
  <2> QED BY <2>2, <2>3
<1> HIDE DEF f
<1>7. /\ f.total_renegotiations = e.total_renegotiations /\ f.version = e.version /\ f.cfg = e.cfg
      /\ f.transcript = d.transcript /\ f.state = "tls13"
  BY <1>5, <1>6 DEF Flight, Same, Fields, Written
<1>8. ClientOwn(f, g)
  <2>1. f.total_renegotiations = 0 /\ f.version = 13 /\ f.version = g.version
    BY <1>2, <1>7 DEF ClientOwn, ClientVersion
  <2>2. IsSeq(f.transcript) /\ Len(f.transcript) >= 1
    BY <1>2, <1>5, <1>7, LongerTranscript
  <2> QED BY <1>6, <1>7, <2>1, <2>2, ClientHelloing
<1>9. /\ \A x : Sends(f, x) => Sends(e, x) \/ x \in {ClientHello(e)}
      /\ \A x : Reads(f, x) => Reads(e, x)
  <2>1. {"tls13_state", "wait"} \cap Buffered = {}
    BY DEF Buffered
  <2> QED BY <1>5, <1>6, <2>1, FlightEnd
<1>11. Offers(ClientHello(e), e.cfg.versions)
  BY <1>2, HelloOffers
<1>12. \A x : Sends(f, x) => Sends(e, x) \/ Offers(x, e.cfg.versions)
  BY <1>9, <1>11
<1> QED BY <1>1, <1>7, <1>8, <1>9, <1>12 DEF ClientStep

\* do_read_server_hello.
LEMMA C13ReadServerHelloStep ==
    ASSUME NEW e, NEW g, ClientTurn(e, g), e.state = "tls13", e.tls13_state = "read_server_hello"
    PROVE  ClientStep(e, C13!do_read_server_hello(e), g)
<1> DEFINE m == Message(e)
           f == HashMessage([e EXCEPT !.session_reused = m.reused, !.peer = IF m.reused THEN "server" ELSE @])
           b == [f EXCEPT !.secret = [psk |-> m.reused, dhe |-> m.key_share, transcript |-> f.transcript]]
           h == SetWriteKey(b, C13!hs(b, "client"))
           r == To13(NextMessage([h EXCEPT !.read_key = C13!hs(h, "server")]), "read_encrypted_extensions")
           then == IF m.key_share # e.key_share \/ (m.reused /\ ClientHello(e).session # 13)
                   THEN Alert(e, "illegal_parameter")
                   ELSE IF Excess(h) THEN Alert(h, "unexpected_message") ELSE r
<1>1. C13!do_read_server_hello(e) = Expect(e, "server_hello", then)
  BY Zenon DEF C13!do_read_server_hello, Message, HashMessage, SetWriteKey,
       FlushPendingHsData, Records, Record, To13, NextMessage, Units, ClientHello, Alert,
       FlushFlight, Error, HasMessage, Excess, Expect, Wait, SetReadKey, C13!Message,
       C13!HashMessage, C13!SetWriteKey, C13!FlushPendingHsData, C13!Records, C13!Record, C13!To13,
       C13!NextMessage, C13!Units, C13!ClientHello, C13!Alert, C13!FlushFlight, C13!Error,
       C13!HasMessage, C13!Excess, C13!Expect, C13!Wait, C13!SetReadKey
<1>2. /\ Good(e, g) /\ Lists(e) /\ DOMAIN e = Fields /\ ClientOwn(e, g) /\ e.established = "none"
      /\ IsSeq(e.transcript) /\ Len(e.transcript) \in Nat
      /\ e.version \in {0, 12, 13} /\ e.session_reused \in BOOLEAN
  BY ClientFacts
<1>3. e.version = 13 /\ e.total_renegotiations = 0 /\ Len(e.transcript) >= 1 /\ e.version = g.version
  BY <1>2 DEF ClientOwn, ClientVersion, ClientTranscript
<1>4. ASSUME HasMessage(e), m.type = "server_hello"
      PROVE  Decided(g) /\ m.reused = g.session_reused
  <2>1. Reads(e, m)
    BY <1>2, <1>4, ReadsMessage
  <2>2. Told(m, g)
    BY <2>1 DEF ClientTurn
  <2> HIDE DEF m
  <2> QED BY <1>4, <2>2 DEF Told
<1>5. Same(e, f, {"session_reused", "peer", "transcript"}) /\ f.session_reused = m.reused
      /\ f.transcript = Append(e.transcript, m)
  <2>1. Same(e, f, {"session_reused", "peer", "transcript"})
    BY <1>2, Zenon DEF Same, HashMessage
  <2>2. f.session_reused = m.reused
    BY <1>2, SMT DEF HashMessage, Fields
  <2>3. f.transcript = Append(e.transcript, m)
    BY <1>2, SMT DEF HashMessage, Message, Fields, m
  <2> QED BY <2>1, <2>2, <2>3
<1> HIDE DEF f, m
<1>6. Same(f, b, {"secret"})
  <2>1. DOMAIN f = Fields
    BY <1>5 DEF Same
  <2> QED BY <2>1, Zenon DEF Same
<1>7. Same(e, b, {"session_reused", "peer", "transcript", "secret"})
  BY <1>5, <1>6 DEF Same
<1> HIDE DEF b
<1>8. Lists(b)
  <2>1. {"session_reused", "peer", "transcript", "secret"} \cap Buffered = {}
    BY DEF Buffered
  <2> QED BY <1>2, <1>7, <2>1, SameLists
<1>9. \A x : Sends(b, x) = Sends(e, x)
  BY <1>7, SameBuffers
<1>10. /\ Same(b, h, {"pending_flight", "pending_hs_data", "write_key"}) /\ Lists(h)
       /\ \A x : Sends(h, x) => Sends(b, x)
  BY <1>8, SendsSetWriteKey
<1> HIDE DEF h
<1>11. Same(e, h, {"session_reused", "peer", "transcript", "secret", "pending_flight", "pending_hs_data", "write_key"})
  BY <1>7, <1>10 DEF Same
<1>12. \A x : Reads(h, x) = Reads(e, x)
  BY <1>11, SameBuffers
<1>13. /\ h.state = "tls13" /\ h.version = 13 /\ h.total_renegotiations = 0 /\ h.cfg = e.cfg
       /\ h.tls13_state = "read_server_hello" /\ h.hs_buf = e.hs_buf /\ DOMAIN h = Fields
  BY <1>3, <1>11 DEF Same, Fields
<1>14. h.session_reused = m.reused /\ h.transcript = Append(e.transcript, m)
  BY <1>5, <1>6, <1>10 DEF Same, Fields
<1>15. IsSeq(h.transcript) /\ Len(h.transcript) >= 1
  BY <1>2, <1>14, LongerTranscript
<1>16. ClientOwn(h, g)
  BY <1>3, <1>13, <1>15, ClientHelloing
<1>17. ClientStep(e, h, g)
  BY <1>9, <1>10, <1>12, <1>13, <1>16 DEF ClientStep
<1>18. Same(h, r, {"read_key", "hs_buf", "tls13_state"}) /\ r.hs_buf = NextMessage(h).hs_buf
       /\ r.tls13_state = "read_encrypted_extensions"
  <2>1. Same(h, r, {"read_key", "hs_buf", "tls13_state"})
    BY <1>13, Zenon DEF Same, To13, NextMessage
  <2> DEFINE k == [h EXCEPT !.read_key = C13!hs(h, "server")]
  <2>2. k.hs_buf = h.hs_buf /\ DOMAIN k = Fields
    BY <1>13 DEF Fields
  <2>3. r = To13(NextMessage(k), "read_encrypted_extensions")
    OBVIOUS
  <2> HIDE DEF k, r
  <2>4. Message(k) = Message(h)
    BY <2>2 DEF Message
  <2>5. NextMessage(k).hs_buf = SubSeq(k.hs_buf, Len(Units(Message(k))) + 1, Len(k.hs_buf)) /\ DOMAIN NextMessage(k) = Fields
    BY <2>2, Zenon DEF NextMessage, Fields
  <2>6. NextMessage(h).hs_buf = SubSeq(h.hs_buf, Len(Units(Message(h))) + 1, Len(h.hs_buf))
    BY <1>13, Zenon DEF NextMessage, Fields
  <2>7. NextMessage(k).hs_buf = NextMessage(h).hs_buf
    BY <2>2, <2>4, <2>5, <2>6
  <2> DEFINE n == NextMessage(k)
  <2> HIDE DEF n
  <2>8. r.hs_buf = n.hs_buf /\ r.tls13_state = "read_encrypted_extensions"
    <3>1. r = To13(n, "read_encrypted_extensions") /\ DOMAIN n = Fields
      BY <2>3, <2>5 DEF n
    <3> QED BY <3>1, SMT DEF To13, Fields
  <2> QED BY <2>1, <2>7, <2>8 DEF n
<1> HIDE DEF r
<1>19. /\ r.state = "tls13" /\ r.version = 13 /\ r.total_renegotiations = 0 /\ r.cfg = e.cfg
       /\ r.session_reused = m.reused /\ r.transcript = h.transcript
  BY <1>13, <1>14, <1>18 DEF Same, Fields
<1>20. ASSUME HasMessage(e), m.type = "server_hello" PROVE ClientStep(e, r, g)
  <2>1. HasMessage(h)
    BY <1>13, <1>20 DEF HasMessage
  <2>2. {"read_key", "hs_buf", "tls13_state"} \cap Buffered \subseteq {"hs_buf"}
    BY DEF Buffered
  <2>3. (\A x : Sends(r, x) => Sends(h, x)) /\ (\A x : Reads(r, x) => Reads(h, x))
    BY <1>10, <1>18, <2>1, <2>2, TakenFrom
  <2>4. Decided(g) /\ m.reused = g.session_reused
    BY <1>4, <1>20
  <2>5. ClientVersion(r, g)
    BY <1>3, <1>18, <1>19, <2>4, SMT DEF ClientVersion, Shown12, Asked12, ClientEnd
  <2>6. ClientTranscript(r)
    BY <1>15, <1>19, SMT DEF ClientTranscript, Shown12, ClientEnd
  <2>7. ClientSecrets(r, g)
    BY <1>18, <1>19, SMT DEF ClientSecrets, Confirmed, At, ClientEnd, Confirmed13
  <2>8. ClientKeys(r)
    BY <1>18, <1>19, SMT DEF ClientKeys, At, ClientEnd
  <2>9. ClientOwn(r, g)
    BY <2>5, <2>6, <2>7, <2>8 DEF ClientOwn
  <2> QED BY <1>17, <1>19, <2>3, <2>9 DEF ClientStep
<1>21. ClientStep(e, Alert(e, "illegal_parameter"), g) /\ ClientStep(e, Alert(h, "unexpected_message"), g)
  BY <1>10, <1>17, ClientStepEnds, ClientStepAlert
<1>22. ASSUME HasMessage(e), m.type = "server_hello" PROVE ClientStep(e, then, g)
  BY <1>20, <1>21, <1>22
<1>23. HasMessage(e) /\ Message(e).type = "server_hello" => ClientStep(e, then, g)
  BY <1>22 DEF m
<1> HIDE DEF then
<1> QED BY <1>1, <1>2, <1>23, ExpectCases, ClientStepNone

\* do_read_server_finished.
LEMMA C13ReadServerFinishedStep ==
    ASSUME NEW e, NEW g, ClientTurn(e, g), e.state = "tls13", e.tls13_state = "read_server_finished"
    PROVE  ClientStep(e, C13!do_read_server_finished(e), g)
<1> DEFINE a == HashMessage(e)
           h == [a EXCEPT !.app = [e.secret EXCEPT !.transcript = a.transcript]]
           f == To13(NextMessage(h), "send_client_certificate")
           then == IF Message(e) # Finished("server", e) THEN Alert(e, "decrypt_error")
                   ELSE IF Excess(h) THEN Alert(h, "unexpected_message") ELSE f
<1>1. C13!do_read_server_finished(e) = Expect(e, "finished", then)
  BY Zenon DEF C13!do_read_server_finished, HashMessage, Message, To13, NextMessage, Units,
       Finished, Alert, FlushFlight, FlushPendingHsData, Records, Record, Error, HasMessage,
       Excess, Expect, Wait, C13!HashMessage, C13!Message, C13!To13, C13!NextMessage, C13!Units,
       C13!Finished, C13!Alert, C13!FlushFlight, C13!FlushPendingHsData, C13!Records, C13!Record,
       C13!Error, C13!HasMessage, C13!Excess, C13!Expect, C13!Wait
<1>2. /\ Good(e, g) /\ Lists(e) /\ DOMAIN e = Fields /\ ClientOwn(e, g) /\ e.established = "none"
      /\ IsSeq(e.transcript) /\ Len(e.transcript) \in Nat
      /\ e.version \in {0, 12, 13} /\ e.session_reused \in BOOLEAN
  BY ClientFacts
<1>3. e.version = 13 /\ e.total_renegotiations = 0 /\ Len(e.transcript) >= 1 /\ e.version = g.version
      /\ Decided(g) /\ e.session_reused = g.session_reused
  BY <1>2, SMT DEF ClientOwn, ClientVersion, ClientTranscript, At, Shown13
<1> DEFINE m == Message(e)
           s == [e.secret EXCEPT !.transcript = Append(e.transcript, m)]
<1>4. ASSUME HasMessage(e), m = Finished("server", e) PROVE Sealed(g) /\ g.app = s
  <2>1. Reads(e, m)
    BY <1>2, <1>4, ReadsMessage
  <2>2. Told(m, g)
    BY <2>1 DEF ClientTurn
  <2>3. m.type = "finished" /\ m.secret = e.secret /\ m.over = e.transcript
    BY <1>4 DEF Finished
  <2> HIDE DEF m
  <2>4. Sealed(g) /\ g.app = [m.secret EXCEPT !.transcript = Append(m.over, m)]
    BY <1>3, <2>2, <2>3 DEF Told
  <2> QED BY <2>3, <2>4
<1>5. Same(e, a, {"transcript"}) /\ a.transcript = Append(e.transcript, m)
  <2>1. Same(e, a, {"transcript"})
    BY <1>2, Zenon DEF Same, HashMessage
  <2>2. a.transcript = Append(e.transcript, m)
    BY <1>2, SMT DEF HashMessage, Message, Fields
  <2> QED BY <2>1, <2>2
<1>6. Same(a, h, {"app"}) /\ h.app = s
  <2>1. DOMAIN a = Fields
    BY <1>5 DEF Same
  <2> HIDE DEF a, s
  <2>2. Same(a, h, {"app"})
    BY <2>1, Zenon DEF Same
  <2>3. h.app = [e.secret EXCEPT !.transcript = a.transcript]
    BY <2>1, SMT DEF Fields
  <2>4. h.app = s
    BY <1>5, <2>3 DEF s
  <2> QED BY <2>2, <2>4
<1> HIDE DEF a, m, s
<1>7. Same(e, h, {"transcript", "app"})
  BY <1>5, <1>6 DEF Same
<1>8. /\ h.state = "tls13" /\ h.version = 13 /\ h.total_renegotiations = 0 /\ h.cfg = e.cfg
      /\ h.tls13_state = "read_server_finished" /\ h.hs_buf = e.hs_buf /\ DOMAIN h = Fields
      /\ h.session_reused = e.session_reused /\ h.transcript = Append(e.transcript, m)
  BY <1>3, <1>5, <1>6, <1>7 DEF Same, Fields
<1> HIDE DEF h
<1>9. Same(h, f, {"hs_buf", "tls13_state"}) /\ f.hs_buf = NextMessage(h).hs_buf
      /\ f.tls13_state = "send_client_certificate"
  <2>1. Same(h, f, {"hs_buf", "tls13_state"})
    BY <1>8, Zenon DEF Same, To13, NextMessage
  <2>2. f.hs_buf = NextMessage(h).hs_buf /\ f.tls13_state = "send_client_certificate"
    BY <1>8, SMT DEF To13, NextMessage, Fields
  <2> QED BY <2>1, <2>2
<1> HIDE DEF f
<1>10. /\ f.state = "tls13" /\ f.version = 13 /\ f.total_renegotiations = 0 /\ f.cfg = e.cfg
       /\ f.session_reused = e.session_reused /\ f.transcript = h.transcript /\ f.app = s
  BY <1>6, <1>8, <1>9 DEF Same, Fields
<1>11. IsSeq(h.transcript) /\ Len(h.transcript) >= 1
  BY <1>2, <1>8, LongerTranscript
<1>12. Lists(h)
  <2>1. {"transcript", "app"} \cap Buffered = {}
    BY DEF Buffered
  <2> QED BY <1>2, <1>7, <2>1, SameLists
<1>13. \A x : Sends(h, x) = Sends(e, x) /\ Reads(h, x) = Reads(e, x)
  BY <1>7, SameBuffers
<1>14. ClientOwn(h, g)
  <2>1. ClientVersion(h, g)
    BY <1>3, <1>8, SMT DEF ClientVersion, Shown12, Asked12, ClientEnd
  <2>2. ClientTranscript(h)
    BY <1>8, <1>11, SMT DEF ClientTranscript, Shown12, ClientEnd
  <2>3. ClientSecrets(h, g)
    BY <1>8, SMT DEF ClientSecrets, Confirmed, At, ClientEnd, Confirmed13
  <2>4. ClientKeys(h)
    BY <1>8, SMT DEF ClientKeys, At, ClientEnd
  <2> QED BY <2>1, <2>2, <2>3, <2>4 DEF ClientOwn
<1>15. ClientStep(e, h, g)
  BY <1>8, <1>13, <1>14 DEF ClientStep
<1>16. ASSUME HasMessage(e), m = Finished("server", e) PROVE ClientStep(e, f, g)
  <2>1. HasMessage(h)
    BY <1>8, <1>16 DEF HasMessage
  <2>2. {"hs_buf", "tls13_state"} \cap Buffered \subseteq {"hs_buf"}
    BY DEF Buffered
  <2>3. (\A x : Sends(f, x) => Sends(h, x)) /\ (\A x : Reads(f, x) => Reads(h, x))
    BY <1>9, <1>12, <2>1, <2>2, TakenFrom
  <2>4. Sealed(g) /\ g.app = s
    BY <1>4, <1>16
  <2>5. ClientVersion(f, g)
    BY <1>3, <1>9, <1>10, SMT DEF ClientVersion, Shown12, Asked12, ClientEnd
  <2>6. ClientTranscript(f)
    BY <1>10, <1>11, SMT DEF ClientTranscript, Shown12, ClientEnd
  <2>7. ClientSecrets(f, g)
    BY <1>9, <1>10, <2>4, SMT DEF ClientSecrets
  <2>8. ClientKeys(f)
    BY <1>9, <1>10, SMT DEF ClientKeys, At, ClientEnd
  <2>9. ClientOwn(f, g)
    BY <2>5, <2>6, <2>7, <2>8 DEF ClientOwn
  <2> QED BY <1>10, <1>13, <2>3, <2>9 DEF ClientStep
<1>17. ClientStep(e, Alert(e, "decrypt_error"), g) /\ ClientStep(e, Alert(h, "unexpected_message"), g)
  BY <1>12, <1>15, ClientStepEnds, ClientStepAlert
<1>18. ASSUME HasMessage(e) PROVE ClientStep(e, then, g)
  BY <1>16, <1>17, <1>18 DEF m
<1> HIDE DEF then
<1> QED BY <1>1, <1>2, <1>18, ExpectCases, ClientStepNone

\* do_complete_second_flight.
LEMMA C13CompleteSecondFlightStep ==
    ASSUME NEW e, NEW g, ClientTurn(e, g), e.state = "tls13", e.tls13_state = "complete_second_flight"
    PROVE  ClientStep(e, C13!do_complete_second_flight(e), g)
<1> DEFINE a == AddMessage(e, Finished("client", e))
           d == SetWriteKey(a, Key("application", "client", a.app))
           f == [Wait(To13(d, "done"), "flush") EXCEPT !.read_key = Key("application", "server", d.app)]
<1>1. C13!do_complete_second_flight(e) = IF d.hs_buf # <<>> THEN Alert(d, "unexpected_message") ELSE f
  <2> DEFINE aa == C13!AddMessage(e, C13!Finished("client", e))
             dd == C13!SetWriteKey(aa, C13!Key("application", "client", aa.app))
             ff == [C13!Wait(C13!To13(dd, "done"), "flush")
                      EXCEPT !.read_key = C13!Key("application", "server", dd.app)]
  <2>1. C13!do_complete_second_flight(e)
            = IF dd.hs_buf # <<>> THEN C13!Alert(dd, "unexpected_message") ELSE ff
    BY Zenon DEF C13!do_complete_second_flight, C13!SetReadKey
  <2>2. aa = a
    BY C13AddMessage, Zenon DEF Finished, C13!Finished
  <2> HIDE DEF aa, a
  <2>3. dd = d
    BY <2>2, C13SetWriteKey, Zenon DEF Key, C13!Key
  <2> HIDE DEF dd, d
  <2>4. ff = f
    BY <2>3, Zenon DEF Wait, To13, Key, C13!Wait, C13!To13, C13!Key
  <2> HIDE DEF ff, f
  <2>5. C13!Alert(d, "unexpected_message") = Alert(d, "unexpected_message")
    BY C13Alert
  <2> QED BY <2>1, <2>3, <2>4, <2>5
<1>2. /\ Good(e, g) /\ Lists(e) /\ DOMAIN e = Fields /\ ClientOwn(e, g) /\ e.established = "none"
      /\ IsSeq(e.transcript) /\ Len(e.transcript) \in Nat
      /\ e.version \in {0, 12, 13} /\ e.session_reused \in BOOLEAN
  BY ClientFacts
<1> DEFINE m == Finished("client", e)
<1>3. /\ e.version = 13 /\ e.total_renegotiations = 0 /\ Len(e.transcript) >= 1 /\ e.version = g.version
      /\ Decided(g) /\ e.session_reused = g.session_reused /\ Sealed(g) /\ e.app = g.app
  <2>1. Confirmed(e)
    BY SMT DEF Confirmed, At, Confirmed13
  <2> QED BY <1>2, <2>1, SMT DEF ClientOwn, ClientVersion, ClientTranscript, ClientSecrets, At,
             Shown13, Confirmed13
<1>4. Offers(m, e.cfg.versions)
  BY DEF Offers, Finished
<1>5. Flight(e, a, {m}) /\ a.transcript = Append(e.transcript, m)
  BY <1>2, FlightOne
<1> HIDE DEF a, m
<1>6. a.app = e.app
  BY <1>5 DEF Flight, Same, Fields, Written
<1>7. Flight(e, d, {m}) /\ d.transcript = a.transcript /\ d.write_key = Key("application", "client", a.app)
  BY <1>5, FlightKey
<1> HIDE DEF d
<1>8. /\ d.state = "tls13" /\ d.version = 13 /\ d.total_renegotiations = 0 /\ d.cfg = e.cfg /\ d.app = e.app
      /\ d.tls13_state = "complete_second_flight" /\ DOMAIN d = Fields /\ Lists(d)
      /\ d.session_reused = e.session_reused /\ d.transcript = Append(e.transcript, m)
  BY <1>3, <1>5, <1>7 DEF Flight, Same, Fields, Written
<1>9. IsSeq(d.transcript) /\ Len(d.transcript) >= 1
  BY <1>2, <1>8, LongerTranscript
<1>10. Same(d, f, {"read_key", "wait", "tls13_state"}) /\ f.tls13_state = "done"
       /\ f.read_key = Key("application", "server", d.app)
  <2>1. Same(d, f, {"read_key", "wait", "tls13_state"})
    BY <1>8, Zenon DEF Same, Wait, To13
  <2>2. f.tls13_state = "done" /\ f.read_key = Key("application", "server", d.app)
    BY <1>8, SMT DEF Wait, To13, Fields
  <2> QED BY <2>1, <2>2
<1> HIDE DEF f
<1>11. /\ f.state = "tls13" /\ f.version = 13 /\ f.total_renegotiations = 0 /\ f.cfg = e.cfg /\ f.app = e.app
       /\ f.session_reused = e.session_reused /\ f.transcript = d.transcript
       /\ f.write_key = Key("application", "client", e.app) /\ f.read_key = Key("application", "server", e.app)
  BY <1>6, <1>7, <1>8, <1>10 DEF Same, Fields
<1>12. /\ \A x : Sends(f, x) => Sends(e, x) \/ x \in {m}
       /\ \A x : Reads(f, x) => Reads(e, x)
  <2>1. {"read_key", "wait", "tls13_state"} \cap Buffered = {}
    BY DEF Buffered
  <2> QED BY <1>7, <1>10, <2>1, FlightEnd
<1>13. /\ \A x : Sends(d, x) => Sends(e, x) \/ x \in {m}
       /\ \A x : Reads(d, x) => Reads(e, x)
  <2>1. {} \cap Buffered = {} /\ Same(d, d, {})
    BY <1>8 DEF Same
  <2> QED BY <1>7, <2>1, FlightEnd
<1>14. Derived(f.write_key, App(f, "client")) /\ Derived(f.read_key, App(f, "server"))
  BY <1>11 DEF Derived, App, Key, KeyFields, SameSecret
<1>15. ASSUME NEW h, h \in {d, f} PROVE ClientOwn(h, g)
  <2>1. /\ h.state = "tls13" /\ h.version = 13 /\ h.total_renegotiations = 0 /\ h.app = e.app
        /\ h.session_reused = e.session_reused /\ h.transcript = d.transcript
    BY <1>8, <1>11, <1>15
  <2>2. ClientVersion(h, g)
    BY <1>3, <2>1, SMT DEF ClientVersion, Shown12, Asked12, ClientEnd
  <2>3. ClientTranscript(h)
    BY <1>9, <2>1, SMT DEF ClientTranscript, Shown12, ClientEnd
  <2>4. ClientSecrets(h, g)
    BY <1>3, <2>1, SMT DEF ClientSecrets
  <2>5. ClientKeys(h)
    <3>1. CASE h = d
      BY <1>8, <3>1, SMT DEF ClientKeys, At, ClientEnd
    <3>2. CASE h = f
      BY <1>11, <1>14, <3>2, SMT DEF ClientKeys
    <3> QED BY <1>15, <3>1, <3>2
  <2> QED BY <2>2, <2>3, <2>4, <2>5 DEF ClientOwn
<1>16. ClientStep(e, f, g) /\ ClientStep(e, d, g)
  BY <1>4, <1>8, <1>11, <1>12, <1>13, <1>15 DEF ClientStep
<1>17. ClientStep(e, Alert(d, "unexpected_message"), g)
  BY <1>8, <1>16, ClientStepAlert
<1> QED BY <1>1, <1>16, <1>17

-----------------------------------------------------------------------------
(***************************************************************************)
(* The server's steps.                                                     *)
(***************************************************************************)
\* A server s whose client is c, and the ClientHellos it reads are that client's.
ServerTurn(s, c) == /\ Good(s, c) /\ s.side = "server" /\ ServerOwn(s, c.cfg.versions)
                    /\ \A m : Reads(s, m) => Offers(m, c.cfg.versions)

\* A step to t, to whom V was offered: what is settled stays so, and what it
\* tells is so.
ServerStep(s, t, V) ==
    /\ ServerOwn(t, V) /\ Fixed(s, t)
    /\ \A m : Sends(t, m) => Sends(s, m) \/ Told(m, t)
    /\ \A m : Reads(t, m) => Reads(s, m)

\* What is settled stays so.
LEMMA FixedItself == ASSUME NEW s PROVE Fixed(s, s)
BY DEF Fixed

\* What is settled after two steps.
LEMMA FixedTrans == ASSUME NEW s, NEW t, NEW u, Fixed(s, t), Fixed(t, u) PROVE Fixed(s, u)
<1>1. /\ u.total_renegotiations = s.total_renegotiations /\ u.cfg = s.cfg
      /\ s.version # 0 => u.version = s.version
      /\ Decided(s) => Decided(u) /\ u.session_reused = s.session_reused
  BY DEF Fixed
<1>2. Sealed(s) => Sealed(u) /\ u.secret = s.secret /\ u.app = s.app
  BY DEF Fixed
<1>3. Sealed(s) /\ s.version = 12 => Hellos(u) = Hellos(s)
  BY DEF Fixed
<1> QED BY <1>1, <1>2, <1>3 DEF Fixed

\* It may stay there, ...
LEMMA ServerStepStays ==
    ASSUME NEW s, NEW d, NEW f, NEW V, ServerStep(s, d, V), Stays(d, f)
    PROVE  ServerStep(s, f, V)
<1>1. ServerOwn(f, V) /\ Fixed(d, f)
  BY ServerStays DEF ServerStep
<1>2. Keeps(d, f)
  BY DEF Stays
<1>3. Fixed(s, f)
  BY <1>1, FixedTrans DEF ServerStep
<1>4. \A m : Sends(f, m) => Sends(s, m) \/ Told(m, f)
  <2> SUFFICES ASSUME NEW m, Sends(f, m) PROVE Sends(s, m) \/ Told(m, f)
    OBVIOUS
  <2>1. Sends(d, m) \/ Plain(m)
    BY <1>2 DEF Keeps
  <2>2. Sends(d, m) => Sends(s, m) \/ Told(m, d)
    BY DEF ServerStep
  <2> QED BY <1>1, <2>1, <2>2, FixedTold, PlainTold
<1>5. \A m : Reads(f, m) => Reads(s, m)
  BY <1>2 DEF ServerStep, Keeps
<1> QED BY <1>1, <1>3, <1>4, <1>5 DEF ServerStep

\* A server that stays takes a step.
LEMMA ServerStepNone ==
    ASSUME NEW s, NEW f, NEW c, ServerTurn(s, c), Stays(s, f)
    PROVE  ServerStep(s, f, c.cfg.versions)
<1>1. ServerStep(s, s, c.cfg.versions)
  BY FixedItself DEF ServerStep, ServerTurn
<1> QED BY <1>1, ServerStepStays

\* ... or move on.
LEMMA ServerStepMoves ==
    ASSUME NEW s, NEW f, NEW c, ServerTurn(s, c), Keeps(s, f), ServerMoves(s, f)
    PROVE  ServerStep(s, f, c.cfg.versions)
<1>1. ServerOwn(f, c.cfg.versions) /\ Fixed(s, f)
  BY ServerMovesOn DEF ServerTurn, Good, Typed
<1>2. \A m : Sends(f, m) => Sends(s, m) \/ Told(m, f)
  BY PlainTold, Zenon DEF Keeps
<1>3. \A m : Reads(f, m) => Reads(s, m)
  BY DEF Keeps
<1> QED BY <1>1, <1>2, <1>3 DEF ServerStep

\* What is known of a server whose turn it is.
LEMMA ServerFacts ==
    ASSUME NEW s, NEW c, ServerTurn(s, c)
    PROVE  /\ Good(s, c) /\ Lists(s) /\ DOMAIN s = Fields /\ ServerOwn(s, c.cfg.versions)
           /\ IsSeq(s.transcript) /\ Len(s.transcript) \in Nat /\ s.side = "server"
           /\ s.version \in {0, 12, 13} /\ s.session_reused \in BOOLEAN
           /\ s.cfg.versions \in SUBSET {12, 13}
<1>1. Lists(s)
  BY GoodLists DEF ServerTurn
<1>2. IsSeq(s.transcript)
  BY DEF ServerTurn, ServerOwn, ServerTranscript
<1>3. s.cfg.versions \in SUBSET {12, 13}
  BY DEF ServerTurn, Good, Typed, Config
<1> QED BY <1>1, <1>2, <1>3, SeqLen DEF ServerTurn, Good, Typed, Lists

\* Waiting and failing are steps.
LEMMA ServerStepEnds ==
    ASSUME NEW s, NEW c, ServerTurn(s, c), NEW why
    PROVE  /\ ServerStep(s, Wait(s, why), c.cfg.versions) /\ ServerStep(s, Error(s, why), c.cfg.versions)
           /\ ServerStep(s, Alert(s, why), c.cfg.versions)
           /\ ServerStep(s, Alert(HashMessage(s), why), c.cfg.versions)
<1>1. Lists(s) /\ DOMAIN s = Fields
  BY ServerFacts
<1>2. Stays(s, Wait(s, why)) /\ Stays(s, Error(s, why)) /\ Stays(s, Alert(s, why)) /\ Stays(s, Alert(HashMessage(s), why))
  BY <1>1, StaysWait, StaysError, StaysAlert, StaysHashAlert
<1> QED BY <1>2, ServerStepNone

\* What a server of TLS 1.3 owes.
LEMMA ServerOwn13 ==
    ASSUME NEW t, NEW V, t.state = "tls13", t.version = 13, IsSeq(t.transcript),
           \A v \in V \cap t.cfg.versions : v <= 13,
           Sealed(t) => Derived(t.write_key, App(t, "server")),
           t.tls13_state \in {"send_new_session_ticket", "done"} => Derived(t.read_key, App(t, "client"))
    PROVE  ServerOwn(t, V)
<1>1. ServerVersion(t, V)
  BY SMT DEF ServerVersion, ServerEnd, Decided12, Full12
<1>2. ServerTranscript(t)
  BY SMT DEF ServerTranscript, ServerEnd, Decided12
<1>3. ServerKeys(t)
  BY SMT DEF ServerKeys, At
<1> QED BY <1>1, <1>2, <1>3 DEF ServerOwn

\* A message that is taken.
LEMMA TakeFields ==
    ASSUME NEW e, DOMAIN e = Fields
    PROVE  /\ Take(e).hs_buf = NextMessage(e).hs_buf /\ Take(e).transcript = Append(e.transcript, Message(e))
           /\ DOMAIN Take(e) = Fields /\ Same(e, Take(e), {"transcript", "hs_buf"})
<1>1. Take(e).hs_buf = NextMessage(e).hs_buf /\ Take(e).transcript = Append(e.transcript, Message(e))
  BY SMT DEF Take, NextMessage, HashMessage, Message, Fields
<1>2. Same(e, Take(e), {"transcript", "hs_buf"})
  BY Zenon DEF Same, Take, NextMessage, HashMessage
<1> QED BY <1>1, <1>2 DEF Same

\* The version negotiated is the highest.
LEMMA NegotiatedVersionHighest ==
    ASSUME NEW e, NEW m, e.cfg.versions \in SUBSET {12, 13}
    PROVE  LET v == S12!NegotiatedVersion(m, e)
           IN  v # 0 => v \in {12, 13} /\ \A w \in m.versions \cap e.cfg.versions : w <= v
<1> DEFINE common == m.versions \cap e.cfg.versions
           highest == CHOOSE v \in common : \A w \in common : w <= v
<1>1. S12!NegotiatedVersion(m, e) = IF common = {} THEN 0 ELSE highest
  BY Zenon DEF S12!NegotiatedVersion
<1>2. common \in SUBSET {12, 13}
  OBVIOUS
<1>3. ASSUME common # {} PROVE highest \in common /\ \A w \in common : w <= highest
  <2> HIDE DEF common
  <2>1. \E v \in common : \A w \in common : w <= v
    <3>1. CASE 13 \in common
      <4>1. \A w \in common : w <= 13
        BY <1>2
      <4> QED BY <3>1, <4>1
    <3>2. CASE 13 \notin common
      <4>1. PICK v \in common : TRUE
        BY <1>3
      <4>2. \A w \in common : w = 12
        BY <1>2, <3>2
      <4> QED BY <4>1, <4>2
    <3> QED BY <3>1, <3>2
  <2> QED BY <2>1
<1> HIDE DEF highest
<1> QED BY <1>1, <1>2, <1>3

\* do_read_client_hello_after_ech.
LEMMA S12ReadClientHelloAfterEchStep ==
    ASSUME NEW e, NEW g, ServerTurn(e, g), e.state = "read_client_hello_after_ech"
    PROVE  ServerStep(e, S12!do_read_client_hello_after_ech(e), g.cfg.versions)
<1> DEFINE v == S12!NegotiatedVersion(Message(e), e)
           f == To([e EXCEPT !.version = v], "select_certificate")
<1>1. S12!do_read_client_hello_after_ech(e) = IF v = 0 THEN Alert(e, "protocol_version") ELSE f
  BY Zenon DEF S12!do_read_client_hello_after_ech, Message, To, Alert, FlushFlight,
       FlushPendingHsData, Records, Record, Error, HasMessage, Units, S12!Message, S12!To,
       S12!Alert, S12!FlushFlight, S12!FlushPendingHsData, S12!Records, S12!Record, S12!Error,
       S12!HasMessage, S12!Units
<1>2. /\ Good(e, g) /\ Lists(e) /\ DOMAIN e = Fields /\ ServerOwn(e, g.cfg.versions)
      /\ IsSeq(e.transcript) /\ Len(e.transcript) \in Nat /\ e.side = "server"
      /\ e.version \in {0, 12, 13} /\ e.session_reused \in BOOLEAN
      /\ e.cfg.versions \in SUBSET {12, 13}
  BY ServerFacts
<1> DEFINE m == Message(e)
<1>3. HelloHeld(e)
  BY <1>2 DEF HelloHeld, At
<1>4. m.versions = g.cfg.versions
  <2>1. HasMessage(e) /\ m.type = "client_hello"
    BY <1>2, <1>3, HeldHello
  <2>2. Reads(e, m)
    BY <1>2, <2>1, ReadsMessage
  <2>3. Offers(m, g.cfg.versions)
    BY <2>2 DEF ServerTurn
  <2> HIDE DEF m
  <2> QED BY <2>1, <2>3 DEF Offers
<1>5. v # 0 => v \in {12, 13} /\ \A w \in g.cfg.versions \cap e.cfg.versions : w <= v
  BY <1>2, <1>4, NegotiatedVersionHighest
<1> HIDE DEF v, m
<1>6. Same(e, f, {"version", "state"}) /\ f.version = v /\ f.state = "select_certificate"
  <2>1. Same(e, f, {"version", "state"})
    BY <1>2, Zenon DEF Same, To
  <2>2. f.version = v /\ f.state = "select_certificate"
    BY <1>2, SMT DEF To, Fields
  <2> QED BY <2>1, <2>2
<1> HIDE DEF f
<1>7. f.cfg = e.cfg /\ f.total_renegotiations = e.total_renegotiations /\ f.transcript = e.transcript
  BY <1>6 DEF Same, Fields
<1>8. e.version = 0
  BY <1>2 DEF ServerOwn, ServerVersion
<1>9. ASSUME v # 0 PROVE ServerOwn(f, g.cfg.versions)
  <2>1. ServerVersion(f, g.cfg.versions)
    BY <1>2, <1>5, <1>6, <1>7, <1>9, SMT DEF ServerOwn, ServerVersion, ServerEnd, Decided12, Full12
  <2>2. ServerTranscript(f)
    BY <1>2, <1>5, <1>6, <1>7, <1>9, SMT DEF ServerTranscript, ServerEnd, Decided12
  <2>3. ServerKeys(f)
    BY <1>2, <1>5, <1>6, <1>7, <1>9, SMT DEF ServerOwn, ServerKeys, At, ServerEnd, Decided12,
       Full12, Sealed, Sealed12
  <2> QED BY <2>1, <2>2, <2>3 DEF ServerOwn
<1>10. Fixed(e, f)
  BY <1>7, <1>8, SMT DEF Fixed, Decided, Sealed, At, Decided12, Decided13, Sealed12, Sealed13,
     ServerEnd
<1>11. \A x : Sends(f, x) = Sends(e, x) /\ Reads(f, x) = Reads(e, x)
  BY <1>6, SameBuffers
<1>12. v # 0 => ServerStep(e, f, g.cfg.versions)
  BY <1>9, <1>10, <1>11 DEF ServerStep
<1>13. ServerStep(e, Alert(e, "protocol_version"), g.cfg.versions)
  BY ServerStepEnds
<1> QED BY <1>1, <1>12, <1>13

\* do_select_certificate.
LEMMA S12SelectCertificateStep ==
    ASSUME NEW e, NEW g, ServerTurn(e, g), e.state = "select_certificate"
    PROVE  ServerStep(e, S12!do_select_certificate(e), g.cfg.versions)
<1> DEFINE h == To13(To(e, "tls13"), "select_session")
           f == To(e, "select_parameters")
<1>1. S12!do_select_certificate(e) = IF e.version = 13 THEN h
        ELSE IF ~e.cfg.cert \/ SharedGroup(Message(e).groups, e) = 0
        THEN Alert(e, "handshake_failure") ELSE f
  BY Zenon DEF S12!do_select_certificate, To13, To, SharedGroup, Message, Alert, FlushFlight,
       FlushPendingHsData, Records, Record, Error, HasMessage, Units, S12!To13, S12!To,
       S12!SharedGroup, S12!Message, S12!Alert, S12!FlushFlight, S12!FlushPendingHsData,
       S12!Records, S12!Record, S12!Error, S12!HasMessage, S12!Units
<1>2. /\ Good(e, g) /\ Lists(e) /\ DOMAIN e = Fields /\ ServerOwn(e, g.cfg.versions)
      /\ IsSeq(e.transcript) /\ Len(e.transcript) \in Nat /\ e.side = "server"
      /\ e.version \in {0, 12, 13} /\ e.session_reused \in BOOLEAN
      /\ e.cfg.versions \in SUBSET {12, 13}
  BY ServerFacts
<1>3. e.version # 0 /\ (\A v \in g.cfg.versions \cap e.cfg.versions : v <= e.version)
  BY <1>2 DEF ServerOwn, ServerVersion
<1>4. Same(e, h, {"state", "tls13_state"}) /\ h.state = "tls13" /\ h.tls13_state = "select_session"
  <2>1. Same(e, h, {"state", "tls13_state"})
    BY <1>2, Zenon DEF Same, To, To13
  <2>2. h.state = "tls13" /\ h.tls13_state = "select_session"
    BY <1>2, SMT DEF To, To13, Fields
  <2> QED BY <2>1, <2>2
<1>5. Same(e, f, {"state"}) /\ f.state = "select_parameters"
  <2>1. Same(e, f, {"state"})
    BY <1>2, Zenon DEF Same, To
  <2>2. f.state = "select_parameters"
    BY <1>2, SMT DEF To, Fields
  <2> QED BY <2>1, <2>2
<1> HIDE DEF f, h
<1>6. ASSUME NEW t, t \in {f, h}
      PROVE  /\ t.cfg = e.cfg /\ t.total_renegotiations = e.total_renegotiations /\ t.transcript = e.transcript
             /\ t.version = e.version
             /\ \A x : Sends(t, x) = Sends(e, x) /\ Reads(t, x) = Reads(e, x)
  <2>1. Same(e, t, {"state", "tls13_state"})
    BY <1>4, <1>5, <1>6 DEF Same
  <2>2. \A x : Sends(t, x) = Sends(e, x) /\ Reads(t, x) = Reads(e, x)
    BY <2>1, SameBuffers
  <2> QED BY <2>1, <2>2 DEF Same, Fields
<1>7. ASSUME NEW t, t \in {f, h} PROVE Fixed(e, t)
  BY <1>6, <1>7, SMT DEF Fixed, Decided, Sealed, At, Decided12, Sealed12, ServerEnd
<1>8. ASSUME e.version = 13 PROVE ServerOwn(h, g.cfg.versions)
  <2>1. ~Sealed(h)
    BY <1>4 DEF Sealed, At, Sealed13
  <2> QED BY <1>2, <1>3, <1>4, <1>6, <1>8, <2>1, ServerOwn13
<1>9. ASSUME e.version # 13 PROVE ServerOwn(f, g.cfg.versions)
  <2>0. e.version = 12 /\ f.version = 12 /\ f.cfg = e.cfg /\ f.transcript = e.transcript
    BY <1>2, <1>3, <1>6, <1>9
  <2>1. ServerVersion(f, g.cfg.versions)
    BY <1>2, <1>3, <1>5, <2>0, SMT DEF ServerOwn, ServerVersion, ServerEnd, Decided12, Full12
  <2>2. ServerTranscript(f)
    BY <1>2, <1>3, <1>5, <2>0, SMT DEF ServerTranscript, ServerEnd, Decided12
  <2>3. ServerKeys(f)
    BY <1>2, <1>3, <1>5, <2>0, SMT DEF ServerOwn, ServerKeys, At, ServerEnd, Decided12, Full12,
       Sealed, Sealed12
  <2> QED BY <2>1, <2>2, <2>3 DEF ServerOwn
<1>10. /\ e.version = 13 => ServerStep(e, h, g.cfg.versions)
       /\ e.version # 13 => ServerStep(e, f, g.cfg.versions)
  BY <1>6, <1>7, <1>8, <1>9 DEF ServerStep
<1>11. ServerStep(e, Alert(e, "handshake_failure"), g.cfg.versions)
  BY ServerStepEnds
<1> QED BY <1>1, <1>10, <1>11

\* do_select_parameters.
LEMMA S12SelectParametersStep ==
    ASSUME NEW e, NEW g, ServerTurn(e, g), e.state = "select_parameters"
    PROVE  ServerStep(e, S12!do_select_parameters(e), g.cfg.versions)
<1> DEFINE m == Message(e)
           reused == m.session = 12 /\ e.cfg.resumes
           request == ~reused /\ S12!Verifies(e)
           group == SharedGroup(m.groups, e)
           a == [e EXCEPT !.session_reused = reused, !.ticket_expected = e.cfg.tickets,
                        !.key_share = group, !.cert_request = request]
           b == [a EXCEPT !.secret = [psk |-> TRUE, dhe |-> 0, transcript |-> <<>>]]
           f == To(Take(IF reused THEN b ELSE a), "send_server_hello")
<1>1. S12!do_select_parameters(e) = Expect(e, "client_hello", f)
  BY Zenon DEF S12!do_select_parameters, Message, SharedGroup, To, Take, NextMessage, Units,
       HashMessage, Expect, HasMessage, Wait, Alert, FlushFlight, FlushPendingHsData, Records,
       Record, Error, S12!Message, S12!SharedGroup, S12!To, S12!Take, S12!NextMessage, S12!Units,
       S12!HashMessage, S12!Expect, S12!HasMessage, S12!Wait, S12!Alert, S12!FlushFlight,
       S12!FlushPendingHsData, S12!Records, S12!Record, S12!Error
<1>2. /\ Good(e, g) /\ Lists(e) /\ DOMAIN e = Fields /\ ServerOwn(e, g.cfg.versions)
      /\ IsSeq(e.transcript) /\ Len(e.transcript) \in Nat /\ e.side = "server"
      /\ e.version \in {0, 12, 13} /\ e.session_reused \in BOOLEAN
      /\ e.cfg.versions \in SUBSET {12, 13}
  BY ServerFacts
<1> DEFINE X == {"session_reused", "ticket_expected", "key_share", "cert_request", "secret", "transcript", "hs_buf", "state"}
           n == IF reused THEN b ELSE a
<1> HIDE DEF reused, request, group
<1>3. Same(e, n, {"session_reused", "ticket_expected", "key_share", "cert_request", "secret"})
  <2>1. Same(e, a, {"session_reused", "ticket_expected", "key_share", "cert_request"})
    BY <1>2, Zenon DEF Same
  <2> HIDE DEF a
  <2>2. Same(a, b, {"secret"})
    <3>1. DOMAIN a = Fields
      BY <2>1 DEF Same
    <3> QED BY <3>1, Zenon DEF Same
  <2> HIDE DEF b
  <2> QED BY <2>1, <2>2 DEF Same
<1>4. f = To(Take(n), "send_server_hello")
  OBVIOUS
<1> HIDE DEF n, f
<1>5. DOMAIN n = Fields /\ n.hs_buf = e.hs_buf /\ n.transcript = e.transcript
  BY <1>3 DEF Same, Fields
<1>6. Same(e, f, X) /\ f.state = "send_server_hello" /\ f.hs_buf = NextMessage(e).hs_buf
      /\ f.transcript = Append(e.transcript, m)
  <2>1. Same(n, f, {"transcript", "hs_buf", "state"})
    BY <1>4, <1>5, Zenon DEF Same, To, Take, NextMessage, HashMessage
  <2>2. Message(n) = Message(e)
    BY <1>5 DEF Message
  <2> DEFINE k == Take(n)
  <2>3. k.hs_buf = NextMessage(n).hs_buf /\ k.transcript = Append(n.transcript, Message(n)) /\ DOMAIN k = Fields
    BY <1>5, TakeFields
  <2> HIDE DEF k
  <2>4. f.state = "send_server_hello" /\ f.transcript = k.transcript /\ f.hs_buf = k.hs_buf
    <3>1. f = To(k, "send_server_hello")
      BY <1>4 DEF k
    <3> QED BY <2>3, <3>1, SMT DEF To, Fields
  <2>5. NextMessage(n).hs_buf = NextMessage(e).hs_buf
    BY <1>2, <1>5, <2>2, SMT DEF NextMessage, Fields
  <2> QED BY <1>3, <1>5, <2>1, <2>2, <2>3, <2>4, <2>5 DEF Same
<1> HIDE DEF m
<1>7. f.cfg = e.cfg /\ f.total_renegotiations = e.total_renegotiations /\ f.version = e.version
  BY <1>6 DEF Same, Fields
<1>8. e.version = 12 /\ (\A v \in g.cfg.versions \cap e.cfg.versions : v <= e.version)
  BY <1>2, SMT DEF ServerOwn, ServerVersion
<1>9. IsSeq(f.transcript) /\ Len(f.transcript) >= 1
  BY <1>2, <1>6, LongerTranscript
<1>10. ServerOwn(f, g.cfg.versions)
  <2>1. ServerVersion(f, g.cfg.versions)
    BY <1>2, <1>6, <1>7, <1>8, <1>9, SMT DEF ServerOwn, ServerVersion, ServerEnd, Decided12, Full12
  <2>2. ServerTranscript(f)
    BY <1>2, <1>6, <1>7, <1>8, <1>9, SMT DEF ServerTranscript, ServerEnd, Decided12
  <2>3. ServerKeys(f)
    BY <1>2, <1>6, <1>7, <1>8, <1>9, SMT DEF ServerOwn, ServerKeys, At, ServerEnd, Decided12,
       Full12, Sealed, Sealed12
  <2> QED BY <2>1, <2>2, <2>3 DEF ServerOwn
<1>11. Fixed(e, f)
  BY <1>7, <1>8, SMT DEF Fixed, Decided, Sealed, At, Decided12, Decided13, Sealed12, Sealed13,
     ServerEnd
<1>12. ASSUME HasMessage(e) PROVE ServerStep(e, f, g.cfg.versions)
  <2>1. X \cap Buffered \subseteq {"hs_buf"}
    BY DEF Buffered
  <2>2. (\A x : Sends(f, x) => Sends(e, x)) /\ (\A x : Reads(f, x) => Reads(e, x))
    <3> HIDE DEF X
    <3> QED BY <1>2, <1>6, <1>12, <2>1, TakenFrom
  <2> QED BY <1>10, <1>11, <2>2 DEF ServerStep
<1> QED BY <1>1, <1>2, <1>12, ExpectCases, ServerStepNone

\* do_send_server_hello.
LEMMA S12SendServerHelloStep ==
    ASSUME NEW e, NEW g, ServerTurn(e, g), e.state = "send_server_hello"
    PROVE  ServerStep(e, S12!do_send_server_hello(e), g.cfg.versions)
<1> DEFINE m == [type |-> "server_hello", version |-> 12, reused |-> e.session_reused,
                  key_share |-> 0, downgrade |-> 13 \in e.cfg.versions,
                  ticket |-> e.ticket_expected]
           d == AddMessage(e, m)
           f == To(d, IF e.session_reused THEN "send_server_finished" ELSE "send_server_certificate")
<1>1. S12!do_send_server_hello(e) = f
  BY S12AddMessage, Zenon DEF S12!do_send_server_hello, To, S12!To
<1>2. /\ Good(e, g) /\ Lists(e) /\ DOMAIN e = Fields /\ ServerOwn(e, g.cfg.versions)
      /\ IsSeq(e.transcript) /\ Len(e.transcript) \in Nat /\ e.side = "server"
      /\ e.version \in {0, 12, 13} /\ e.session_reused \in BOOLEAN
      /\ e.cfg.versions \in SUBSET {12, 13}
  BY ServerFacts
<1>3. m.type = "server_hello" /\ m.version = 12 /\ m.reused = e.session_reused
  OBVIOUS
<1> HIDE DEF m
<1>4. Flight(e, d, {m}) /\ d.transcript = Append(e.transcript, m)
  BY <1>2, FlightOne
<1> HIDE DEF d
<1>5. Same(d, f, {"state"}) /\ f.state = IF e.session_reused THEN "send_server_finished" ELSE "send_server_certificate"
  <2>1. DOMAIN d = Fields
    BY <1>4 DEF Flight, Same
  <2>2. Same(d, f, {"state"})
    BY <2>1, Zenon DEF Same, To
  <2>3. f.state = IF e.session_reused THEN "send_server_finished" ELSE "send_server_certificate"
    BY <2>1, SMT DEF To, Fields
  <2> QED BY <2>2, <2>3
<1> HIDE DEF f
<1>6. /\ f.total_renegotiations = e.total_renegotiations /\ f.version = e.version /\ f.cfg = e.cfg
      /\ f.session_reused = e.session_reused /\ f.transcript = d.transcript
  BY <1>4, <1>5 DEF Flight, Same, Fields, Written
<1>7. e.version = 12 /\ (\A v \in g.cfg.versions \cap e.cfg.versions : v <= e.version) /\ Len(e.transcript) >= 1
  BY <1>2, SMT DEF ServerOwn, ServerVersion, ServerTranscript, Decided12
<1>8. IsSeq(f.transcript) /\ Len(f.transcript) >= 2
  BY <1>2, <1>4, <1>6, <1>7, LongerTranscript
<1>9. ServerOwn(f, g.cfg.versions)
  <2>1. ServerVersion(f, g.cfg.versions)
    BY <1>2, <1>5, <1>6, <1>7, <1>8, SMT DEF ServerOwn, ServerVersion, ServerEnd, Decided12, Full12
  <2>2. ServerTranscript(f)
    BY <1>2, <1>5, <1>6, <1>7, <1>8, SMT DEF ServerTranscript, ServerEnd, Decided12
  <2>3. ServerKeys(f)
    BY <1>2, <1>5, <1>6, <1>7, <1>8, SMT DEF ServerOwn, ServerKeys, At, ServerEnd, Decided12,
       Full12, Sealed, Sealed12
  <2> QED BY <2>1, <2>2, <2>3 DEF ServerOwn
<1>10. Fixed(e, f) /\ Decided(f)
  BY <1>2, <1>5, <1>6, SMT DEF Fixed, Decided, Sealed, At, Decided12, Decided13, Sealed12, Sealed13,
     ServerEnd
<1>11. /\ \A x : Sends(f, x) => Sends(e, x) \/ x \in {m}
       /\ \A x : Reads(f, x) => Reads(e, x)
  <2>1. {"state"} \cap Buffered = {}
    BY DEF Buffered
  <2> QED BY <1>4, <1>5, <2>1, FlightEnd
<1>12. Told(m, f)
  BY <1>3, <1>6, <1>7, <1>10 DEF Told
<1> QED BY <1>1, <1>9, <1>10, <1>11, <1>12 DEF ServerStep

\* do_read_client_key_exchange.
LEMMA S12ReadClientKeyExchangeStep ==
    ASSUME NEW e, NEW g, ServerTurn(e, g), e.state = "read_client_key_exchange"
    PROVE  ServerStep(e, S12!do_read_client_key_exchange(e), g.cfg.versions)
<1> DEFINE a == Take(e)
           f == To([a EXCEPT !.secret = [psk |-> FALSE, dhe |-> e.key_share, transcript |-> a.transcript]],
                   "read_client_certificate_verify")
<1>1. S12!do_read_client_key_exchange(e) = Expect(e, "client_key_exchange", f)
  BY Zenon DEF S12!do_read_client_key_exchange, Take, NextMessage, Units, Message,
       HashMessage, To, Expect, HasMessage, Wait, Alert, FlushFlight, FlushPendingHsData, Records,
       Record, Error, S12!Take, S12!NextMessage, S12!Units, S12!Message, S12!HashMessage, S12!To,
       S12!Expect, S12!HasMessage, S12!Wait, S12!Alert, S12!FlushFlight, S12!FlushPendingHsData,
       S12!Records, S12!Record, S12!Error
<1>2. /\ Good(e, g) /\ Lists(e) /\ DOMAIN e = Fields /\ ServerOwn(e, g.cfg.versions)
      /\ IsSeq(e.transcript) /\ Len(e.transcript) \in Nat /\ e.side = "server"
      /\ e.version \in {0, 12, 13} /\ e.session_reused \in BOOLEAN
      /\ e.cfg.versions \in SUBSET {12, 13}
  BY ServerFacts
<1> DEFINE X == {"secret", "transcript", "hs_buf", "state"}
<1>3. Same(e, a, {"transcript", "hs_buf"}) /\ a.hs_buf = NextMessage(e).hs_buf
      /\ a.transcript = Append(e.transcript, Message(e))
  <2>1. Same(e, a, {"transcript", "hs_buf"})
    BY <1>2, Zenon DEF Same, Take, NextMessage, HashMessage
  <2>2. a.hs_buf = NextMessage(e).hs_buf /\ a.transcript = Append(e.transcript, Message(e))
    BY <1>2, SMT DEF Take, NextMessage, HashMessage, Message, Fields
  <2> QED BY <2>1, <2>2
<1> HIDE DEF a
<1>4. Same(a, f, {"secret", "state"}) /\ f.state = "read_client_certificate_verify"
  <2>1. DOMAIN a = Fields
    BY <1>3 DEF Same
  <2>2. Same(a, f, {"secret", "state"})
    BY <2>1, Zenon DEF Same, To
  <2>3. f.state = "read_client_certificate_verify"
    BY <2>1, SMT DEF To, Fields
  <2> QED BY <2>2, <2>3
<1> HIDE DEF f
<1>5. Same(e, f, X) /\ f.hs_buf = NextMessage(e).hs_buf /\ f.transcript = Append(e.transcript, Message(e))
  BY <1>3, <1>4 DEF Same, Fields
<1>6. f.cfg = e.cfg /\ f.total_renegotiations = e.total_renegotiations /\ f.version = e.version
      /\ f.session_reused = e.session_reused
  BY <1>5 DEF Same, Fields
<1>7. /\ e.version = 12 /\ (\A v \in g.cfg.versions \cap e.cfg.versions : v <= e.version)
      /\ ~e.session_reused /\ Len(e.transcript) >= 2
  BY <1>2, SMT DEF ServerOwn, ServerVersion, ServerTranscript, Decided12, Full12
<1>8. IsSeq(f.transcript) /\ Len(f.transcript) >= 2
  BY <1>2, <1>5, <1>7, LongerTranscript
<1>9. ServerOwn(f, g.cfg.versions)
  <2>1. ServerVersion(f, g.cfg.versions)
    BY <1>2, <1>4, <1>6, <1>7, <1>8, SMT DEF ServerOwn, ServerVersion, ServerEnd, Decided12, Full12
  <2>2. ServerTranscript(f)
    BY <1>2, <1>4, <1>6, <1>7, <1>8, SMT DEF ServerTranscript, ServerEnd, Decided12
  <2>3. ServerKeys(f)
    BY <1>2, <1>4, <1>6, <1>7, <1>8, SMT DEF ServerOwn, ServerKeys, At, ServerEnd, Decided12,
       Full12, Sealed, Sealed12
  <2> QED BY <2>1, <2>2, <2>3 DEF ServerOwn
<1>10. Fixed(e, f)
  BY <1>4, <1>6, SMT DEF Fixed, Decided, Sealed, At, Decided12, Decided13, Sealed12, Sealed13,
     ServerEnd
<1>11. ASSUME HasMessage(e) PROVE ServerStep(e, f, g.cfg.versions)
  <2>1. X \cap Buffered \subseteq {"hs_buf"}
    BY DEF Buffered
  <2>2. (\A x : Sends(f, x) => Sends(e, x)) /\ (\A x : Reads(f, x) => Reads(e, x))
    <3> HIDE DEF X
    <3> QED BY <1>2, <1>5, <1>11, <2>1, TakenFrom
  <2> QED BY <1>9, <1>10, <2>2 DEF ServerStep
<1> QED BY <1>1, <1>2, <1>11, ExpectCases, ServerStepNone

\* do_process_change_cipher_spec.
LEMMA S12ProcessChangeCipherSpecStep ==
    ASSUME NEW e, NEW g, ServerTurn(e, g), e.state = "process_change_cipher_spec"
    PROVE  ServerStep(e, S12!do_process_change_cipher_spec(e), g.cfg.versions)
<1> DEFINE k == S12!key(e, "client")
           f == [To(e, "read_client_finished") EXCEPT !.read_key = k]
<1>1. S12!do_process_change_cipher_spec(e) = IF e.hs_buf # <<>> THEN Alert(e, "unexpected_message") ELSE f
  BY Zenon DEF S12!do_process_change_cipher_spec, To, Alert, FlushFlight, FlushPendingHsData,
       Records, Record, Error, HasMessage, Units, Message, SetReadKey, S12!To, S12!Alert,
       S12!FlushFlight, S12!FlushPendingHsData, S12!Records, S12!Record, S12!Error, S12!HasMessage,
       S12!Units, S12!Message, S12!SetReadKey
<1>2. /\ Good(e, g) /\ Lists(e) /\ DOMAIN e = Fields /\ ServerOwn(e, g.cfg.versions)
      /\ IsSeq(e.transcript) /\ Len(e.transcript) \in Nat /\ e.side = "server"
      /\ e.version \in {0, 12, 13} /\ e.session_reused \in BOOLEAN
      /\ e.cfg.versions \in SUBSET {12, 13}
  BY ServerFacts
<1>3. k = Key12(e, "client")
  BY Zenon DEF S12!key, S12!Key, Key, Key12, Hellos
<1> HIDE DEF k
<1>4. Same(e, f, {"state", "read_key"}) /\ f.state = "read_client_finished" /\ f.read_key = k
  <2>1. Same(e, f, {"state", "read_key"})
    BY <1>2, Zenon DEF Same, To
  <2>2. f.state = "read_client_finished" /\ f.read_key = k
    BY <1>2, SMT DEF To, Fields
  <2> QED BY <2>1, <2>2
<1> HIDE DEF f
<1>5. /\ f.total_renegotiations = e.total_renegotiations /\ f.version = e.version /\ f.cfg = e.cfg
      /\ f.session_reused = e.session_reused /\ f.transcript = e.transcript /\ f.secret = e.secret
      /\ f.app = e.app /\ f.write_key = e.write_key
  BY <1>4 DEF Same, Fields
<1>6. /\ e.version = 12 /\ (\A v \in g.cfg.versions \cap e.cfg.versions : v <= e.version)
      /\ Len(e.transcript) >= 2
  BY <1>2, SMT DEF ServerOwn, ServerVersion, ServerTranscript, Decided12
<1>7. Hellos(f) = Hellos(e) /\ Key12(f, "client") = k /\ Key12(f, "server") = Key12(e, "server")
  BY <1>3, <1>5, Zenon DEF Hellos, Key12
<1>8. Derived(f.read_key, Key12(f, "client"))
  <2>1. Derived(Key12(e, "client"), Key12(e, "client"))
    BY DEF Derived, Key12, Key, KeyFields, SameSecret
  <2> QED BY <1>3, <1>4, <1>7, <2>1
<1>9. ServerOwn(f, g.cfg.versions)
  <2>1. ServerVersion(f, g.cfg.versions)
    BY <1>2, <1>4, <1>5, <1>6, <1>7, <1>8, SMT DEF ServerOwn, ServerVersion, ServerEnd, Decided12,
       Full12
  <2>2. ServerTranscript(f)
    BY <1>2, <1>4, <1>5, <1>6, <1>7, <1>8, SMT DEF ServerTranscript, ServerEnd, Decided12
  <2>3. ServerKeys(f)
    BY <1>2, <1>4, <1>5, <1>6, <1>7, <1>8, SMT DEF ServerOwn, ServerKeys, At, ServerEnd, Decided12,
       Full12, Sealed, Sealed12
  <2> QED BY <2>1, <2>2, <2>3 DEF ServerOwn
<1>10. Fixed(e, f)
  BY <1>4, <1>5, <1>7, SMT DEF Fixed, Decided, Sealed, At, Decided12, Decided13, Sealed12, Sealed13,
     ServerEnd
<1>11. \A x : Sends(f, x) = Sends(e, x) /\ Reads(f, x) = Reads(e, x)
  BY <1>4, SameBuffers
<1>12. ServerStep(e, f, g.cfg.versions)
  BY <1>9, <1>10, <1>11 DEF ServerStep
<1>13. ServerStep(e, Alert(e, "unexpected_message"), g.cfg.versions)
  BY ServerStepEnds
<1> QED BY <1>1, <1>12, <1>13

\* do_read_client_finished.
LEMMA S12ReadClientFinishedStep ==
    ASSUME NEW e, NEW g, ServerTurn(e, g), e.state = "read_client_finished"
    PROVE  ServerStep(e, S12!do_read_client_finished(e), g.cfg.versions)
<1> DEFINE f == To(Take(e), IF e.session_reused THEN "finish_server_handshake" ELSE "send_server_finished")
           then == IF Message(e) # Finished("client", e) THEN Alert(HashMessage(e), "decrypt_error")
                   ELSE IF Excess(e) THEN Alert(HashMessage(e), "unexpected_message") ELSE f
<1>1. S12!do_read_client_finished(e) = Expect(e, "finished", then)
  BY Zenon DEF S12!do_read_client_finished, To, Take, NextMessage, Units, Message,
       HashMessage, Finished, Alert, FlushFlight, FlushPendingHsData, Records, Record, Error,
       HasMessage, Excess, Expect, Wait, S12!To, S12!Take, S12!NextMessage, S12!Units, S12!Message,
       S12!HashMessage, S12!Finished, S12!Alert, S12!FlushFlight, S12!FlushPendingHsData,
       S12!Records, S12!Record, S12!Error, S12!HasMessage, S12!Excess, S12!Expect, S12!Wait
<1>2. /\ Good(e, g) /\ Lists(e) /\ DOMAIN e = Fields /\ ServerOwn(e, g.cfg.versions)
      /\ IsSeq(e.transcript) /\ Len(e.transcript) \in Nat /\ e.side = "server"
      /\ e.version \in {0, 12, 13} /\ e.session_reused \in BOOLEAN
      /\ e.cfg.versions \in SUBSET {12, 13}
  BY ServerFacts
<1> DEFINE next == IF e.session_reused THEN "finish_server_handshake" ELSE "send_server_finished"
<1>3. ASSUME HasMessage(e) PROVE ServerStep(e, f, g.cfg.versions)
  <2>1. Same(e, e, {"peer", "key_share", "cert_request"})
    BY <1>2 DEF Same
  <2>2. Stays(e, Take(e))
    BY <1>2, <1>3, <2>1, StaysTake
  <2>3. Goes(e, To(Take(e), next), next)
    BY <2>2, GoesTo
  <2>4. Keeps(e, f) /\ f.state = next /\ f.tls13_state = e.tls13_state
    BY <2>3, Zenon DEF Goes
  <2> HIDE DEF f
  <2>5. ServerMoves(e, f)
    BY <1>2, <2>4 DEF ServerMoves
  <2> QED BY <2>4, <2>5, ServerStepMoves
<1>4. ServerStep(e, Alert(HashMessage(e), "decrypt_error"), g.cfg.versions)
      /\ ServerStep(e, Alert(HashMessage(e), "unexpected_message"), g.cfg.versions)
  BY ServerStepEnds
<1> HIDE DEF f
<1>5. ASSUME HasMessage(e) PROVE ServerStep(e, then, g.cfg.versions)
  BY <1>3, <1>4, <1>5
<1> HIDE DEF then
<1> QED BY <1>1, <1>2, <1>5, ExpectCases, ServerStepNone

\* A message among those that are put into a flight.
LEMMA FlightOneOf ==
    ASSUME NEW e, NEW d, NEW ms, NEW m, Flight(e, d, ms), m \in ms
    PROVE  LET h == AddMessage(d, m)
           IN  Flight(e, h, ms) /\ h.transcript = Append(d.transcript, m) /\ h.write_key = d.write_key
<1> DEFINE h == AddMessage(d, m)
<1>1. /\ Same(d, h, {"pending_flight", "pending_hs_data", "transcript"}) /\ Lists(h)
      /\ h.transcript = Append(d.transcript, m)
      /\ \A x : Sends(h, x) => Sends(d, x) \/ x = m
  BY SendsAddMessage DEF Flight
<1> HIDE DEF h
<1>2. Same(d, h, Written)
  BY <1>1, SameWider DEF Written
<1>3. h.write_key = d.write_key
  BY <1>1 DEF Same, Fields
<1>4. Same(e, h, Written)
  BY <1>2, SameTrans DEF Flight
<1>5. \A x : Sends(h, x) => Sends(e, x) \/ x \in ms
  BY <1>1 DEF Flight
<1> QED BY <1>1, <1>3, <1>4, <1>5 DEF Flight, h

\* do_send_server_finished.
LEMMA S12SendServerFinishedStep ==
    ASSUME NEW e, NEW g, ServerTurn(e, g), e.state = "send_server_finished"
    PROVE  ServerStep(e, S12!do_send_server_finished(e), g.cfg.versions)
<1> DEFINE ticket == [type |-> "new_session_ticket"]
           a == IF e.ticket_expected THEN AddMessage(e, ticket) ELSE e
           b == AddChangeCipherSpec(a)
           c == SetWriteKey(b, S12!key(a, "server"))
           d == AddMessage(c, Finished("server", c))
           next == IF e.session_reused THEN "read_change_cipher_spec" ELSE "finish_server_handshake"
           f == Wait(To(d, next), "flush")
<1>1. S12!do_send_server_finished(e) = f
  <2>1. \A x, m : S12!AddMessage(x, m) = AddMessage(x, m)
    BY S12AddMessage
  <2>2. \A x : S12!AddChangeCipherSpec(x) = AddChangeCipherSpec(x)
    BY S12ChangeCipherSpec
  <2>3. \A x, key : S12!SetWriteKey(x, key) = SetWriteKey(x, key)
    BY S12SetWriteKey
  <2>4. \A side, x : S12!Finished(side, x) = Finished(side, x)
    BY Zenon DEF Finished, S12!Finished
  <2>5. \A x, state : S12!To(x, state) = To(x, state)
    BY Zenon DEF To, S12!To
  <2>6. \A x, wait : S12!Wait(x, wait) = Wait(x, wait)
    BY Zenon DEF Wait, S12!Wait
  <2> QED BY <2>1, <2>2, <2>3, <2>4, <2>5, <2>6, SMT DEF S12!do_send_server_finished
<1>2. /\ Good(e, g) /\ Lists(e) /\ DOMAIN e = Fields /\ ServerOwn(e, g.cfg.versions)
      /\ IsSeq(e.transcript) /\ Len(e.transcript) \in Nat /\ e.side = "server"
      /\ e.version \in {0, 12, 13} /\ e.session_reused \in BOOLEAN
      /\ e.cfg.versions \in SUBSET {12, 13}
  BY ServerFacts
<1> DEFINE m == Finished("server", c)
<1>3. e.version = 12 /\ (\A v \in g.cfg.versions \cap e.cfg.versions : v <= e.version) /\ Len(e.transcript) >= 2
  BY <1>2, SMT DEF ServerOwn, ServerVersion, ServerTranscript, Decided12
<1>4. Flight(e, a, {ticket}) /\ IsSeq(a.transcript) /\ Len(a.transcript) >= 2 /\ Hellos(a) = Hellos(e) /\ a.secret = e.secret
  <2>1. ASSUME e.ticket_expected PROVE Flight(e, a, {ticket}) /\ a.transcript = Append(e.transcript, ticket)
    BY <1>2, <2>1, FlightOne
  <2>2. ASSUME ~e.ticket_expected PROVE Flight(e, a, {ticket}) /\ a.transcript = e.transcript
    <3>1. Flight(e, e, {})
      BY <1>2, FlightStart
    <3> QED BY <2>2, <3>1 DEF Flight
  <2>3. Flight(e, a, {ticket})
    BY <2>1, <2>2
  <2>4. IsSeq(a.transcript) /\ Len(a.transcript) >= 2 /\ Hellos(a) = Hellos(e)
    <3> HIDE DEF a, ticket
    <3>1. CASE e.ticket_expected
      <4>1. a.transcript = Append(e.transcript, ticket)
        BY <2>1, <3>1
      <4> QED BY <1>2, <1>3, <4>1, LongerTranscript DEF Hellos
    <3>2. CASE ~e.ticket_expected
      <4>1. a.transcript = e.transcript
        BY <2>2, <3>2
      <4> QED BY <1>2, <1>3, <4>1 DEF Hellos
    <3> QED BY <3>1, <3>2
  <2> HIDE DEF a
  <2>5. a.secret = e.secret
    BY <2>3 DEF Flight, Same, Fields, Written
  <2> QED BY <2>3, <2>4, <2>5
<1>5. Told(ticket, f)
  BY PlainTold DEF Plain
<1> HIDE DEF ticket, a
<1>6. S12!key(a, "server") = Key12(e, "server")
  BY <1>4, Zenon DEF S12!key, S12!Key, Key, Key12, Hellos
<1>7. Flight(e, b, {ticket}) /\ b.transcript = a.transcript
  BY <1>4, FlightChange
<1> HIDE DEF b
<1>8. Flight(e, c, {ticket}) /\ c.transcript = a.transcript /\ c.write_key = Key12(e, "server")
  BY <1>6, <1>7, FlightKey
<1> HIDE DEF c
<1>9. m.type = "finished" /\ m.secret = c.secret /\ m.over = c.transcript
  BY DEF Finished
<1> HIDE DEF m
<1>10. Flight(e, d, {ticket, m}) /\ d.transcript = Append(c.transcript, m) /\ d.write_key = c.write_key
  <2> DEFINE ns == {ticket, m}
  <2>2. Flight(e, c, ns) /\ m \in ns
    BY <1>8 DEF Flight
  <2>3. d = AddMessage(c, m)
    BY DEF m
  <2> HIDE DEF ns, d
  <2>4. Flight(e, d, ns) /\ d.transcript = Append(c.transcript, m) /\ d.write_key = c.write_key
    BY <2>2, <2>3, FlightOneOf
  <2> QED BY <2>4 DEF ns
<1> HIDE DEF d, next
<1>11. Same(d, f, {"state", "wait"}) /\ f.state = next
  <2>1. DOMAIN d = Fields
    BY <1>10 DEF Flight, Same
  <2> QED BY <2>1, SameToWait
<1> HIDE DEF f
<1>12. /\ f.total_renegotiations = e.total_renegotiations /\ f.version = e.version /\ f.cfg = e.cfg
       /\ f.session_reused = e.session_reused /\ f.transcript = d.transcript /\ f.secret = e.secret
       /\ f.app = e.app /\ f.write_key = Key12(e, "server") /\ f.read_key = e.read_key /\ c.secret = e.secret
  BY <1>8, <1>10, <1>11 DEF Flight, Same, Fields, Written
<1>13. IsSeq(f.transcript) /\ Len(f.transcript) >= 2 /\ Hellos(f) = Hellos(e)
  BY <1>4, <1>8, <1>10, <1>12, LongerTranscript DEF Hellos
<1>14. Key12(f, "client") = Key12(e, "client") /\ Key12(f, "server") = Key12(e, "server")
  BY <1>12, <1>13, Zenon DEF Key12
<1>15. Derived(f.write_key, Key12(f, "server"))
  <2>1. Derived(Key12(e, "server"), Key12(e, "server"))
    BY DEF Derived, Key12, Key, KeyFields, SameSecret
  <2> QED BY <1>12, <1>14, <2>1
<1>16. next = IF e.session_reused THEN "read_change_cipher_spec" ELSE "finish_server_handshake"
  BY DEF next
<1>17. ServerOwn(f, g.cfg.versions)
  <2>1. ServerVersion(f, g.cfg.versions)
    BY <1>2, <1>3, <1>11, <1>12, <1>13, <1>14, <1>15, <1>16, SMT DEF ServerOwn, ServerVersion,
       ServerEnd, Decided12, Full12
  <2>2. ServerTranscript(f)
    BY <1>2, <1>3, <1>11, <1>12, <1>13, <1>14, <1>15, <1>16, SMT DEF ServerTranscript, ServerEnd,
       Decided12
  <2>3. ServerKeys(f)
    BY <1>2, <1>3, <1>11, <1>12, <1>13, <1>14, <1>15, <1>16, SMT DEF ServerOwn, ServerKeys, At,
       ServerEnd, Decided12, Full12, Sealed, Sealed12
  <2> QED BY <2>1, <2>2, <2>3 DEF ServerOwn
<1>18. Fixed(e, f) /\ Sealed(f)
  BY <1>2, <1>11, <1>12, <1>13, <1>16, SMT DEF Fixed, Decided, Sealed, At, Decided12, Decided13,
     Sealed12, Sealed13, ServerEnd
<1>19. Told(m, f)
  <2>1. SubSeq(m.over, 1, 2) = Hellos(f)
    BY <1>4, <1>8, <1>9, <1>13 DEF Hellos
  <2> QED BY <1>3, <1>9, <1>12, <1>18, <2>1 DEF Told
<1>20. /\ \A x : Sends(f, x) => Sends(e, x) \/ x \in {ticket, m}
       /\ \A x : Reads(f, x) => Reads(e, x)
  <2>1. {"state", "wait"} \cap Buffered = {}
    BY DEF Buffered
  <2> QED BY <1>10, <1>11, <2>1, FlightEnd
<1>21. \A x : Sends(f, x) => Sends(e, x) \/ Told(x, f)
  BY <1>5, <1>19, <1>20
<1> QED BY <1>1, <1>17, <1>18, <1>20, <1>21 DEF ServerStep

\* do_select_session.
LEMMA S13SelectSessionStep ==
    ASSUME NEW e, NEW g, ServerTurn(e, g), e.state = "tls13", e.tls13_state = "select_session"
    PROVE  ServerStep(e, S13!do_select_session(e), g.cfg.versions)
<1> DEFINE m == Message(e)
           reused == m.session = 13 /\ e.cfg.resumes
           group == SharedGroup(m.groups, e)
           a == HashMessage([e EXCEPT !.session_reused = reused, !.key_share = group])
           h == To13(UpdateForHelloRetryRequest(NextMessage(a)), "send_hello_retry_request")
           f == To13(NextMessage(a), "send_server_hello")
<1>1. S13!do_select_session(e) = IF reused /\ m.binder # e.transcript THEN Alert(e, "decrypt_error")
        ELSE IF group = 0 THEN Alert(e, "handshake_failure")
        ELSE IF m.key_share # group THEN h ELSE f
  BY Zenon DEF S13!do_select_session, Message, SharedGroup, HashMessage, To13,
       UpdateForHelloRetryRequest, NextMessage, Units, Alert, FlushFlight, FlushPendingHsData,
       Records, Record, Error, HasMessage, S13!Message, S13!SharedGroup, S13!HashMessage, S13!To13,
       S13!UpdateForHelloRetryRequest, S13!NextMessage, S13!Units, S13!Alert, S13!FlushFlight,
       S13!FlushPendingHsData, S13!Records, S13!Record, S13!Error, S13!HasMessage
<1>2. /\ Good(e, g) /\ Lists(e) /\ DOMAIN e = Fields /\ ServerOwn(e, g.cfg.versions)
      /\ IsSeq(e.transcript) /\ Len(e.transcript) \in Nat /\ e.side = "server"
      /\ e.version \in {0, 12, 13} /\ e.session_reused \in BOOLEAN
      /\ e.cfg.versions \in SUBSET {12, 13}
  BY ServerFacts
<1>3. e.version = 13 /\ \A v \in g.cfg.versions \cap e.cfg.versions : v <= 13
  BY <1>2 DEF ServerOwn, ServerVersion
<1>4. HelloHeld(e)
  BY <1>2 DEF HelloHeld, At
<1>5. HasMessage(e)
  BY <1>2, <1>4, HeldHello
<1> HIDE DEF reused, group
<1> DEFINE n == NextMessage(a)
           q == [e EXCEPT !.session_reused = reused, !.key_share = group]
<1>6. Same(e, q, {"session_reused", "key_share"})
  BY <1>2, Zenon DEF Same
<1>7. n = Take(q)
  BY DEF Take
<1> HIDE DEF q
<1>8. DOMAIN q = Fields /\ q.hs_buf = e.hs_buf /\ q.transcript = e.transcript
  BY <1>6 DEF Same, Fields
<1> HIDE DEF a, n
<1>9. Same(q, n, {"transcript", "hs_buf"}) /\ n.hs_buf = NextMessage(q).hs_buf
      /\ n.transcript = Append(q.transcript, Message(q)) /\ DOMAIN n = Fields
  BY <1>7, <1>8, TakeFields
<1>10. NextMessage(q).hs_buf = NextMessage(e).hs_buf
  <2>1. Message(q) = Message(e)
    BY <1>8 DEF Message
  <2> QED BY <1>2, <1>8, <2>1, SMT DEF NextMessage, Fields
<1>11. IsSeq(n.transcript)
  BY <1>2, <1>8, <1>9, LongerTranscript
<1> DEFINE u == UpdateForHelloRetryRequest(n)
<1>12. Same(n, u, {"transcript"}) /\ IsSeq(u.transcript)
  <2>1. Same(n, u, {"transcript"})
    BY <1>9, Zenon DEF Same, UpdateForHelloRetryRequest
  <2>2. u.transcript = <<[type |-> "message_hash", of |-> n.transcript]>>
    BY <1>9, Zenon DEF UpdateForHelloRetryRequest, Fields
  <2>3. IsSeq(u.transcript)
    BY <2>2, OneMessage
  <2> QED BY <2>1, <2>3
<1>13. h = To13(u, "send_hello_retry_request") /\ f = To13(n, "send_server_hello")
  BY DEF n
<1> HIDE DEF f, h, u
<1>14. Same(n, f, {"tls13_state"}) /\ f.tls13_state = "send_server_hello"
  <2>1. Same(n, f, {"tls13_state"})
    BY <1>9, <1>13, Zenon DEF Same, To13
  <2>2. f.tls13_state = "send_server_hello"
    BY <1>9, <1>13, SMT DEF To13, Fields
  <2> QED BY <2>1, <2>2
<1>15. Same(u, h, {"tls13_state"}) /\ h.tls13_state = "send_hello_retry_request"
  <2>0. DOMAIN u = Fields
    BY <1>12 DEF Same
  <2>1. Same(u, h, {"tls13_state"})
    BY <1>13, <2>0, Zenon DEF Same, To13
  <2>2. h.tls13_state = "send_hello_retry_request"
    BY <1>13, <2>0, SMT DEF To13, Fields
  <2> QED BY <2>1, <2>2
<1> DEFINE X == {"session_reused", "key_share", "transcript", "hs_buf", "tls13_state"}
<1>16. ASSUME NEW t, t \in {f, h} PROVE ServerStep(e, t, g.cfg.versions)
  <2>1. Same(e, t, X) /\ t.hs_buf = n.hs_buf /\ IsSeq(t.transcript)
        /\ t.tls13_state \in {"send_server_hello", "send_hello_retry_request"}
    <3>1. CASE t = f
      <4>1. Same(e, n, {"session_reused", "key_share", "transcript", "hs_buf"})
        BY <1>6, <1>9 DEF Same
      <4>2. Same(e, f, X)
        BY <1>14, <4>1 DEF Same
      <4>3. f.hs_buf = n.hs_buf /\ f.transcript = n.transcript
        BY <1>14 DEF Same, Fields
      <4> QED BY <1>11, <1>14, <3>1, <4>2, <4>3
    <3>2. CASE t = h
      <4>1. Same(n, h, {"transcript", "tls13_state"}) /\ IsSeq(h.transcript)
        BY <1>12, <1>15 DEF Same, Fields
      <4>2. Same(e, h, X) /\ h.hs_buf = n.hs_buf
        BY <1>6, <1>9, <4>1 DEF Same, Fields
      <4> QED BY <1>15, <3>2, <4>1, <4>2
    <3> QED BY <1>16, <3>1, <3>2
  <2>2. /\ t.total_renegotiations = e.total_renegotiations /\ t.version = e.version /\ t.cfg = e.cfg
        /\ t.state = "tls13"
    BY <2>1 DEF Same, Fields
  <2>3. ~Sealed(t)
    BY <2>1, <2>2, SMT DEF Sealed, At, Sealed13
  <2>4. ServerOwn(t, g.cfg.versions)
    BY <1>3, <2>1, <2>2, <2>3, ServerOwn13
  <2>5. Fixed(e, t)
    BY <2>2, SMT DEF Fixed, Decided, Sealed, At, Decided13, Sealed13
  <2>6. X \cap Buffered \subseteq {"hs_buf"}
    BY DEF Buffered
  <2>7. (\A x : Sends(t, x) => Sends(e, x)) /\ (\A x : Reads(t, x) => Reads(e, x))
    <3> HIDE DEF X
    <3> QED BY <1>2, <1>5, <1>9, <1>10, <2>1, <2>6, TakenFrom
  <2> QED BY <2>4, <2>5, <2>7 DEF ServerStep
<1>17. ServerStep(e, Alert(e, "decrypt_error"), g.cfg.versions)
       /\ ServerStep(e, Alert(e, "handshake_failure"), g.cfg.versions)
  BY ServerStepEnds
<1> HIDE DEF m
<1> QED BY <1>1, <1>16, <1>17

\* do_send_hello_retry_request.
LEMMA S13SendHelloRetryRequestStep ==
    ASSUME NEW e, NEW g, ServerTurn(e, g), e.state = "tls13", e.tls13_state = "send_hello_retry_request"
    PROVE  ServerStep(e, S13!do_send_hello_retry_request(e), g.cfg.versions)
<1> DEFINE m == [type |-> "hello_retry_request", version |-> 13, group |-> e.key_share]
           a == AddMessage(e, m)
           d == AddChangeCipherSpec(a)
           f == Wait(To13([d EXCEPT !.used_hello_retry_request = TRUE], "read_second_client_hello"), "flush")
<1>1. S13!do_send_hello_retry_request(e) = f
  <2> DEFINE aa == S13!AddMessage(e, m)
             dd == S13!AddChangeCipherSpec(aa)
             ff == S13!Wait(S13!To13([dd EXCEPT !.used_hello_retry_request = TRUE], "read_second_client_hello"), "flush")
  <2>1. S13!do_send_hello_retry_request(e) = ff
    BY Zenon DEF S13!do_send_hello_retry_request
  <2>2. aa = a
    BY S13Layer
  <2> HIDE DEF aa, a
  <2>3. dd = d
    BY <2>2, S13Layer
  <2> HIDE DEF dd, d
  <2>4. ff = f
    BY <2>3, S13Layer
  <2> HIDE DEF ff, f
  <2> QED BY <2>1, <2>4, <2>2, <2>3, S13Layer
<1>2. /\ Good(e, g) /\ Lists(e) /\ DOMAIN e = Fields /\ ServerOwn(e, g.cfg.versions)
      /\ IsSeq(e.transcript) /\ Len(e.transcript) \in Nat /\ e.side = "server"
      /\ e.version \in {0, 12, 13} /\ e.session_reused \in BOOLEAN
      /\ e.cfg.versions \in SUBSET {12, 13}
  BY ServerFacts
<1>3. e.version = 13 /\ \A v \in g.cfg.versions \cap e.cfg.versions : v <= 13
  BY <1>2 DEF ServerOwn, ServerVersion
<1>4. m.type = "hello_retry_request" /\ m.version = 13
  OBVIOUS
<1> HIDE DEF m
<1>5. Flight(e, a, {m}) /\ a.transcript = Append(e.transcript, m)
  BY <1>2, FlightOne
<1> HIDE DEF a
<1>6. Flight(e, d, {m}) /\ d.transcript = a.transcript
  BY <1>5, FlightChange
<1> HIDE DEF d
<1> DEFINE X == {"used_hello_retry_request", "tls13_state", "wait"}
<1>7. Same(d, f, X) /\ f.tls13_state = "read_second_client_hello"
  <2>1. DOMAIN d = Fields
    BY <1>6 DEF Flight, Same
  <2>2. Same(d, f, X)
    BY <2>1, Zenon DEF Same, Wait, To13
  <2>3. f.tls13_state = "read_second_client_hello"
    BY <2>1, SMT DEF Wait, To13, Fields
  <2> QED BY <2>2, <2>3
<1> HIDE DEF f
<1>8. /\ f.total_renegotiations = e.total_renegotiations /\ f.version = e.version /\ f.cfg = e.cfg
      /\ f.session_reused = e.session_reused /\ f.transcript = d.transcript /\ f.state = "tls13"
  BY <1>6, <1>7 DEF Flight, Same, Fields, Written
<1>9. IsSeq(f.transcript)
  BY <1>2, <1>5, <1>6, <1>8, LongerTranscript
<1>10. ~Sealed(f)
  BY <1>7, <1>8, SMT DEF Sealed, At, Sealed13
<1>11. ServerOwn(f, g.cfg.versions)
  BY <1>3, <1>7, <1>8, <1>9, <1>10, ServerOwn13
<1>12. Fixed(e, f)
  BY <1>7, <1>8, SMT DEF Fixed, Decided, Sealed, At, Decided13, Sealed13
<1>13. Told(m, f)
  BY <1>3, <1>4, <1>8 DEF Told
<1>14. /\ \A x : Sends(f, x) => Sends(e, x) \/ x \in {m}
       /\ \A x : Reads(f, x) => Reads(e, x)
  <2>1. X \cap Buffered = {}
    BY DEF Buffered
  <2> QED BY <1>6, <1>7, <2>1, FlightEnd
<1> QED BY <1>1, <1>11, <1>12, <1>13, <1>14 DEF ServerStep

\* do_send_server_hello.
LEMMA S13SendServerHelloStep ==
    ASSUME NEW e, NEW g, ServerTurn(e, g), e.state = "tls13", e.tls13_state = "send_server_hello"
    PROVE  ServerStep(e, S13!do_send_server_hello(e), g.cfg.versions)
<1> DEFINE hello == [type |-> "server_hello", version |-> 13, reused |-> e.session_reused,
                      key_share |-> e.key_share, downgrade |-> FALSE, ticket |-> FALSE]
           request == e.cfg.verify /\ ~e.session_reused
           secret == [psk |-> e.session_reused, dhe |-> e.key_share, transcript |-> Append(e.transcript, hello)]
           x == [e EXCEPT !.secret = secret, !.cert_request = request]
           f == AddMessage(x, hello)
           b == SetWriteKey(IF e.used_hello_retry_request THEN f ELSE AddChangeCipherSpec(f),
                            Key("handshake", "server", secret))
           h == AddMessage(b, [type |-> "encrypted_extensions"])
           i == IF b.cert_request THEN AddMessage(h, [type |-> "certificate_request"]) ELSE h
           d == AddMessage(i, Certificate(e))
<1>1. S13!do_send_server_hello(e) = IF e.session_reused THEN To13(i, "send_server_finished")
        ELSE IF ~e.cfg.cert THEN Error(i, "no_certificate_set")
        ELSE To13(d, "send_server_certificate_verify")
  <2> DEFINE ff == S13!AddMessage(x, hello)
             bb == S13!SetWriteKey(IF e.used_hello_retry_request THEN ff ELSE S13!AddChangeCipherSpec(ff),
                            S13!Key("handshake", "server", secret))
             ii == S13!AddExtensions(bb)
             dd == S13!AddMessage(ii, S13!Certificate(e))
  <2>1. S13!do_send_server_hello(e) = IF e.session_reused THEN S13!To13(ii, "send_server_finished")
        ELSE IF ~e.cfg.cert THEN S13!Error(ii, "no_certificate_set")
        ELSE S13!To13(dd, "send_server_certificate_verify")
    BY Zenon DEF S13!do_send_server_hello
  <2>2. ff = f
    BY S13Layer
  <2> HIDE DEF ff, f
  <2>3. bb = b
    BY <2>2, S13Layer
  <2> HIDE DEF bb, b
  <2>4. ii = i
    BY <2>3, S13Layer DEF S13!AddExtensions
  <2> HIDE DEF ii, i
  <2>5. dd = d
    BY <2>4, S13Layer
  <2> HIDE DEF dd, d
  <2> QED BY <2>1, <2>5, <2>2, <2>3, <2>4, S13Layer
<1>2. /\ Good(e, g) /\ Lists(e) /\ DOMAIN e = Fields /\ ServerOwn(e, g.cfg.versions)
      /\ IsSeq(e.transcript) /\ Len(e.transcript) \in Nat /\ e.side = "server"
      /\ e.version \in {0, 12, 13} /\ e.session_reused \in BOOLEAN
      /\ e.cfg.versions \in SUBSET {12, 13}
  BY ServerFacts
<1>3. e.version = 13 /\ \A v \in g.cfg.versions \cap e.cfg.versions : v <= 13
  BY <1>2 DEF ServerOwn, ServerVersion
<1> DEFINE ee == [type |-> "encrypted_extensions"]
           cr == [type |-> "certificate_request"]
           ce == Certificate(e)
           ms == {hello, ee, cr, ce}
<1>4. hello.type = "server_hello" /\ hello.version = 13 /\ hello.reused = e.session_reused
  OBVIOUS
<1>5. Plain(ee) /\ Plain(cr) /\ Plain(ce)
  BY DEF Plain, Certificate
<1>6. Same(e, x, {"secret", "cert_request"})
  BY <1>2, Zenon DEF Same
<1> HIDE DEF x, hello, ee, cr, ce, secret, request
<1>7. Lists(x) /\ x.transcript = e.transcript /\ \A y : Sends(x, y) = Sends(e, y) /\ Reads(x, y) = Reads(e, y)
  <2>1. {"secret", "cert_request"} \cap Buffered = {}
    BY DEF Buffered
  <2>2. Lists(x)
    BY <1>2, <1>6, <2>1, SameLists
  <2>3. \A y : Sends(x, y) = Sends(e, y) /\ Reads(x, y) = Reads(e, y)
    BY <1>6, SameBuffers
  <2> QED BY <1>6, <2>2, <2>3 DEF Same, Fields
<1>8. Flight(x, f, {hello}) /\ f.transcript = Append(e.transcript, hello)
  BY <1>7, FlightOne
<1>9. IsSeq(f.transcript)
  BY <1>2, <1>8, LongerTranscript
<1> HIDE DEF f
<1> DEFINE j == IF e.used_hello_retry_request THEN f ELSE AddChangeCipherSpec(f)
<1>10. Flight(x, j, {hello}) /\ IsSeq(j.transcript)
  BY <1>8, <1>9, FlightChange
<1>11. b = SetWriteKey(j, Key("handshake", "server", secret))
  OBVIOUS
<1> HIDE DEF j, b
<1>12. Flight(x, b, {hello}) /\ IsSeq(b.transcript)
  BY <1>10, <1>11, FlightKey
<1>13. Flight(x, h, ms) /\ IsSeq(h.transcript)
  <2>0. Flight(x, b, ms) /\ ee \in ms
    BY <1>12 DEF Flight
  <2>1. h = AddMessage(b, ee)
    BY DEF ee
  <2> HIDE DEF h, ms
  <2>2. Flight(x, h, ms) /\ h.transcript = Append(b.transcript, ee)
    BY <2>0, <2>1, FlightOneOf
  <2> QED BY <1>12, <2>2, LongerTranscript
<1> HIDE DEF h
<1>14. Flight(x, i, ms) /\ IsSeq(i.transcript)
  <2>0. cr \in ms
    OBVIOUS
  <2> DEFINE k == AddMessage(h, cr)
  <2>3. i = (IF b.cert_request THEN k ELSE h) /\ k = AddMessage(h, cr)
    BY DEF cr
  <2> HIDE DEF i, ms, k
  <2>1. Flight(x, k, ms) /\ k.transcript = Append(h.transcript, cr)
    BY <1>13, <2>0, <2>3, FlightOneOf
  <2>2. IsSeq(k.transcript)
    BY <1>13, <2>1, LongerTranscript
  <2> QED BY <1>13, <2>1, <2>2, <2>3
<1> HIDE DEF i
<1>15. Flight(x, d, ms) /\ IsSeq(d.transcript)
  <2>1. ce \in ms
    OBVIOUS
  <2>2. Flight(x, d, ms) /\ d.transcript = Append(i.transcript, ce)
    <3>1. d = AddMessage(i, ce)
      BY DEF ce
    <3> HIDE DEF ms, d
    <3> QED BY <1>14, <2>1, <3>1, FlightOneOf
  <2>3. IsSeq(d.transcript)
    BY <1>14, <2>2, LongerTranscript
  <2> QED BY <2>2, <2>3
<1> HIDE DEF d
<1> DEFINE X == {"tls13_state", "wait", "error", "running"}
<1>16. ASSUME NEW k, NEW t, Flight(x, k, ms), IsSeq(k.transcript), Same(k, t, X),
              t.tls13_state \in {"send_server_hello", "send_server_finished", "send_server_certificate_verify"}
       PROVE  ServerStep(e, t, g.cfg.versions)
  <2>1. /\ t.total_renegotiations = e.total_renegotiations /\ t.version = e.version /\ t.cfg = e.cfg
        /\ t.session_reused = e.session_reused /\ t.transcript = k.transcript /\ t.state = "tls13"
    BY <1>6, <1>16 DEF Flight, Same, Fields, Written
  <2>2. ~Sealed(t) /\ Decided(t)
    BY <1>16, <2>1, SMT DEF Sealed, At, Sealed13, Decided, Decided13
  <2>3. ServerOwn(t, g.cfg.versions)
    BY <1>3, <1>16, <2>1, <2>2, ServerOwn13
  <2>4. Fixed(e, t)
    BY <2>1, <2>2, SMT DEF Fixed, Sealed, At, Sealed13
  <2>5. Told(hello, t)
    BY <1>3, <1>4, <2>1, <2>2 DEF Told
  <2>6. Told(ee, t) /\ Told(cr, t) /\ Told(ce, t)
    BY <1>5, PlainTold
  <2>7. /\ \A y : Sends(t, y) => Sends(x, y) \/ y \in ms
        /\ \A y : Reads(t, y) => Reads(x, y)
    <3>1. X \cap Buffered = {}
      BY DEF Buffered
    <3> HIDE DEF ms, X
    <3> QED BY <1>16, <3>1, FlightEnd
  <2>8. \A y : Sends(t, y) => Sends(e, y) \/ Told(y, t)
    BY <1>7, <2>5, <2>6, <2>7
  <2>9. \A y : Reads(t, y) => Reads(e, y)
    BY <1>7, <2>7
  <2> QED BY <2>3, <2>4, <2>8, <2>9 DEF ServerStep
<1> HIDE DEF ms
<1>17. i.tls13_state = "send_server_hello" /\ DOMAIN i = Fields /\ DOMAIN d = Fields
  BY <1>6, <1>14, <1>15 DEF Flight, Same, Fields, Written
<1>18. ServerStep(e, To13(i, "send_server_finished"), g.cfg.versions)
  <2> DEFINE t == To13(i, "send_server_finished")
  <2>1. Same(i, t, X)
    BY <1>17, Zenon DEF Same, To13
  <2>2. t.tls13_state = "send_server_finished"
    BY <1>17, SMT DEF To13, Fields
  <2> HIDE DEF t, X
  <2>3. ServerStep(e, t, g.cfg.versions)
    BY <1>14, <1>16, <2>1, <2>2
  <2> QED BY <2>3 DEF t
<1>19. ServerStep(e, Error(i, "no_certificate_set"), g.cfg.versions)
  <2> DEFINE t == Error(i, "no_certificate_set")
  <2>1. Same(i, t, X)
    BY <1>17, Zenon DEF Same, Error
  <2>2. t.tls13_state = "send_server_hello"
    BY <1>17, SMT DEF Error, Fields
  <2> HIDE DEF t, X
  <2>3. ServerStep(e, t, g.cfg.versions)
    BY <1>14, <1>16, <2>1, <2>2
  <2> QED BY <2>3 DEF t
<1>20. ServerStep(e, To13(d, "send_server_certificate_verify"), g.cfg.versions)
  <2> DEFINE t == To13(d, "send_server_certificate_verify")
  <2>1. Same(d, t, X)
    BY <1>17, Zenon DEF Same, To13
  <2>2. t.tls13_state = "send_server_certificate_verify"
    BY <1>17, SMT DEF To13, Fields
  <2> HIDE DEF t, X
  <2>3. ServerStep(e, t, g.cfg.versions)
    BY <1>15, <1>16, <2>1, <2>2
  <2> QED BY <2>3 DEF t
<1> QED BY <1>1, <1>18, <1>19, <1>20

\* do_send_server_finished.
LEMMA S13SendServerFinishedStep ==
    ASSUME NEW e, NEW g, ServerTurn(e, g), e.state = "tls13", e.tls13_state = "send_server_finished"
    PROVE  ServerStep(e, S13!do_send_server_finished(e), g.cfg.versions)
<1> DEFINE a == AddMessage(e, Finished("server", e))
           b == [a EXCEPT !.app = [a.secret EXCEPT !.transcript = a.transcript]]
           d == SetWriteKey(b, Key("application", "server", b.app))
           f == To13(d, "send_half_rtt_ticket")
<1>1. S13!do_send_server_finished(e) = f
  <2> DEFINE aa == S13!AddMessage(e, S13!Finished("server", e))
             bb == [aa EXCEPT !.app = [aa.secret EXCEPT !.transcript = aa.transcript]]
             dd == S13!SetWriteKey(bb, S13!Key("application", "server", bb.app))
             ff == S13!To13(dd, "send_half_rtt_ticket")
  <2>1. S13!do_send_server_finished(e) = ff
    BY Zenon DEF S13!do_send_server_finished
  <2>2. aa = a
    BY S13Layer
  <2> HIDE DEF aa, a
  <2>3. bb = b
    BY <2>2, S13Layer
  <2> HIDE DEF bb, b
  <2>4. dd = d
    BY <2>3, S13Layer
  <2> HIDE DEF dd, d
  <2>5. ff = f
    BY <2>4, S13Layer
  <2> HIDE DEF ff, f
  <2> QED BY <2>1, <2>5, <2>2, <2>3, <2>4, S13Layer
<1>2. /\ Good(e, g) /\ Lists(e) /\ DOMAIN e = Fields /\ ServerOwn(e, g.cfg.versions)
      /\ IsSeq(e.transcript) /\ Len(e.transcript) \in Nat /\ e.side = "server"
      /\ e.version \in {0, 12, 13} /\ e.session_reused \in BOOLEAN
      /\ e.cfg.versions \in SUBSET {12, 13}
  BY ServerFacts
<1>3. e.version = 13 /\ \A v \in g.cfg.versions \cap e.cfg.versions : v <= 13
  BY <1>2 DEF ServerOwn, ServerVersion
<1> DEFINE m == Finished("server", e)
<1>4. m.type = "finished" /\ m.secret = e.secret /\ m.over = e.transcript
  BY DEF Finished
<1>5. Flight(e, a, {m}) /\ a.transcript = Append(e.transcript, m)
  BY <1>2, FlightOne
<1> HIDE DEF a, m
<1>6. a.secret = e.secret /\ DOMAIN a = Fields /\ Lists(a)
  BY <1>5 DEF Flight, Same, Fields, Written
<1> DEFINE app == [a.secret EXCEPT !.transcript = a.transcript]
<1>7. Same(a, b, {"app"}) /\ b.app = app
  <2> HIDE DEF app
  <2>1. b = [a EXCEPT !.app = app]
    BY DEF app
  <2> HIDE DEF b
  <2>2. Same(a, b, {"app"})
    BY <1>6, <2>1, Zenon DEF Same
  <2>3. b.app = app
    BY <1>6, <2>1, SMT DEF Fields
  <2> QED BY <2>2, <2>3
<1>8. app = [m.secret EXCEPT !.transcript = Append(m.over, m)]
  BY <1>4, <1>5, <1>6
<1> HIDE DEF b, app
<1>9. Lists(b) /\ (\A x : Sends(b, x) = Sends(a, x) /\ Reads(b, x) = Reads(a, x))
  <2>1. {"app"} \cap Buffered = {}
    BY DEF Buffered
  <2>2. Lists(b)
    BY <1>6, <1>7, <2>1, SameLists
  <2>3. \A x : Sends(b, x) = Sends(a, x) /\ Reads(b, x) = Reads(a, x)
    BY <1>7, SameBuffers
  <2> QED BY <2>2, <2>3
<1>10. /\ Same(b, d, {"pending_flight", "pending_hs_data", "write_key"}) /\ Lists(d)
       /\ d.write_key = Key("application", "server", b.app) /\ \A x : Sends(d, x) => Sends(b, x)
  BY <1>9, SendsSetWriteKey
<1> HIDE DEF d
<1>11. Same(d, f, {"tls13_state"}) /\ f.tls13_state = "send_half_rtt_ticket"
  <2>0. DOMAIN d = Fields
    BY <1>10 DEF Same
  <2>1. Same(d, f, {"tls13_state"})
    BY <2>0, Zenon DEF Same, To13
  <2>2. f.tls13_state = "send_half_rtt_ticket"
    BY <2>0, SMT DEF To13, Fields
  <2> QED BY <2>1, <2>2
<1> HIDE DEF f
<1>12. /\ f.total_renegotiations = e.total_renegotiations /\ f.version = e.version /\ f.cfg = e.cfg
       /\ f.session_reused = e.session_reused /\ f.transcript = a.transcript /\ f.state = "tls13"
       /\ f.secret = e.secret /\ f.app = app /\ f.write_key = Key("application", "server", app)
  <2>1. /\ a.total_renegotiations = e.total_renegotiations /\ a.version = e.version /\ a.cfg = e.cfg
        /\ a.session_reused = e.session_reused /\ a.state = e.state
    BY <1>5 DEF Flight, Same, Fields, Written
  <2>2. /\ b.total_renegotiations = e.total_renegotiations /\ b.version = e.version /\ b.cfg = e.cfg
        /\ b.session_reused = e.session_reused /\ b.state = e.state /\ b.transcript = a.transcript
        /\ b.secret = e.secret
    BY <1>6, <1>7, <2>1 DEF Same, Fields
  <2> QED BY <1>7, <1>10, <1>11, <2>2 DEF Same, Fields
<1>13. IsSeq(f.transcript)
  BY <1>2, <1>5, <1>12, LongerTranscript
<1>14. Derived(f.write_key, App(f, "server"))
  BY <1>12 DEF Derived, App, Key, KeyFields, SameSecret
<1>15. Sealed(f) /\ Fixed(e, f)
  BY <1>11, <1>12, SMT DEF Fixed, Decided, Sealed, At, Decided13, Sealed13
<1>16. ServerOwn(f, g.cfg.versions)
  BY <1>3, <1>11, <1>12, <1>13, <1>14, ServerOwn13
<1>17. Told(m, f)
  BY <1>3, <1>4, <1>8, <1>12, <1>15 DEF Told
<1>18. \A x : Sends(f, x) = Sends(d, x) /\ Reads(f, x) = Reads(d, x)
  BY <1>11, SameBuffers
<1>19. \A x : Reads(d, x) = Reads(b, x)
  BY <1>10, SameBuffers
<1>20. \A x : Reads(a, x) = Reads(e, x)
  <2>1. Written \cap {"inbound", "hs_buf"} = {}
    BY DEF Written
  <2> QED BY <1>5, <2>1, SameBuffers DEF Flight
<1>21. \A x : Sends(a, x) => Sends(e, x) \/ x \in {m}
  BY <1>5 DEF Flight
<1>22. \A x : Sends(f, x) => Sends(e, x) \/ Told(x, f)
  BY <1>9, <1>10, <1>17, <1>18, <1>21
<1>23. \A x : Reads(f, x) => Reads(e, x)
  BY <1>9, <1>18, <1>19, <1>20
<1> QED BY <1>1, <1>15, <1>16, <1>22, <1>23 DEF ServerStep

\* do_process_end_of_early_data.
LEMMA S13ProcessEndOfEarlyDataStep ==
    ASSUME NEW e, NEW g, ServerTurn(e, g), e.state = "tls13", e.tls13_state = "process_end_of_early_data"
    PROVE  ServerStep(e, S13!do_process_end_of_early_data(e), g.cfg.versions)
<1> DEFINE k == S13!hs(e, "client")
           f == [To13(e, "read_client_certificate") EXCEPT !.read_key = k]
<1>1. S13!do_process_end_of_early_data(e) = IF e.hs_buf # <<>> THEN Alert(e, "unexpected_message") ELSE f
  BY Zenon DEF S13!do_process_end_of_early_data, To13, Alert, FlushFlight, FlushPendingHsData,
       Records, Record, Error, HasMessage, Units, Message, SetReadKey, S13!To13, S13!Alert,
       S13!FlushFlight, S13!FlushPendingHsData, S13!Records, S13!Record, S13!Error, S13!HasMessage,
       S13!Units, S13!Message, S13!SetReadKey
<1>2. /\ Good(e, g) /\ Lists(e) /\ DOMAIN e = Fields /\ ServerOwn(e, g.cfg.versions)
      /\ IsSeq(e.transcript) /\ Len(e.transcript) \in Nat /\ e.side = "server"
      /\ e.version \in {0, 12, 13} /\ e.session_reused \in BOOLEAN
      /\ e.cfg.versions \in SUBSET {12, 13}
  BY ServerFacts
<1>3. e.version = 13 /\ \A v \in g.cfg.versions \cap e.cfg.versions : v <= 13
  BY <1>2 DEF ServerOwn, ServerVersion
<1> HIDE DEF k
<1>4. Same(e, f, {"tls13_state", "read_key"}) /\ f.tls13_state = "read_client_certificate"
  <2>1. Same(e, f, {"tls13_state", "read_key"})
    BY <1>2, Zenon DEF Same, To13
  <2>2. f.tls13_state = "read_client_certificate"
    BY <1>2, SMT DEF To13, Fields
  <2> QED BY <2>1, <2>2
<1> HIDE DEF f
<1>5. /\ f.total_renegotiations = e.total_renegotiations /\ f.version = e.version /\ f.cfg = e.cfg
      /\ f.session_reused = e.session_reused /\ f.transcript = e.transcript /\ f.state = "tls13"
      /\ f.secret = e.secret /\ f.app = e.app /\ f.write_key = e.write_key
  BY <1>4 DEF Same, Fields
<1>6. Derived(f.write_key, App(f, "server"))
  <2>1. Sealed(e)
    BY SMT DEF Sealed, At, Sealed13
  <2>2. Derived(e.write_key, App(e, "server"))
    BY <1>2, <1>3, <2>1 DEF ServerOwn, ServerKeys
  <2>3. App(f, "server") = App(e, "server")
    BY <1>5, Zenon DEF App
  <2> QED BY <1>5, <2>2, <2>3
<1>7. ServerOwn(f, g.cfg.versions)
  BY <1>2, <1>3, <1>4, <1>5, <1>6, ServerOwn13
<1>8. Fixed(e, f)
  BY <1>3, <1>4, <1>5, SMT DEF Fixed, Decided, Sealed, At, Decided13, Sealed13
<1>9. \A x : Sends(f, x) = Sends(e, x) /\ Reads(f, x) = Reads(e, x)
  BY <1>4, SameBuffers
<1>10. ServerStep(e, f, g.cfg.versions)
  BY <1>7, <1>8, <1>9 DEF ServerStep
<1>11. ServerStep(e, Alert(e, "unexpected_message"), g.cfg.versions)
  BY ServerStepEnds
<1> QED BY <1>1, <1>10, <1>11

\* do_read_client_finished.
LEMMA S13ReadClientFinishedStep ==
    ASSUME NEW e, NEW g, ServerTurn(e, g), e.state = "tls13", e.tls13_state = "read_client_finished"
    PROVE  ServerStep(e, S13!do_read_client_finished(e), g.cfg.versions)
<1> DEFINE f == To13(Take([e EXCEPT !.read_key = Key("application", "client", e.app)]), "send_new_session_ticket")
           then == IF Message(e) # Finished("client", e) THEN Alert(e, "decrypt_error")
                   ELSE IF Excess(e) THEN Alert(e, "unexpected_message") ELSE f
<1>1. S13!do_read_client_finished(e) = Expect(e, "finished", then)
  BY Zenon DEF S13!do_read_client_finished, To13, Take, NextMessage, Units, Message,
       HashMessage, Key, Finished, Alert, FlushFlight, FlushPendingHsData, Records, Record, Error,
       HasMessage, Excess, Expect, Wait, SetReadKey, S13!To13, S13!Take, S13!NextMessage,
       S13!Units, S13!Message, S13!HashMessage, S13!Key, S13!Finished, S13!Alert, S13!FlushFlight,
       S13!FlushPendingHsData, S13!Records, S13!Record, S13!Error, S13!HasMessage, S13!Excess,
       S13!Expect, S13!Wait, S13!SetReadKey
<1>2. /\ Good(e, g) /\ Lists(e) /\ DOMAIN e = Fields /\ ServerOwn(e, g.cfg.versions)
      /\ IsSeq(e.transcript) /\ Len(e.transcript) \in Nat /\ e.side = "server"
      /\ e.version \in {0, 12, 13} /\ e.session_reused \in BOOLEAN
      /\ e.cfg.versions \in SUBSET {12, 13}
  BY ServerFacts
<1>3. e.version = 13 /\ \A v \in g.cfg.versions \cap e.cfg.versions : v <= 13
  BY <1>2 DEF ServerOwn, ServerVersion
<1> DEFINE key == Key("application", "client", e.app)
           q == [e EXCEPT !.read_key = key]
           n == Take(q)
           X == {"read_key", "transcript", "hs_buf", "tls13_state"}
<1> HIDE DEF key
<1>4. Same(e, q, {"read_key"}) /\ q.read_key = key
  <2>1. Same(e, q, {"read_key"})
    BY <1>2, Zenon DEF Same
  <2>2. q.read_key = key
    BY <1>2, SMT DEF Fields
  <2> QED BY <2>1, <2>2
<1>5. f = To13(n, "send_new_session_ticket")
  BY DEF key
<1> HIDE DEF q
<1>6. DOMAIN q = Fields /\ q.hs_buf = e.hs_buf /\ q.transcript = e.transcript
  BY <1>4 DEF Same, Fields
<1>7. Same(q, n, {"transcript", "hs_buf"}) /\ n.hs_buf = NextMessage(q).hs_buf
      /\ n.transcript = Append(q.transcript, Message(q)) /\ DOMAIN n = Fields
  BY <1>6, TakeFields
<1> HIDE DEF n, f
<1>8. NextMessage(q).hs_buf = NextMessage(e).hs_buf
  <2>1. Message(q) = Message(e)
    BY <1>6 DEF Message
  <2> QED BY <1>2, <1>6, <2>1, SMT DEF NextMessage, Fields
<1>9. Same(n, f, {"tls13_state"}) /\ f.tls13_state = "send_new_session_ticket"
  <2>1. Same(n, f, {"tls13_state"})
    BY <1>5, <1>7, Zenon DEF Same, To13
  <2>2. f.tls13_state = "send_new_session_ticket"
    BY <1>5, <1>7, SMT DEF To13, Fields
  <2> QED BY <2>1, <2>2
<1>10. Same(e, f, X) /\ f.hs_buf = NextMessage(e).hs_buf /\ f.transcript = Append(e.transcript, Message(q)) /\ f.read_key = key
  BY <1>4, <1>6, <1>7, <1>8, <1>9 DEF Same, Fields
<1>11. /\ f.total_renegotiations = e.total_renegotiations /\ f.version = e.version /\ f.cfg = e.cfg
       /\ f.session_reused = e.session_reused /\ f.state = "tls13"
       /\ f.secret = e.secret /\ f.app = e.app /\ f.write_key = e.write_key
  BY <1>10 DEF Same, Fields
<1>12. IsSeq(f.transcript)
  BY <1>2, <1>10, LongerTranscript
<1>13. Derived(f.write_key, App(f, "server"))
  <2>1. Sealed(e)
    BY SMT DEF Sealed, At, Sealed13
  <2>2. Derived(e.write_key, App(e, "server"))
    BY <1>2, <1>3, <2>1 DEF ServerOwn, ServerKeys
  <2>3. App(f, "server") = App(e, "server")
    BY <1>11, Zenon DEF App
  <2> QED BY <1>11, <2>2, <2>3
<1>14. Derived(f.read_key, App(f, "client"))
  BY <1>10, <1>11 DEF Derived, App, Key, KeyFields, SameSecret, key
<1>15. ServerOwn(f, g.cfg.versions)
  BY <1>3, <1>9, <1>11, <1>12, <1>13, <1>14, ServerOwn13
<1>16. Fixed(e, f)
  BY <1>3, <1>9, <1>11, SMT DEF Fixed, Decided, Sealed, At, Decided13, Sealed13
<1>17. ASSUME HasMessage(e) PROVE ServerStep(e, f, g.cfg.versions)
  <2>1. X \cap Buffered \subseteq {"hs_buf"}
    BY DEF Buffered
  <2>2. (\A x : Sends(f, x) => Sends(e, x)) /\ (\A x : Reads(f, x) => Reads(e, x))
    <3> HIDE DEF X
    <3> QED BY <1>2, <1>10, <1>17, <2>1, TakenFrom
  <2> QED BY <1>15, <1>16, <2>2 DEF ServerStep
<1>18. ServerStep(e, Alert(e, "decrypt_error"), g.cfg.versions)
       /\ ServerStep(e, Alert(e, "unexpected_message"), g.cfg.versions)
  BY ServerStepEnds
<1>19. ASSUME HasMessage(e) PROVE ServerStep(e, then, g.cfg.versions)
  BY <1>17, <1>18, <1>19
<1> HIDE DEF then
<1> QED BY <1>1, <1>2, <1>19, ExpectCases, ServerStepNone

-----------------------------------------------------------------------------
(***************************************************************************)
(* What the calls do around the state machine, and on the established      *)
(* connection: nothing about what is agreed on, but that keys are rotated. *)
(***************************************************************************)
\* What a change of idle fields and of the buffers, without a change of the state, keeps.
LEMMA StaysIdle ==
    ASSUME NEW e, NEW f, Same(e, f, Idle \cup Buffered), f.state = e.state, f.tls13_state = e.tls13_state,
           \A m : Sends(f, m) => Sends(e, m) \/ Plain(m), \A m : Reads(f, m) => Reads(e, m)
    PROVE  Stays(e, f)
<1>1. Same(e, f, Idle \cup Buffered \cup {"transcript"})
  BY SameWider
<1>2. f.transcript = e.transcript
  BY SMT DEF Same, Fields, Idle, Buffered
<1>3. Keeps(e, f)
  BY <1>1, <1>2, ExtendsItself, KeepsIdle
<1> QED BY <1>3 DEF Stays

\* A change of idle fields alone keeps all of it.
LEMMA StaysSame ==
    ASSUME NEW e, NEW f, Same(e, f, Idle), f.state = e.state, f.tls13_state = e.tls13_state
    PROVE  Stays(e, f)
BY KeepsSame DEF Stays

\* A record is taken off the wire, and what it carries may be kept to be read.
LEMMA StaysTail ==
    ASSUME NEW e, NEW g, Good(e, g), e.inbound # <<>>
    PROVE  LET f == [e EXCEPT !.inbound = Tail(@)]
               h == [f EXCEPT !.hs_buf = @ \o Head(e.inbound).units]
           IN  Stays(e, f) /\ Lists(f) /\ Stays(e, h) /\ DOMAIN h = Fields
<1> DEFINE f == [e EXCEPT !.inbound = Tail(@)]
           us == Head(e.inbound).units
           h == [f EXCEPT !.hs_buf = @ \o us]
<1>1. Lists(e) /\ DOMAIN e = Fields
  BY GoodLists DEF Good, Typed
<1>2. IsSeq(us)
  <2>1. SoundRecords(e.inbound, g)
    BY DEF Good, Wire, Carries
  <2>2. Head(e.inbound) = e.inbound[1] /\ 1 \in 1..Len(e.inbound)
    BY <1>1, SeqHead, SeqLen, SeqNone DEF Lists
  <2> QED BY <2>1, <2>2 DEF SoundRecords, SoundUnits
<1>3. Same(e, f, {"inbound"}) /\ f.inbound = Tail(e.inbound)
  BY <1>1, Zenon DEF Same, Fields
<1>4. IsSeq(Tail(e.inbound))
  BY <1>1, SeqHead DEF Lists
<1>5. /\ f.state = e.state /\ f.tls13_state = e.tls13_state /\ f.hs_buf = e.hs_buf
      /\ f.pending_hs_data = e.pending_hs_data /\ f.pending_flight = e.pending_flight
      /\ f.outbound = e.outbound /\ DOMAIN f = Fields
  <2> HIDE DEF f
  <2> QED BY <1>3 DEF Same, Fields
<1> HIDE DEF us, f
<1>6. Same(f, h, {"hs_buf"}) /\ h.hs_buf = e.hs_buf \o us
  BY <1>5, Zenon DEF Same, Fields
<1> HIDE DEF h
<1>7. /\ h.state = e.state /\ h.tls13_state = e.tls13_state /\ h.inbound = Tail(e.inbound)
      /\ h.pending_hs_data = e.pending_hs_data /\ h.pending_flight = e.pending_flight
      /\ h.outbound = e.outbound /\ DOMAIN h = Fields
  BY <1>3, <1>5, <1>6 DEF Same, Fields
<1>8. ASSUME NEW x PROVE /\ InRecords(x, Tail(e.inbound)) => InRecords(x, e.inbound)
                         /\ InUnits(x, us) => InRecords(x, e.inbound)
  BY <1>1, InTail DEF Lists, us
<1>9. ASSUME NEW x PROVE /\ Sends(f, x) => Sends(e, x)
                         /\ Reads(f, x) => Reads(e, x)
  BY <1>3, <1>5, <1>8 DEF Sends, Reads
<1>10. ASSUME NEW x PROVE /\ Sends(h, x) => Sends(e, x)
                          /\ Reads(h, x) => Reads(e, x)
  <2>1. InUnits(x, e.hs_buf \o us) => InUnits(x, e.hs_buf) \/ InUnits(x, us)
    BY <1>1, <1>2, InConcat DEF Lists
  <2> QED BY <1>6, <1>7, <1>8, <2>1 DEF Sends, Reads
<1>11. Same(e, f, Idle \cup Buffered)
  BY <1>3, SameWider DEF Buffered
<1>12. Same(e, h, Idle \cup Buffered)
  <2>1. Same(e, h, {"inbound"} \cup {"hs_buf"})
    BY <1>3, <1>6, SameTrans
  <2> QED BY <2>1, SameWider DEF Buffered
<1>13. Stays(e, f) /\ Stays(e, h)
  BY <1>5, <1>7, <1>9, <1>10, <1>11, <1>12, StaysIdle
<1>14. Lists(f)
  BY <1>1, <1>3, <1>4, <1>5 DEF Lists
<1> QED BY <1>7, <1>13, <1>14 DEF f, h, us

\* tls_open_handshake and tls_open_change_cipher_spec.
LEMMA StaysOpenRecord ==
    ASSUME NEW e, NEW g, Good(e, g), e.inbound # <<>>
    PROVE  Stays(e, OpenRecord(e))
<1> DEFINE r == Head(e.inbound)
           f == [e EXCEPT !.inbound = Tail(@)]
           h == [f EXCEPT !.hs_buf = @ \o r.units]
           w == Wait(h, "ok")
<1>1. Stays(e, f) /\ Lists(f) /\ Stays(e, h) /\ DOMAIN h = Fields
  BY StaysTail
<1>2. OpenRecord(e) \in {f, w, Error(f, "peer_alert"), Alert(e, "internal_error"),
                         Alert(f, "bad_record_mac"), Alert(f, "unexpected_message")}
  BY Zenon DEF OpenRecord
<1> HIDE DEF f, h
<1>3. Stays(e, w)
  BY <1>1, StaysWait, StaysTrans
<1>4. ASSUME NEW why PROVE Stays(e, Error(f, why)) /\ Stays(e, Alert(f, why)) /\ Stays(e, Alert(e, why))
  <2>1. Lists(e) /\ DOMAIN f = Fields
    BY <1>1, GoodLists DEF Lists
  <2>2. Stays(f, Error(f, why)) /\ Stays(f, Alert(f, why)) /\ Stays(e, Alert(e, why))
    BY <1>1, <2>1, StaysError, StaysAlert
  <2> QED BY <1>1, <2>2, StaysTrans
<1> HIDE DEF w
<1> QED BY <1>1, <1>2, <1>3, <1>4

\* tls_open_app_data.
LEMMA StaysOpenAppData ==
    ASSUME NEW e, NEW g, Good(e, g), e.inbound # <<>>
    PROVE  Stays(e, Data!OpenAppData(e))
<1> DEFINE r == Head(e.inbound)
           f == [e EXCEPT !.inbound = Tail(@)]
           h == [f EXCEPT !.hs_buf = @ \o r.units]
           a == [f EXCEPT !.received = @ + 1, !.key_update_count = 0]
<1>1. Data!OpenAppData(e) \in {h, a, Error(f, "peer_alert"), Alert(f, "bad_record_mac"),
                               Alert(f, "unexpected_message"), Alert(f, "no_renegotiation")}
  <2>1. Data!OpenAppData(e) \in {h, a, Data!Error(f, "peer_alert"), Data!Alert(f, "bad_record_mac"),
                               Data!Alert(f, "unexpected_message"), Data!Alert(f, "no_renegotiation")}
    BY Zenon DEF Data!OpenAppData
  <2> HIDE DEF h, a, f
  <2> QED BY <2>1, DataLayer
<1>2. Stays(e, f) /\ Lists(f) /\ Stays(e, h)
  BY StaysTail
<1> HIDE DEF f, h
<1>3. Stays(e, a)
  <2>1. DOMAIN f = Fields
    BY <1>2 DEF Lists
  <2>2. Same(f, a, {"received", "key_update_count"})
    BY <2>1, Zenon DEF Same
  <2> HIDE DEF a
  <2>3. Same(f, a, Idle) /\ a.state = f.state /\ a.tls13_state = f.tls13_state
    BY <2>2, SameWider DEF Idle, Same, Fields
  <2> QED BY <1>2, <2>3, StaysSame, StaysTrans
<1>4. ASSUME NEW why PROVE Stays(e, Error(f, why)) /\ Stays(e, Alert(f, why))
  <2>1. DOMAIN f = Fields
    BY <1>2 DEF Lists
  <2>2. Stays(f, Error(f, why)) /\ Stays(f, Alert(f, why))
    BY <1>2, <2>1, StaysError, StaysAlert
  <2> QED BY <1>2, <2>2, StaysTrans
<1> HIDE DEF a
<1> QED BY <1>1, <1>2, <1>3, <1>4

\* A key that is rotated is the same one, of the next generation.
LEMMA TurnsRotated == ASSUME NEW k PROVE Turns(k, Data!Rotated(k))
<1> SUFFICES ASSUME DOMAIN k = KeyFields
             PROVE  DOMAIN Data!Rotated(k) = KeyFields /\ SameSecret(Data!Rotated(k), k)
  BY DEF Turns
<1> DEFINE l == Data!Rotated(k)
<1>1. l = [k EXCEPT !.generation = @ + 1]
  BY Zenon DEF Data!Rotated
<1>2. DOMAIN l = DOMAIN k /\ l.level = k.level /\ l.side = k.side /\ l.secret = k.secret
  BY <1>1, SMT DEF KeyFields
<1> QED BY <1>2 DEF SameSecret

\* tls13_add_key_update.
LEMMA StaysAddKeyUpdate ==
    ASSUME NEW e, NEW requested, Lists(e)
    PROVE  LET f == Data!tls13_add_key_update(e, requested) IN Stays(e, f) /\ Lists(f) /\ f.hs_buf = e.hs_buf
<1> DEFINE m == [type |-> "key_update", requested |-> requested]
           a == AddMessage(e, m)
           k == Data!Rotated(a.write_key)
           d == SetWriteKey(a, k)
           f == [d EXCEPT !.key_update_pending = TRUE, !.transcript = e.transcript]
<1>1. Data!tls13_add_key_update(e, requested) = f
  <2> DEFINE aa == Data!AddMessage(e, m)
             dd == Data!SetWriteKey(aa, Data!Rotated(aa.write_key))
  <2>1. Data!tls13_add_key_update(e, requested) = [dd EXCEPT !.key_update_pending = TRUE, !.transcript = e.transcript]
    BY Zenon DEF Data!tls13_add_key_update
  <2>2. aa = a
    BY DataLayer
  <2> HIDE DEF aa, a
  <2>3. dd = d
    BY <2>2, DataLayer
  <2> HIDE DEF dd, d
  <2> QED BY <2>1, <2>3
<1>2. /\ Same(e, a, {"pending_flight", "pending_hs_data", "transcript"}) /\ Lists(a)
      /\ \A x : Sends(a, x) => Sends(e, x) \/ x = m
  BY SendsAddMessage
<1>3. Plain(m)
  BY DEF Plain
<1> HIDE DEF m, a
<1>4. a.write_key = e.write_key
  BY <1>2 DEF Same, Fields
<1>5. Turns(e.write_key, k)
  BY <1>4, TurnsRotated
<1> HIDE DEF k
<1>6. /\ Same(a, d, {"pending_flight", "pending_hs_data", "write_key"}) /\ Lists(d)
      /\ d.write_key = k /\ \A x : Sends(d, x) => Sends(a, x)
  BY <1>2, SendsSetWriteKey
<1> HIDE DEF d
<1>7. Same(d, f, {"key_update_pending", "transcript"}) /\ f.transcript = e.transcript
  <2>1. DOMAIN d = Fields
    BY <1>6 DEF Lists
  <2> QED BY <2>1, Zenon DEF Same, Fields
<1> HIDE DEF f
<1>8. /\ f.pending_hs_data = d.pending_hs_data /\ f.pending_flight = d.pending_flight /\ f.outbound = d.outbound
      /\ f.inbound = d.inbound /\ f.hs_buf = d.hs_buf /\ DOMAIN f = Fields /\ f.write_key = d.write_key
  BY <1>7 DEF Same, Fields
<1>9. Lists(f)
  BY <1>6, <1>8 DEF Lists
<1>10. \A x : Sends(f, x) => Sends(e, x) \/ Plain(x)
  <2>1. ASSUME NEW x PROVE Sends(f, x) = Sends(d, x)
    BY <1>8, Zenon DEF Sends
  <2> QED BY <1>2, <1>3, <1>6, <2>1
<1>11. d.inbound = e.inbound /\ d.hs_buf = e.hs_buf
  <2>1. d.inbound = a.inbound /\ d.hs_buf = a.hs_buf
    BY <1>6 DEF Same, Fields
  <2>2. a.inbound = e.inbound /\ a.hs_buf = e.hs_buf
    BY <1>2 DEF Same, Fields
  <2> QED BY <2>1, <2>2
<1>12. \A x : Reads(f, x) => Reads(e, x)
  BY <1>8, <1>11 DEF Reads
<1>13. Same(e, f, Written \cup {"key_update_pending", "transcript"})
  <2>1. Same(e, a, Written) /\ Same(a, d, Written)
    BY <1>2, <1>6, SameWider DEF Written
  <2>2. Same(e, d, Written \cup Written)
    BY <2>1, SameTrans
  <2>3. Same(e, f, (Written \cup Written) \cup {"key_update_pending", "transcript"})
    BY <1>7, <2>2, SameTrans
  <2> QED BY <2>3, SameWider
<1>14. /\ f.side = e.side /\ f.cfg = e.cfg /\ f.version = e.version
       /\ f.session_reused = e.session_reused /\ f.secret = e.secret /\ f.app = e.app
       /\ f.total_renegotiations = e.total_renegotiations /\ f.read_key = e.read_key
       /\ f.state = e.state /\ f.tls13_state = e.tls13_state
  BY <1>13, SMT DEF Same, Fields, Written
<1>15. Keeps(e, f)
  <2>1. Extends(e.transcript, f.transcript)
    BY <1>7, ExtendsItself
  <2>2. Turns(e.read_key, f.read_key) /\ Turns(e.write_key, f.write_key)
    BY <1>5, <1>6, <1>8, <1>14, TurnsItself
  <2> QED BY <1>8, <1>10, <1>12, <1>14, <2>1, <2>2, Zenon DEF Keeps
<1> QED BY <1>1, <1>8, <1>9, <1>11, <1>14, <1>15 DEF Stays

\* SSL_key_update.
LEMMA StaysKeyUpdate ==
    ASSUME NEW e, NEW requested, Lists(e)
    PROVE  LET f == Data!SSL_key_update(e, requested) IN Stays(e, f) /\ Lists(f) /\ f.hs_buf = e.hs_buf
<1> DEFINE a == Data!tls13_add_key_update(e, requested)
<1>1. Stays(e, a) /\ Lists(a) /\ a.hs_buf = e.hs_buf
  BY StaysAddKeyUpdate
<1>2. Stays(e, e)
  BY StaysItself DEF Lists
<1> HIDE DEF a
<1>3. Data!SSL_key_update(e, requested) = IF e.key_update_pending THEN e ELSE a
  BY DEF Data!SSL_key_update, a
<1> QED BY <1>1, <1>2, <1>3

\* A message that is taken without being hashed.
LEMMA StaysNext ==
    ASSUME NEW e, Lists(e), HasMessage(e)
    PROVE  Stays(e, NextMessage(e))
<1> DEFINE f == NextMessage(e)
<1>1. Same(e, f, {"hs_buf"}) /\ \A x : Reads(f, x) => Reads(e, x)
  BY ReadsMessage
<1> HIDE DEF f
<1>2. Same(e, f, Idle \cup Buffered)
  BY <1>1, SameWider DEF Buffered
<1>3. \A x : Sends(f, x) = Sends(e, x)
  BY <1>1, SameBuffers
<1>4. f.state = e.state /\ f.tls13_state = e.tls13_state
  BY <1>1 DEF Same, Fields
<1> QED BY <1>1, <1>2, <1>3, <1>4, StaysIdle DEF f

\* tls13_receive_key_update.
LEMMA StaysReceiveKeyUpdate ==
    ASSUME NEW e, Lists(e), HasMessage(e)
    PROVE  Stays(e, Data!tls13_receive_key_update(e))
<1> DEFINE k == Data!Rotated(e.read_key)
           f == [e EXCEPT !.read_key = k, !.key_update_count = @ + 1]
           ff == [e EXCEPT !.read_key = Data!Rotated(@), !.key_update_count = @ + 1]
           a == Data!SSL_key_update(f, FALSE)
           x == IF Message(e).requested THEN a ELSE f
<1>0. f = ff
  BY Zenon
<1>1. Data!tls13_receive_key_update(e) = IF Excess(e) THEN Alert(e, "unexpected_message") ELSE NextMessage(x)
  <2> DEFINE aa == Data!SSL_key_update(ff, FALSE)
  <2>1. Data!tls13_receive_key_update(e) =
          IF Data!Excess(e) THEN Data!Alert(e, "unexpected_message")
          ELSE Data!NextMessage(IF Data!Message(e).requested THEN aa ELSE ff)
    BY Zenon DEF Data!tls13_receive_key_update
  <2> HIDE DEF ff, f
  <2>2. aa = a
    BY <1>0, Zenon
  <2> HIDE DEF aa, a
  <2> QED BY <1>0, <2>1, <2>2, DataLayer
<1>2. Turns(e.read_key, k)
  BY TurnsRotated
<1> HIDE DEF k
<1>3. Same(e, f, {"read_key", "key_update_count"}) /\ f.read_key = k
  BY Zenon DEF Same, Fields, Lists
<1> HIDE DEF f, ff
<1>4. /\ f.side = e.side /\ f.cfg = e.cfg /\ f.version = e.version
      /\ f.session_reused = e.session_reused /\ f.secret = e.secret /\ f.app = e.app
      /\ f.total_renegotiations = e.total_renegotiations /\ f.write_key = e.write_key
      /\ f.state = e.state /\ f.tls13_state = e.tls13_state /\ f.transcript = e.transcript
      /\ f.hs_buf = e.hs_buf /\ DOMAIN f = Fields
  BY <1>3, SMT DEF Same, Fields
<1>5. Keeps(e, f)
  <2>1. \A m : Sends(f, m) = Sends(e, m) /\ Reads(f, m) = Reads(e, m)
    BY <1>3, SameBuffers
  <2>2. Extends(e.transcript, f.transcript)
    BY <1>4, ExtendsItself
  <2>3. Turns(e.read_key, f.read_key) /\ Turns(e.write_key, f.write_key)
    BY <1>2, <1>3, <1>4, TurnsItself
  <2> QED BY <1>4, <2>1, <2>2, <2>3, Zenon DEF Keeps
<1>6. Stays(e, f) /\ Lists(f)
  <2>1. {"read_key", "key_update_count"} \cap Buffered = {}
    BY DEF Buffered
  <2> QED BY <1>3, <1>4, <1>5, <2>1, SameLists DEF Stays
<1>7. Stays(e, x) /\ Lists(x) /\ x.hs_buf = e.hs_buf
  <2>1. Stays(f, a) /\ Lists(a) /\ a.hs_buf = f.hs_buf
    BY <1>6, StaysKeyUpdate
  <2> HIDE DEF a
  <2> QED BY <1>4, <1>6, <2>1, StaysTrans
<1> HIDE DEF x
<1>8. Stays(e, NextMessage(x))
  <2>1. HasMessage(x)
    BY <1>7 DEF HasMessage
  <2> QED BY <1>7, <2>1, StaysNext, StaysTrans
<1> QED BY <1>1, <1>8, StaysAlert

\* tls13_post_handshake.
LEMMA StaysPostHandshake13 ==
    ASSUME NEW e, Lists(e), HasMessage(e)
    PROVE  Stays(e, Data!tls13_post_handshake(e))
<1> DEFINE f == [e EXCEPT !.key_update_count = 0]
           r == Data!tls13_receive_key_update(e)
<1>1. Same(e, f, {"key_update_count"})
  BY Zenon DEF Same, Fields, Lists
<1>2. Data!tls13_post_handshake(e) \in {r, NextMessage(f), Alert(e, "unexpected_message")}
  <2>1. Data!tls13_post_handshake(e) \in {r, Data!NextMessage(f), Data!Alert(e, "unexpected_message")}
    BY Zenon DEF Data!tls13_post_handshake
  <2> HIDE DEF r, f
  <2> QED BY <2>1, DataLayer
<1>3. Stays(e, r)
  BY StaysReceiveKeyUpdate
<1> HIDE DEF f, r
<1>4. f.state = e.state /\ f.tls13_state = e.tls13_state /\ f.hs_buf = e.hs_buf
  BY <1>1 DEF Same, Fields
<1>5. Same(e, f, Idle) /\ {"key_update_count"} \cap Buffered = {}
  BY <1>1, SameWider DEF Idle, Buffered
<1>6. Stays(e, f) /\ Lists(f)
  BY <1>1, <1>4, <1>5, StaysSame, SameLists
<1>7. HasMessage(f)
  BY <1>4 DEF HasMessage
<1>8. Stays(e, NextMessage(f))
  BY <1>6, <1>7, StaysNext, StaysTrans
<1> QED BY <1>2, <1>3, <1>8, StaysAlert

\* ssl_do_post_handshake: only a HelloRequest changes anything.
LEMMA StaysPostHandshake ==
    ASSUME NEW e, Lists(e), HasMessage(e)
    PROVE  LET f == Data!ssl_do_post_handshake(e)
           IN  \/ Stays(e, f)
               \/ Message(e).type = "hello_request" /\ f.total_renegotiations = e.total_renegotiations + 1
<1> DEFINE n == Data!Renewed(e)
           f == NextMessage(n)
           r == Data!tls13_post_handshake(e)
           p == Data!ssl_do_post_handshake(e)
<1>1. \/ p \in {r, Alert(e, "decode_error"), Alert(e, "no_renegotiation")}
      \/ p = f /\ Message(e).type = "hello_request"
  <2>1. \/ p \in {r, Data!Alert(e, "decode_error"), Data!Alert(e, "no_renegotiation")}
        \/ p = Data!NextMessage(n) /\ Data!Message(e).type = "hello_request"
    BY Zenon DEF Data!ssl_do_post_handshake
  <2> HIDE DEF r, n, p
  <2> QED BY <2>1, DataLayer
<1>2. Stays(e, r)
  BY StaysPostHandshake13
<1>3. DOMAIN n = Fields /\ n.total_renegotiations = e.total_renegotiations + 1
  BY OnRenewed
<1> HIDE DEF r, n, p
<1>4. Same(n, f, {"hs_buf"})
  BY <1>3, Zenon DEF Same, NextMessage
<1> HIDE DEF f
<1>5. f.total_renegotiations = e.total_renegotiations + 1
  BY <1>3, <1>4 DEF Same, Fields
<1>6. Stays(e, p) \/ (Message(e).type = "hello_request" /\ p.total_renegotiations = e.total_renegotiations + 1)
  BY <1>1, <1>2, <1>5, StaysAlert
<1> QED BY <1>6 DEF p

\* The call returns, or is made.
LEMMA StaysReturn ==
    ASSUME NEW e, NEW b, DOMAIN e = Fields
    PROVE  Stays(e, [e EXCEPT !.running = b])
<1> DEFINE f == [e EXCEPT !.running = b]
<1>1. Same(e, f, {"running"})
  BY Zenon DEF Same
<1> HIDE DEF f
<1>2. Same(e, f, Idle) /\ f.state = e.state /\ f.tls13_state = e.tls13_state
  BY <1>1, SameWider DEF Idle, Same, Fields
<1> QED BY <1>2, StaysSame DEF f

\* ssl_read_impl.
LEMMA StaysSSLRead ==
    ASSUME NEW e, NEW g, Good(e, g)
    PROVE  LET f == Data!SSL_read(e)
           IN  \/ Stays(e, f)
               \/ /\ HasMessage(e) /\ Message(e).type = "hello_request"
                  /\ f.total_renegotiations = e.total_renegotiations + 1
<1> DEFINE a == Data!ssl_do_post_handshake(e)
           b == Data!OpenAppData(e)
           c == [e EXCEPT !.running = FALSE]
<1>0. Lists(e) /\ DOMAIN e = Fields
  BY GoodLists DEF Good, Typed
<1>1. Data!SSL_read(e) = IF Data!HasMessage(e) THEN a ELSE IF e.inbound # <<>> THEN b ELSE c
  BY Zenon DEF Data!SSL_read
<1>2. Stays(e, c)
  BY <1>0, StaysReturn
<1>3. Data!HasMessage(e) = HasMessage(e)
  BY DataLayer
<1>4. HasMessage(e) => \/ Stays(e, a)
                       \/ Message(e).type = "hello_request" /\ a.total_renegotiations = e.total_renegotiations + 1
  BY <1>0, StaysPostHandshake
<1>5. e.inbound # <<>> => Stays(e, b)
  BY StaysOpenAppData
<1> HIDE DEF a, b, c
<1> QED BY <1>1, <1>2, <1>3, <1>4, <1>5

\* tls_write_app_data.
LEMMA StaysSSLWrite ==
    ASSUME NEW e, Lists(e)
    PROVE  Stays(e, Data!SSL_write(e))
<1> DEFINE r == Record("application_data", e.write_key, <<>>)
           h == FlushFlight(e)
           f == [h EXCEPT !.outbound = Append(@, r), !.sent = @ + 1, !.key_update_pending = FALSE]
<1>1. Data!SSL_write(e) = f
  <2> DEFINE rr == Data!Record("application_data", e.write_key, <<>>)
             hh == Data!FlushFlight(e)
  <2>1. Data!SSL_write(e) = [hh EXCEPT !.outbound = Append(@, rr), !.sent = @ + 1, !.key_update_pending = FALSE]
    BY Zenon DEF Data!SSL_write
  <2>2. rr = r /\ hh = h
    BY DataLayer
  <2> HIDE DEF rr, r, hh, h
  <2> QED BY <2>1, <2>2
<1>2. Stays(e, h) /\ Lists(h)
  BY StaysFlushFlight
<1>3. r.units = <<>>
  BY DEF Record
<1> HIDE DEF h, r
<1>4. Same(h, f, {"outbound", "sent", "key_update_pending"}) /\ f.outbound = Append(h.outbound, r)
  <2>1. DOMAIN h = Fields
    BY <1>2 DEF Lists
  <2> QED BY <2>1, Zenon DEF Same, Fields
<1> HIDE DEF f
<1>5. /\ f.pending_hs_data = h.pending_hs_data /\ f.pending_flight = h.pending_flight
      /\ f.inbound = h.inbound /\ f.hs_buf = h.hs_buf
      /\ f.state = h.state /\ f.tls13_state = h.tls13_state
  BY <1>4, SMT DEF Same, Fields
<1>6. ASSUME NEW x PROVE InRecords(x, f.outbound) => InRecords(x, h.outbound)
  BY <1>2, <1>3, <1>4, InLastRecord, InNothing DEF Lists
<1>7. \A x : (Sends(f, x) => Sends(h, x)) /\ (Reads(f, x) => Reads(h, x))
  BY <1>5, <1>6 DEF Sends, Reads
<1>8. Same(h, f, Idle \cup Buffered)
  BY <1>4, SameWider DEF Idle, Buffered
<1>9. Stays(h, f)
  BY <1>5, <1>7, <1>8, StaysIdle
<1> QED BY <1>1, <1>2, <1>9, StaysTrans

\* The flight has left.
LEMMA StaysFlush == ASSUME NEW e, Lists(e) PROVE Stays(e, Wait(FlushFlight(e), "ok"))
<1> DEFINE h == FlushFlight(e)
<1>1. Stays(e, h) /\ DOMAIN h = Fields
  BY StaysFlushFlight DEF Lists
<1> HIDE DEF h
<1>2. Stays(e, Wait(h, "ok"))
  BY <1>1, StaysWait, StaysTrans
<1> QED BY <1>2 DEF h

\* The user is asked, ...
LEMMA StaysWantCallback ==
    ASSUME NEW e, DOMAIN e = Fields
    PROVE  Stays(e, [Wait(e, "ok") EXCEPT !.running = FALSE])
<1> DEFINE h == Wait(e, "ok")
<1>1. Stays(e, h)
  BY StaysWait
<1> HIDE DEF h
<1>2. Stays(e, [h EXCEPT !.running = FALSE])
  BY <1>1, StaysReturn, StaysTrans DEF Stays, Keeps
<1> QED BY <1>2 DEF h

\* ... and answers.
LEMMA StaysAnswer ==
    ASSUME NEW e, NEW v, DOMAIN e = Fields
    PROVE  /\ Stays(e, [[e EXCEPT !.verify = v] EXCEPT !.running = TRUE])
           /\ Stays(e, [[e EXCEPT !.key_result = v] EXCEPT !.running = TRUE])
<1> DEFINE f == [[e EXCEPT !.verify = v] EXCEPT !.running = TRUE]
           h == [[e EXCEPT !.key_result = v] EXCEPT !.running = TRUE]
<1>1. Same(e, f, {"verify", "running"}) /\ Same(e, h, {"key_result", "running"})
  BY Zenon DEF Same
<1> HIDE DEF f, h
<1>2. Same(e, f, Idle) /\ f.state = e.state /\ f.tls13_state = e.tls13_state
  BY <1>1, SameWider DEF Idle, Same, Fields
<1>3. Same(e, h, Idle) /\ h.state = e.state /\ h.tls13_state = e.tls13_state
  BY <1>1, SameWider DEF Idle, Same, Fields
<1> QED BY <1>2, <1>3, StaysSame DEF f, h

-----------------------------------------------------------------------------
(***************************************************************************)
(* What binds the two endpoints, as long as the server has not asked for a *)
(* renegotiation: the client agrees with the server as far as it has come, *)
(* and each message under way says what is so.                             *)
(***************************************************************************)
Bound(c, s) ==
    /\ ClientOwn(c, s) /\ ServerOwn(s, c.cfg.versions)
    /\ \A m : Sends(s, m) \/ Reads(c, m) => Told(m, s)
    /\ \A m : Sends(c, m) \/ Reads(s, m) => Offers(m, c.cfg.versions)

\* The inductive invariant.
BondInv == Server.total_renegotiations = 0 => Bound(Client, Server)

\* A step of the client leaves them bound, ...
LEMMA BoundClient ==
    ASSUME NEW c, NEW d, NEW s, Bound(c, s), ClientStep(c, d, s)
    PROVE  Bound(d, s)
<1>1. d.cfg = c.cfg /\ ClientOwn(d, s)
  BY DEF ClientStep
<1>2. ServerOwn(s, d.cfg.versions)
  BY <1>1 DEF Bound
<1>3. \A m : Sends(s, m) \/ Reads(d, m) => Told(m, s)
  BY DEF Bound, ClientStep
<1>4. \A m : Sends(d, m) \/ Reads(s, m) => Offers(m, d.cfg.versions)
  BY <1>1 DEF Bound, ClientStep
<1> QED BY <1>1, <1>2, <1>3, <1>4 DEF Bound

\* ... and so does a step of the server.
LEMMA BoundServer ==
    ASSUME NEW c, NEW s, NEW t, Bound(c, s), ServerStep(s, t, c.cfg.versions), c.version \in {0, 12, 13}
    PROVE  Bound(c, t)
<1>1. Fixed(s, t) /\ ServerOwn(t, c.cfg.versions)
  BY DEF ServerStep
<1>2. ClientOwn(c, t)
  <2>1. ClientVersion(c, s)
    BY DEF Bound, ClientOwn
  <2>2. At(c, Shown12 \cup ClientEnd, Shown13) => c.version # 0
    BY <2>1 DEF ClientVersion, At
  <2> QED BY <1>1, <2>2, FixedClient DEF Bound
<1>3. ASSUME NEW m, Sends(t, m) \/ Reads(c, m) PROVE Told(m, t)
  <2>1. Sends(t, m) => Sends(s, m) \/ Told(m, t)
    BY DEF ServerStep
  <2>2. Sends(s, m) \/ Reads(c, m) => Told(m, s)
    BY DEF Bound
  <2> QED BY <1>1, <1>3, <2>1, <2>2, FixedTold
<1>4. \A m : Sends(c, m) \/ Reads(t, m) => Offers(m, c.cfg.versions)
  BY DEF Bound, ServerStep
<1> QED BY <1>1, <1>2, <1>3, <1>4 DEF Bound

\* What the invariants say of a client and of a server, as long as there is no renegotiation.
LEMMA BondTurns ==
    ASSUME Inv, BondInv
    PROVE  /\ Good(Client, Server) /\ Client.side = "client" /\ Good(Server, Client) /\ Server.side = "server"
           /\ Server.total_renegotiations = 0 => /\ ClientTurn(Client, Server) /\ ServerTurn(Server, Client)
                                                 /\ Bound(Client, Server)
           /\ Client.version \in {0, 12, 13} /\ Server.total_renegotiations \in Nat
<1>1. "client" \in Sides /\ Peer("client") = "server" /\ "server" \in Sides /\ Peer("server") = "client"
  BY DEF Sides, Peer
<1>2. Good(Client, Server) /\ Client.side = "client" /\ Good(Server, Client) /\ Server.side = "server"
  BY <1>1, AtRest DEF Client, Server
<1>3. Client.version \in {0, 12, 13} /\ Server.total_renegotiations \in Nat
  BY <1>2 DEF Good, Typed
<1>4. ASSUME Server.total_renegotiations = 0
      PROVE  ClientTurn(Client, Server) /\ ServerTurn(Server, Client) /\ Bound(Client, Server)
  <2>1. Bound(Client, Server)
    BY <1>4 DEF BondInv
  <2> QED BY <1>2, <2>1 DEF Bound, ClientTurn, ServerTurn
<1> QED BY <1>2, <1>3, <1>4

\* An update of one side leaves the other one alone.
LEMMA UpdateSides ==
    ASSUME Inv, NEW f
    PROVE  /\ Update("client", f) => Client' = f /\ Server' = Server
           /\ Update("server", f) => Client' = Client /\ Server' = f
<1>1. ep = [p \in Sides |-> ep[p]] /\ "client" \in Sides /\ "server" \in Sides
  BY DEF Inv, Sides
<1> QED BY <1>1 DEF Update, Client, Server

\* The client takes a step.
LEMMA BondClient ==
    ASSUME Inv, BondInv, NEW f, Update("client", f),
           ClientTurn(Client, Server) => ClientStep(Client, f, Server)
    PROVE  BondInv'
<1>1. Client' = f /\ Server' = Server
  BY UpdateSides
<1>2. ASSUME Server.total_renegotiations = 0 PROVE Bound(f, Server)
  BY <1>2, BondTurns, BoundClient
<1>3. BondInv' = (Server'.total_renegotiations = 0 => Bound(Client', Server'))
  BY DEF BondInv
<1> QED BY <1>1, <1>2, <1>3

\* The server takes a step: it may be the one that makes a renegotiation of it,
\* and it never unmakes one.
LEMMA BondServer ==
    ASSUME Inv, BondInv, NEW f, Update("server", f), Steps(Server, f, Client),
           ServerTurn(Server, Client) => \/ ServerStep(Server, f, Client.cfg.versions)
                                         \/ f.total_renegotiations # 0
    PROVE  BondInv'
<1>1. Client' = Client /\ Server' = f
  BY UpdateSides
<1>2. ASSUME f.total_renegotiations = 0 PROVE Bound(Client, f)
  <2>1. Server.total_renegotiations = 0
    <3>1. Server.total_renegotiations > 0 => f.total_renegotiations > 0
      BY DEF Steps, Grows
    <3>2. Server.total_renegotiations \in Nat
      BY BondTurns
    <3> QED BY <1>2, <3>1, <3>2
  <2> QED BY <1>2, <2>1, BondTurns, BoundServer
<1>3. BondInv' = (Server'.total_renegotiations = 0 => Bound(Client', Server'))
  BY DEF BondInv
<1> QED BY <1>1, <1>2, <1>3

\* A step that changes nothing about what is agreed on.
LEMMA BondStays ==
    ASSUME Inv, BondInv, NEW p \in Sides, NEW f, Update(p, f), Steps(ep[p], f, ep[Peer(p)]), Stays(ep[p], f)
    PROVE  BondInv'
<1>1. CASE p = "client"
  <2>1. Update("client", f) /\ Stays(Client, f)
    BY <1>1 DEF Client
  <2> QED BY <2>1, BondClient, ClientStepNone
<1>2. CASE p = "server"
  <2>1. Update("server", f) /\ Stays(Server, f) /\ Steps(Server, f, Client)
    BY <1>2 DEF Server, Client, Peer
  <2> QED BY <2>1, BondServer, ServerStepNone
<1> QED BY <1>1, <1>2 DEF Sides

-----------------------------------------------------------------------------
(***************************************************************************)
(* The functions of the state machines keep the endpoints bound.           *)
(***************************************************************************)
\* A function that changes nothing, or moves on past what is settled.
LEMMA ClientGoes ==
    ASSUME NEW c, NEW f, NEW s, ClientTurn(c, s), Stays(c, f) \/ (Keeps(c, f) /\ ClientMoves(c, f))
    PROVE  ClientStep(c, f, s)
BY ClientStepNone, ClientStepMoves

\* The same of the server.
LEMMA ServerGoes ==
    ASSUME NEW s, NEW f, NEW c, ServerTurn(s, c), Stays(s, f) \/ (Keeps(s, f) /\ ServerMoves(s, f))
    PROVE  ServerStep(s, f, c.cfg.versions)
BY ServerStepNone, ServerStepMoves

\* The last function of TLS 1.3 goes on to the end.
LEMMA DoneGoes ==
    ASSUME NEW e, NEW g, NEW state, Good(e, g)
    PROVE  Goes(e, To(e, state), state)
<1>1. Stays(e, e)
  BY StaysItself DEF Good, Typed
<1> QED BY <1>1, GoesTo

\* The functions of the client up to TLS 1.2 ...
LEMMA BondClientHandshake ==
    ASSUME Inv, BondInv, ssl_client_handshake
    PROVE  BondInv'
<1>1. Good(Client, Server) /\ Client.side = "client" /\ Server.side = "server" /\ Peer("client") = "server"
  BY BondTurns DEF Peer
<1>2. ASSUME NEW f, Update("client", f), ClientTurn(Client, Server) => ClientStep(Client, f, Server) PROVE BondInv'
  BY <1>2, BondClient
<1>3. ASSUME NEW s, NEW f, Do("client", s, f)
      PROVE  Turn(Client, Server, "client", s) /\ Client.state = s /\ Update("client", f)
  BY <1>1, <1>3 DEF Do, Turn, Client
<1>4. CASE Do("client", "start", C12!do_start_connect(Client))
  BY <1>2, <1>3, <1>4, C12StartConnectStep
<1>5. CASE Do("client", "read_server_hello", C12!do_read_server_hello(Client))
  BY <1>2, <1>3, <1>5, C12ReadServerHelloStep
<1>6. CASE Do("client", "read_server_certificate", C12!do_read_server_certificate(Client))
  <2>1. Stays(Client, C12!do_read_server_certificate(Client))
        \/ (Keeps(Client, C12!do_read_server_certificate(Client))
           /\ ClientMoves(Client, C12!do_read_server_certificate(Client)))
    BY <1>1, <1>3, <1>6, C12ReadServerCertificateGoes DEF Goes, ClientMoves
  <2> QED BY <1>2, <1>3, <1>6, <2>1, ClientGoes
<1>7. CASE Do("client", "verify_server_certificate", C12!do_verify_server_certificate(Client))
  <2>1. Stays(Client, C12!do_verify_server_certificate(Client))
        \/ (Keeps(Client, C12!do_verify_server_certificate(Client))
           /\ ClientMoves(Client, C12!do_verify_server_certificate(Client)))
    BY <1>1, <1>3, <1>7, C12VerifyServerCertificateGoes DEF Goes, ClientMoves
  <2> QED BY <1>2, <1>3, <1>7, <2>1, ClientGoes
<1>8. CASE Do("client", "read_server_key_exchange", C12!do_read_server_key_exchange(Client))
  <2>1. Stays(Client, C12!do_read_server_key_exchange(Client))
        \/ (Keeps(Client, C12!do_read_server_key_exchange(Client))
           /\ ClientMoves(Client, C12!do_read_server_key_exchange(Client)))
    BY <1>1, <1>3, <1>8, C12ReadServerKeyExchangeGoes DEF Goes, ClientMoves
  <2> QED BY <1>2, <1>3, <1>8, <2>1, ClientGoes
<1>9. CASE Do("client", "read_certificate_request", C12!do_read_certificate_request(Client))
  <2>1. Stays(Client, C12!do_read_certificate_request(Client))
        \/ (Keeps(Client, C12!do_read_certificate_request(Client))
           /\ ClientMoves(Client, C12!do_read_certificate_request(Client)))
    BY <1>1, <1>3, <1>9, C12ReadCertificateRequestGoes DEF Goes, ClientMoves
  <2> QED BY <1>2, <1>3, <1>9, <2>1, ClientGoes
<1>10. CASE Do("client", "read_server_hello_done", C12!do_read_server_hello_done(Client))
  <2>1. Stays(Client, C12!do_read_server_hello_done(Client))
        \/ (Keeps(Client, C12!do_read_server_hello_done(Client))
           /\ ClientMoves(Client, C12!do_read_server_hello_done(Client)))
    BY <1>1, <1>3, <1>10, C12ReadServerHelloDoneGoes DEF Goes, ClientMoves
  <2> QED BY <1>2, <1>3, <1>10, <2>1, ClientGoes
<1>11. CASE Do("client", "send_client_certificate", C12!do_send_client_certificate(Client))
  <2>1. Stays(Client, C12!do_send_client_certificate(Client))
        \/ (Keeps(Client, C12!do_send_client_certificate(Client))
           /\ ClientMoves(Client, C12!do_send_client_certificate(Client)))
    BY <1>1, <1>3, <1>11, C12SendClientCertificateGoes DEF Goes, ClientMoves
  <2> QED BY <1>2, <1>3, <1>11, <2>1, ClientGoes
<1>12. CASE Do("client", "send_client_key_exchange", C12!do_send_client_key_exchange(Client))
  BY <1>2, <1>3, <1>12, C12SendClientKeyExchangeStep
<1>13. CASE Do("client", "send_client_certificate_verify", C12!do_send_client_certificate_verify(Client))
  <2>1. Stays(Client, C12!do_send_client_certificate_verify(Client))
        \/ (Keeps(Client, C12!do_send_client_certificate_verify(Client))
           /\ ClientMoves(Client, C12!do_send_client_certificate_verify(Client)))
    BY <1>1, <1>3, <1>13, C12SendClientCertificateVerifyGoes DEF Goes, ClientMoves
  <2> QED BY <1>2, <1>3, <1>13, <2>1, ClientGoes
<1>14. CASE Do("client", "send_client_finished", C12!do_send_client_finished(Client))
  BY <1>2, <1>3, <1>14, C12SendClientFinishedStep
<1>15. CASE Do("client", "finish_flight", C12!do_finish_flight(Client))
  <2>1. Stays(Client, C12!do_finish_flight(Client))
        \/ (Keeps(Client, C12!do_finish_flight(Client))
           /\ ClientMoves(Client, C12!do_finish_flight(Client)))
    BY <1>1, <1>3, <1>15, C12FinishFlightGoes DEF Goes, ClientMoves
  <2> QED BY <1>2, <1>3, <1>15, <2>1, ClientGoes
<1>16. CASE Do("client", "read_session_ticket", C12!do_read_session_ticket(Client))
  <2>1. Stays(Client, C12!do_read_session_ticket(Client))
        \/ (Keeps(Client, C12!do_read_session_ticket(Client))
           /\ ClientMoves(Client, C12!do_read_session_ticket(Client)))
    BY <1>1, <1>3, <1>16, C12ReadSessionTicketGoes DEF Goes, ClientMoves
  <2> QED BY <1>2, <1>3, <1>16, <2>1, ClientGoes
<1>17. CASE Do("client", "process_change_cipher_spec", C12!do_process_change_cipher_spec(Client))
  BY <1>2, <1>3, <1>17, C12ProcessChangeCipherSpecStep
<1>18. CASE Do("client", "read_server_finished", C12!do_read_server_finished(Client))
  BY <1>2, <1>3, <1>18, C12ReadServerFinishedStep
<1>19. CASE Do("client", "finish_client_handshake", C12!do_finish_client_handshake(Client))
  <2>1. Stays(Client, C12!do_finish_client_handshake(Client))
        \/ (Keeps(Client, C12!do_finish_client_handshake(Client))
           /\ ClientMoves(Client, C12!do_finish_client_handshake(Client)))
    BY <1>1, <1>3, <1>19, C12FinishClientHandshakeGoes DEF Goes, ClientMoves
  <2> QED BY <1>2, <1>3, <1>19, <2>1, ClientGoes
<1> QED BY <1>4, <1>5, <1>6, <1>7, <1>8, <1>9, <1>10, <1>11, <1>12, <1>13, <1>14, <1>15, <1>16,
           <1>17, <1>18, <1>19, Zenon DEF ssl_client_handshake, Client

\* ... and of TLS 1.3.
LEMMA BondClientHandshake13 ==
    ASSUME Inv, BondInv, tls13_client_handshake
    PROVE  BondInv'
<1>1. Good(Client, Server) /\ Client.side = "client" /\ Server.side = "server" /\ Peer("client") = "server"
  BY BondTurns DEF Peer
<1>2. ASSUME NEW f, Update("client", f), ClientTurn(Client, Server) => ClientStep(Client, f, Server) PROVE BondInv'
  BY <1>2, BondClient
<1>3. ASSUME NEW s, NEW f, Do13("client", s, f)
      PROVE  Turn(Client, Server, "client", "tls13") /\ Client.state = "tls13" /\ Client.tls13_state = s /\ Update("client", f)
  BY <1>1, <1>3 DEF Do13, Do, Turn, Client
<1>4. CASE Do13("client", "read_hello_retry_request", C13!do_read_hello_retry_request(Client))
  BY <1>2, <1>3, <1>4, C13ReadHelloRetryRequestStep
<1>5. CASE Do13("client", "send_second_client_hello", C13!do_send_second_client_hello(Client))
  BY <1>2, <1>3, <1>5, C13SendSecondClientHelloStep
<1>6. CASE Do13("client", "read_server_hello", C13!do_read_server_hello(Client))
  BY <1>2, <1>3, <1>6, C13ReadServerHelloStep
<1>7. CASE Do13("client", "read_encrypted_extensions", C13!do_read_encrypted_extensions(Client))
  <2>1. Stays(Client, C13!do_read_encrypted_extensions(Client))
        \/ (Keeps(Client, C13!do_read_encrypted_extensions(Client))
           /\ ClientMoves(Client, C13!do_read_encrypted_extensions(Client)))
    BY <1>1, <1>3, <1>7, C13ReadEncryptedExtensionsGoes DEF Goes13, ClientMoves
  <2> QED BY <1>2, <1>3, <1>7, <2>1, ClientGoes
<1>8. CASE Do13("client", "read_certificate_request", C13!do_read_certificate_request(Client))
  <2>1. Stays(Client, C13!do_read_certificate_request(Client))
        \/ (Keeps(Client, C13!do_read_certificate_request(Client))
           /\ ClientMoves(Client, C13!do_read_certificate_request(Client)))
    BY <1>1, <1>3, <1>8, C13ReadCertificateRequestGoes DEF Goes13, ClientMoves
  <2> QED BY <1>2, <1>3, <1>8, <2>1, ClientGoes
<1>9. CASE Do13("client", "read_server_certificate", C13!do_read_server_certificate(Client))
  <2>1. Stays(Client, C13!do_read_server_certificate(Client))
        \/ (Keeps(Client, C13!do_read_server_certificate(Client))
           /\ ClientMoves(Client, C13!do_read_server_certificate(Client)))
    BY <1>1, <1>3, <1>9, C13ReadServerCertificateGoes DEF Goes13, ClientMoves
  <2> QED BY <1>2, <1>3, <1>9, <2>1, ClientGoes
<1>10. CASE Do13("client", "read_server_certificate_verify", C13!do_read_server_certificate_verify(Client))
  <2>1. Stays(Client, C13!do_read_server_certificate_verify(Client))
        \/ (Keeps(Client, C13!do_read_server_certificate_verify(Client))
           /\ ClientMoves(Client, C13!do_read_server_certificate_verify(Client)))
    BY <1>1, <1>3, <1>10, C13ReadServerCertificateVerifyGoes DEF Goes13, ClientMoves
  <2> QED BY <1>2, <1>3, <1>10, <2>1, ClientGoes
<1>11. CASE Do13("client", "read_server_finished", C13!do_read_server_finished(Client))
  BY <1>2, <1>3, <1>11, C13ReadServerFinishedStep
<1>12. CASE Do13("client", "send_client_certificate", C13!do_send_client_certificate(Client))
  <2>1. Stays(Client, C13!do_send_client_certificate(Client))
        \/ (Keeps(Client, C13!do_send_client_certificate(Client))
           /\ ClientMoves(Client, C13!do_send_client_certificate(Client)))
    BY <1>1, <1>3, <1>12, C13SendClientCertificateGoes DEF Goes13, ClientMoves
  <2> QED BY <1>2, <1>3, <1>12, <2>1, ClientGoes
<1>13. CASE Do13("client", "send_client_certificate_verify", C13!do_send_client_certificate_verify(Client))
  <2>1. Stays(Client, C13!do_send_client_certificate_verify(Client))
        \/ (Keeps(Client, C13!do_send_client_certificate_verify(Client))
           /\ ClientMoves(Client, C13!do_send_client_certificate_verify(Client)))
    BY <1>1, <1>3, <1>13, C13SendClientCertificateVerifyGoes DEF Goes13, ClientMoves
  <2> QED BY <1>2, <1>3, <1>13, <2>1, ClientGoes
<1>14. CASE Do13("client", "complete_second_flight", C13!do_complete_second_flight(Client))
  BY <1>2, <1>3, <1>14, C13CompleteSecondFlightStep
<1>15. CASE Do13("client", "done", To(Client, "finish_client_handshake"))
  <2>1. Stays(Client, To(Client, "finish_client_handshake"))
        \/ (Keeps(Client, To(Client, "finish_client_handshake"))
           /\ ClientMoves(Client, To(Client, "finish_client_handshake")))
    BY <1>1, <1>3, <1>15, DoneGoes DEF Goes, ClientMoves
  <2> QED BY <1>2, <1>3, <1>15, <2>1, ClientGoes
<1> QED BY <1>4, <1>5, <1>6, <1>7, <1>8, <1>9, <1>10, <1>11, <1>12, <1>13, <1>14, <1>15, Zenon
           DEF tls13_client_handshake, Client

\* The functions of the server up to TLS 1.2 ...
LEMMA BondServerHandshake ==
    ASSUME Inv, BondInv, ssl_server_handshake
    PROVE  BondInv'
<1>1. Good(Server, Client) /\ Server.side = "server" /\ Client.side = "client" /\ Peer("server") = "client"
  BY BondTurns DEF Peer
<1>2. ASSUME NEW f, Update("server", f), Steps(Server, f, Client),
             ServerTurn(Server, Client) => ServerStep(Server, f, Client.cfg.versions) PROVE BondInv'
  BY <1>2, BondServer
<1>3. ASSUME NEW s, NEW f, Do("server", s, f)
      PROVE  Turn(Server, Client, "server", s) /\ Server.state = s /\ Update("server", f)
  BY <1>1, <1>3 DEF Do, Turn, Server
<1>4. CASE Do("server", "start", S12!do_start_accept(Server))
  <2>1. Stays(Server, S12!do_start_accept(Server))
        \/ (Keeps(Server, S12!do_start_accept(Server))
           /\ ServerMoves(Server, S12!do_start_accept(Server)))
    BY <1>1, <1>3, <1>4, S12StartAcceptGoes DEF Goes, ServerMoves
  <2> QED BY <1>2, <1>3, <1>4, S12StartAccept, <2>1, ServerGoes
<1>5. CASE Do("server", "read_client_hello", S12!do_read_client_hello(Server))
  <2>1. Stays(Server, S12!do_read_client_hello(Server))
        \/ (Keeps(Server, S12!do_read_client_hello(Server))
           /\ ServerMoves(Server, S12!do_read_client_hello(Server)))
    BY <1>1, <1>3, <1>5, S12ReadClientHelloGoes DEF Goes, ServerMoves
  <2> QED BY <1>2, <1>3, <1>5, S12ReadClientHello, <2>1, ServerGoes
<1>6. CASE Do("server", "read_client_hello_after_ech", S12!do_read_client_hello_after_ech(Server))
  BY <1>2, <1>3, <1>6, S12ReadClientHelloAfterEch, S12ReadClientHelloAfterEchStep
<1>7. CASE Do("server", "select_certificate", S12!do_select_certificate(Server))
  BY <1>2, <1>3, <1>7, S12SelectCertificate, S12SelectCertificateStep
<1>8. CASE Do("server", "select_parameters", S12!do_select_parameters(Server))
  BY <1>2, <1>3, <1>8, S12SelectParameters, S12SelectParametersStep
<1>9. CASE Do("server", "send_server_hello", S12!do_send_server_hello(Server))
  BY <1>2, <1>3, <1>9, S12SendServerHello, S12SendServerHelloStep
<1>10. CASE Do("server", "send_server_certificate", S12!do_send_server_certificate(Server))
  <2>1. Stays(Server, S12!do_send_server_certificate(Server))
        \/ (Keeps(Server, S12!do_send_server_certificate(Server))
           /\ ServerMoves(Server, S12!do_send_server_certificate(Server)))
    BY <1>1, <1>3, <1>10, S12SendServerCertificateGoes DEF Goes, ServerMoves
  <2> QED BY <1>2, <1>3, <1>10, S12SendServerCertificate, <2>1, ServerGoes
<1>11. CASE Do("server", "send_server_key_exchange", S12!do_send_server_key_exchange(Server))
  <2>1. Stays(Server, S12!do_send_server_key_exchange(Server))
        \/ (Keeps(Server, S12!do_send_server_key_exchange(Server))
           /\ ServerMoves(Server, S12!do_send_server_key_exchange(Server)))
    BY <1>1, <1>3, <1>11, S12SendServerKeyExchangeGoes DEF Goes, ServerMoves
  <2> QED BY <1>2, <1>3, <1>11, S12SendServerKeyExchange, <2>1, ServerGoes
<1>12. CASE Do("server", "send_server_hello_done", S12!do_send_server_hello_done(Server))
  <2>1. Stays(Server, S12!do_send_server_hello_done(Server))
        \/ (Keeps(Server, S12!do_send_server_hello_done(Server))
           /\ ServerMoves(Server, S12!do_send_server_hello_done(Server)))
    BY <1>1, <1>3, <1>12, S12SendServerHelloDoneGoes DEF Goes, ServerMoves
  <2> QED BY <1>2, <1>3, <1>12, S12SendServerHelloDone, <2>1, ServerGoes
<1>13. CASE Do("server", "read_client_certificate", S12!do_read_client_certificate(Server))
  <2>1. Stays(Server, S12!do_read_client_certificate(Server))
        \/ (Keeps(Server, S12!do_read_client_certificate(Server))
           /\ ServerMoves(Server, S12!do_read_client_certificate(Server)))
    BY <1>1, <1>3, <1>13, S12ReadClientCertificateGoes DEF Goes, ServerMoves
  <2> QED BY <1>2, <1>3, <1>13, S12ReadClientCertificate, <2>1, ServerGoes
<1>14. CASE Do("server", "verify_client_certificate", S12!do_verify_client_certificate(Server))
  <2>1. Stays(Server, S12!do_verify_client_certificate(Server))
        \/ (Keeps(Server, S12!do_verify_client_certificate(Server))
           /\ ServerMoves(Server, S12!do_verify_client_certificate(Server)))
    BY <1>1, <1>3, <1>14, S12VerifyClientCertificateGoes DEF Goes, ServerMoves
  <2> QED BY <1>2, <1>3, <1>14, S12VerifyClientCertificate, <2>1, ServerGoes
<1>15. CASE Do("server", "read_client_key_exchange", S12!do_read_client_key_exchange(Server))
  BY <1>2, <1>3, <1>15, S12ReadClientKeyExchange, S12ReadClientKeyExchangeStep
<1>16. CASE Do("server", "read_client_certificate_verify", S12!do_read_client_certificate_verify(Server))
  <2>1. Stays(Server, S12!do_read_client_certificate_verify(Server))
        \/ (Keeps(Server, S12!do_read_client_certificate_verify(Server))
           /\ ServerMoves(Server, S12!do_read_client_certificate_verify(Server)))
    BY <1>1, <1>3, <1>16, S12ReadClientCertificateVerifyGoes DEF Goes, ServerMoves
  <2> QED BY <1>2, <1>3, <1>16, S12ReadClientCertificateVerify, <2>1, ServerGoes
<1>17. CASE Do("server", "read_change_cipher_spec", S12!do_read_change_cipher_spec(Server))
  <2>1. Stays(Server, S12!do_read_change_cipher_spec(Server))
        \/ (Keeps(Server, S12!do_read_change_cipher_spec(Server))
           /\ ServerMoves(Server, S12!do_read_change_cipher_spec(Server)))
    BY <1>1, <1>3, <1>17, S12ReadChangeCipherSpecGoes DEF Goes, ServerMoves
  <2> QED BY <1>2, <1>3, <1>17, S12ReadChangeCipherSpec, <2>1, ServerGoes
<1>18. CASE Do("server", "process_change_cipher_spec", S12!do_process_change_cipher_spec(Server))
  BY <1>2, <1>3, <1>18, S12ProcessChangeCipherSpec, S12ProcessChangeCipherSpecStep
<1>19. CASE Do("server", "read_client_finished", S12!do_read_client_finished(Server))
  BY <1>2, <1>3, <1>19, S12ReadClientFinished, S12ReadClientFinishedStep
<1>20. CASE Do("server", "send_server_finished", S12!do_send_server_finished(Server))
  BY <1>2, <1>3, <1>20, S12SendServerFinished, S12SendServerFinishedStep
<1>21. CASE Do("server", "finish_server_handshake", S12!do_finish_server_handshake(Server))
  <2>1. Stays(Server, S12!do_finish_server_handshake(Server))
        \/ (Keeps(Server, S12!do_finish_server_handshake(Server))
           /\ ServerMoves(Server, S12!do_finish_server_handshake(Server)))
    BY <1>1, <1>3, <1>21, S12FinishServerHandshakeGoes DEF Goes, ServerMoves
  <2> QED BY <1>2, <1>3, <1>21, S12FinishServerHandshake, <2>1, ServerGoes
<1> QED BY <1>4, <1>5, <1>6, <1>7, <1>8, <1>9, <1>10, <1>11, <1>12, <1>13, <1>14, <1>15, <1>16,
           <1>17, <1>18, <1>19, <1>20, <1>21, Zenon DEF ssl_server_handshake, Server

\* ... and of TLS 1.3.
LEMMA BondServerHandshake13 ==
    ASSUME Inv, BondInv, tls13_server_handshake
    PROVE  BondInv'
<1>1. Good(Server, Client) /\ Server.side = "server" /\ Client.side = "client" /\ Peer("server") = "client"
  BY BondTurns DEF Peer
<1>2. ASSUME NEW f, Update("server", f), Steps(Server, f, Client),
             ServerTurn(Server, Client) => ServerStep(Server, f, Client.cfg.versions) PROVE BondInv'
  BY <1>2, BondServer
<1>3. ASSUME NEW s, NEW f, Do13("server", s, f)
      PROVE  Turn(Server, Client, "server", "tls13") /\ Server.state = "tls13" /\ Server.tls13_state = s /\ Update("server", f)
  BY <1>1, <1>3 DEF Do13, Do, Turn, Server
<1>4. CASE Do13("server", "select_session", S13!do_select_session(Server))
  BY <1>2, <1>3, <1>4, S13SelectSession, S13SelectSessionStep
<1>5. CASE Do13("server", "send_hello_retry_request", S13!do_send_hello_retry_request(Server))
  BY <1>2, <1>3, <1>5, S13SendHelloRetryRequest, S13SendHelloRetryRequestStep
<1>6. CASE Do13("server", "read_second_client_hello", S13!do_read_second_client_hello(Server))
  <2>1. Stays(Server, S13!do_read_second_client_hello(Server))
        \/ (Keeps(Server, S13!do_read_second_client_hello(Server))
           /\ ServerMoves(Server, S13!do_read_second_client_hello(Server)))
    BY <1>1, <1>3, <1>6, S13ReadSecondClientHelloGoes DEF Goes13, ServerMoves
  <2> QED BY <1>2, <1>3, <1>6, S13ReadSecondClientHello, <2>1, ServerGoes
<1>7. CASE Do13("server", "send_server_hello", S13!do_send_server_hello(Server))
  BY <1>2, <1>3, <1>7, S13SendServerHello, S13SendServerHelloStep
<1>8. CASE Do13("server", "send_server_certificate_verify", S13!do_send_server_certificate_verify(Server))
  <2>1. Stays(Server, S13!do_send_server_certificate_verify(Server))
        \/ (Keeps(Server, S13!do_send_server_certificate_verify(Server))
           /\ ServerMoves(Server, S13!do_send_server_certificate_verify(Server)))
    BY <1>1, <1>3, <1>8, S13SendServerCertificateVerifyGoes DEF Goes13, ServerMoves
  <2> QED BY <1>2, <1>3, <1>8, S13SendServerCertificateVerify, <2>1, ServerGoes
<1>9. CASE Do13("server", "send_server_finished", S13!do_send_server_finished(Server))
  BY <1>2, <1>3, <1>9, S13SendServerFinished, S13SendServerFinishedStep
<1>10. CASE Do13("server", "send_half_rtt_ticket", S13!do_send_half_rtt_ticket(Server))
  <2>1. Stays(Server, S13!do_send_half_rtt_ticket(Server))
        \/ (Keeps(Server, S13!do_send_half_rtt_ticket(Server))
           /\ ServerMoves(Server, S13!do_send_half_rtt_ticket(Server)))
    BY <1>1, <1>3, <1>10, S13SendHalfRttTicketGoes DEF Goes13, ServerMoves
  <2> QED BY <1>2, <1>3, <1>10, S13SendHalfRttTicket, <2>1, ServerGoes
<1>11. CASE Do13("server", "process_end_of_early_data", S13!do_process_end_of_early_data(Server))
  BY <1>2, <1>3, <1>11, S13ProcessEndOfEarlyData, S13ProcessEndOfEarlyDataStep
<1>12. CASE Do13("server", "read_client_certificate", S13!do_read_client_certificate(Server))
  <2>1. Stays(Server, S13!do_read_client_certificate(Server))
        \/ (Keeps(Server, S13!do_read_client_certificate(Server))
           /\ ServerMoves(Server, S13!do_read_client_certificate(Server)))
    BY <1>1, <1>3, <1>12, S13ReadClientCertificateGoes DEF Goes13, ServerMoves
  <2> QED BY <1>2, <1>3, <1>12, S13ReadClientCertificate, <2>1, ServerGoes
<1>13. CASE Do13("server", "read_client_certificate_verify", S13!do_read_client_certificate_verify(Server))
  <2>1. Stays(Server, S13!do_read_client_certificate_verify(Server))
        \/ (Keeps(Server, S13!do_read_client_certificate_verify(Server))
           /\ ServerMoves(Server, S13!do_read_client_certificate_verify(Server)))
    BY <1>1, <1>3, <1>13, S13ReadClientCertificateVerifyGoes DEF Goes13, ServerMoves
  <2> QED BY <1>2, <1>3, <1>13, S13ReadClientCertificateVerify, <2>1, ServerGoes
<1>14. CASE Do13("server", "read_client_finished", S13!do_read_client_finished(Server))
  BY <1>2, <1>3, <1>14, S13ReadClientFinished, S13ReadClientFinishedStep
<1>15. CASE Do13("server", "send_new_session_ticket", S13!do_send_new_session_ticket(Server))
  <2>1. Stays(Server, S13!do_send_new_session_ticket(Server))
        \/ (Keeps(Server, S13!do_send_new_session_ticket(Server))
           /\ ServerMoves(Server, S13!do_send_new_session_ticket(Server)))
    BY <1>1, <1>3, <1>15, S13SendNewSessionTicketGoes DEF Goes13, ServerMoves
  <2> QED BY <1>2, <1>3, <1>15, S13SendNewSessionTicket, <2>1, ServerGoes
<1>16. CASE Do13("server", "done", To(Server, "finish_server_handshake"))
  <2>1. Stays(Server, To(Server, "finish_server_handshake"))
        \/ (Keeps(Server, To(Server, "finish_server_handshake"))
           /\ ServerMoves(Server, To(Server, "finish_server_handshake")))
    BY <1>1, <1>3, <1>16, DoneGoes DEF Goes, ServerMoves
  <2> QED BY <1>2, <1>3, <1>16, S13Done, <2>1, ServerGoes
<1> QED BY <1>4, <1>5, <1>6, <1>7, <1>8, <1>9, <1>10, <1>11, <1>12, <1>13, <1>14, <1>15, <1>16,
           Zenon DEF tls13_server_handshake, Server

-----------------------------------------------------------------------------
(***************************************************************************)
(* The endpoints are bound in every reachable state.                       *)
(***************************************************************************)
\* New endpoints have nothing to say to each other.
LEMMA InitBond == ASSUME Init PROVE BondInv
<1>1. PICK cfg \in Configs : ep = [p \in Sides |-> NewEndpoint(p, cfg[p])]
  BY DEF Init
<1>2. Client = NewEndpoint("client", cfg["client"]) /\ Server = NewEndpoint("server", cfg["server"])
  BY <1>1 DEF Client, Server, Sides
<1>3. ASSUME NEW p, NEW c
      PROVE  LET e == NewEndpoint(p, c)
             IN  /\ e.state = "start" /\ e.version = 0 /\ e.transcript = <<>> /\ e.total_renegotiations = 0
                 /\ e.inbound = <<>> /\ e.hs_buf = <<>> /\ e.pending_hs_data = <<>>
                 /\ e.pending_flight = <<>> /\ e.outbound = <<>>
  BY SMT DEF NewEndpoint
<1>4. /\ Client.state = "start" /\ Client.version = 0 /\ Client.transcript = <<>> /\ Client.total_renegotiations = 0
      /\ Server.state = "start" /\ Server.version = 0 /\ Server.transcript = <<>>
  BY <1>2, <1>3
<1>5. \A m : ~Sends(Client, m) /\ ~Reads(Client, m)
  <2>1. /\ Client.inbound = <<>> /\ Client.hs_buf = <<>> /\ Client.pending_hs_data = <<>>
        /\ Client.pending_flight = <<>> /\ Client.outbound = <<>>
    BY <1>2, <1>3
  <2> QED BY <2>1, InNothing DEF Sends, Reads
<1>6. \A m : ~Sends(Server, m) /\ ~Reads(Server, m)
  <2>1. /\ Server.inbound = <<>> /\ Server.hs_buf = <<>> /\ Server.pending_hs_data = <<>>
        /\ Server.pending_flight = <<>> /\ Server.outbound = <<>>
    BY <1>2, <1>3
  <2> QED BY <2>1, InNothing DEF Sends, Reads
<1>7. IsSeq(<<>>)
  <2>1. <<>> \in Seq({})
    OBVIOUS
  <2> QED BY <2>1 DEF IsSeq
<1>8. ServerOwn(Server, Client.cfg.versions)
  <2>1. ServerVersion(Server, Client.cfg.versions)
    BY <1>4, SMT DEF ServerVersion, ServerEnd, Decided12, Full12
  <2>2. ServerTranscript(Server)
    BY <1>4, <1>7, SMT DEF ServerTranscript, ServerEnd, Decided12
  <2>3. ServerKeys(Server)
    BY <1>4, SMT DEF ServerKeys, At
  <2> QED BY <2>1, <2>2, <2>3 DEF ServerOwn
<1>9. ClientOwn(Client, Server)
  <2>1. ClientVersion(Client, Server)
    BY <1>4, SMT DEF ClientVersion, At, Shown12, ClientEnd, Asked12
  <2>2. ClientTranscript(Client)
    BY <1>4, <1>7, SMT DEF ClientTranscript, Shown12, ClientEnd
  <2>3. ClientSecrets(Client, Server)
    BY <1>4, SMT DEF ClientSecrets, Confirmed, At, ClientEnd
  <2>4. ClientKeys(Client)
    BY <1>4, SMT DEF ClientKeys
  <2> QED BY <2>1, <2>2, <2>3, <2>4 DEF ClientOwn
<1> QED BY <1>5, <1>6, <1>8, <1>9 DEF BondInv, Bound

\* What the network brings along was under way before.
LEMMA ReceivedWas ==
    ASSUME NEW e, NEW g, Lists(e), Lists(g), NEW n \in 0..Len(g.outbound)
    PROVE  LET f == [[e EXCEPT !.inbound = @ \o SubSeq(g.outbound, 1, n)] EXCEPT !.running = TRUE]
               h == [g EXCEPT !.outbound = SubSeq(@, n + 1, Len(@))]
           IN  /\ Same(e, f, {"inbound", "running"}) /\ Same(g, h, {"outbound"})
               /\ \A m : (Sends(f, m) = Sends(e, m)) /\ (Reads(f, m) => Reads(e, m) \/ Sends(g, m))
               /\ \A m : (Sends(h, m) => Sends(g, m)) /\ (Reads(h, m) = Reads(g, m))
<1> DEFINE q == SubSeq(g.outbound, 1, n)
           r == SubSeq(g.outbound, n + 1, Len(g.outbound))
           f == [[e EXCEPT !.inbound = @ \o q] EXCEPT !.running = TRUE]
           h == [g EXCEPT !.outbound = r]
<1>1. Len(g.outbound) \in Nat /\ IsSeq(g.outbound) /\ IsSeq(e.inbound) /\ DOMAIN e = Fields /\ DOMAIN g = Fields
  BY SeqLen DEF Lists
<1>2. ASSUME NEW m PROVE (InRecords(m, q) => InRecords(m, g.outbound)) /\ (InRecords(m, r) => InRecords(m, g.outbound))
  <2>1. 1 \in 1..(Len(g.outbound) + 1) /\ n \in (1 - 1)..Len(g.outbound)
    BY <1>1
  <2>2. n + 1 \in 1..(Len(g.outbound) + 1) /\ Len(g.outbound) \in ((n + 1) - 1)..Len(g.outbound)
    BY <1>1
  <2>3. InRecords(m, q) => InRecords(m, g.outbound)
    BY <1>1, <2>1, InFewerRecords
  <2>4. InRecords(m, r) => InRecords(m, g.outbound)
    BY <1>1, <2>2, InFewerRecords
  <2> QED BY <2>3, <2>4
<1>3. IsSeq(q)
  <2>1. PICK S : g.outbound \in Seq(S)
    BY <1>1 DEF IsSeq
  <2>2. q \in Seq(S)
    BY <1>1, <2>1
  <2> QED BY <2>2 DEF IsSeq
<1> HIDE DEF q, r
<1>4. Same(e, f, {"inbound", "running"}) /\ f.inbound = e.inbound \o q
  BY <1>1, Zenon DEF Same, Fields
<1>5. Same(g, h, {"outbound"}) /\ h.outbound = r
  BY <1>1, Zenon DEF Same, Fields
<1> HIDE DEF f, h
<1>6. f.hs_buf = e.hs_buf /\ h.pending_hs_data = g.pending_hs_data /\ h.pending_flight = g.pending_flight
  BY <1>4, <1>5 DEF Same, Fields
<1>7. \A m : (Sends(f, m) = Sends(e, m)) /\ (Reads(h, m) = Reads(g, m))
  <2>1. ASSUME NEW m PROVE Sends(f, m) = Sends(e, m)
    BY <1>4, SameBuffers
  <2>2. ASSUME NEW m PROVE Reads(h, m) = Reads(g, m)
    BY <1>5, SameBuffers
  <2> QED BY <2>1, <2>2
<1>8. ASSUME NEW m, Reads(f, m) PROVE Reads(e, m) \/ Sends(g, m)
  <2>1. InRecords(m, e.inbound \o q) => InRecords(m, e.inbound) \/ InRecords(m, q)
    BY <1>1, <1>3, InMoreRecords
  <2> QED BY <1>2, <1>4, <1>6, <1>8, <2>1 DEF Reads, Sends
<1>9. ASSUME NEW m, Sends(h, m) PROVE Sends(g, m)
  BY <1>2, <1>5, <1>6, <1>9 DEF Sends
<1> QED BY <1>4, <1>5, <1>7, <1>8, <1>9 DEF f, h, q, r

\* A change of fields that nothing depends on, and of the records under way.
LEMMA StaysOwn ==
    ASSUME NEW e, NEW f, Same(e, f, {"inbound", "outbound", "running"})
    PROVE  /\ \A V : ServerOwn(e, V) => ServerOwn(f, V)
           /\ Fixed(e, f) /\ f.cfg = e.cfg /\ f.total_renegotiations = e.total_renegotiations
           /\ \A s : ClientOwn(e, s) => ClientOwn(f, s)
<1>1. /\ f.state = e.state /\ f.tls13_state = e.tls13_state /\ f.version = e.version /\ f.cfg = e.cfg
      /\ f.session_reused = e.session_reused /\ f.transcript = e.transcript /\ f.read_key = e.read_key
      /\ f.write_key = e.write_key /\ f.secret = e.secret /\ f.app = e.app
      /\ f.total_renegotiations = e.total_renegotiations
  BY SMT DEF Same, Fields
<1>2. Decided(f) = Decided(e) /\ Sealed(f) = Sealed(e) /\ Confirmed(f) = Confirmed(e) /\ Hellos(f) = Hellos(e)
  BY <1>1, Zenon DEF Decided, Sealed, Confirmed, At, Hellos
<1>3. \A a, b : At(f, a, b) = At(e, a, b)
  BY <1>1, Zenon DEF At
<1>4. \A side : Key12(f, side) = Key12(e, side) /\ App(f, side) = App(e, side)
  BY <1>1, <1>2, Zenon DEF Key12, App
<1>5. \A V : ServerVersion(e, V) => ServerVersion(f, V)
  BY <1>1, Zenon DEF ServerVersion
<1>6. ServerTranscript(e) => ServerTranscript(f)
  BY <1>1, Zenon DEF ServerTranscript
<1>7. ServerKeys(e) => ServerKeys(f)
  BY <1>1, <1>2, <1>3, <1>4, Zenon DEF ServerKeys
<1>8. Fixed(e, f)
  BY <1>1, <1>2, Zenon DEF Fixed
<1>9. \A s : ClientVersion(e, s) => ClientVersion(f, s)
  BY <1>1, <1>3, Zenon DEF ClientVersion
<1>10. ClientTranscript(e) => ClientTranscript(f)
  BY <1>1, Zenon DEF ClientTranscript
<1>11. \A s : ClientSecrets(e, s) => ClientSecrets(f, s)
  BY <1>1, <1>2, Zenon DEF ClientSecrets
<1>12. ClientKeys(e) => ClientKeys(f)
  BY <1>1, <1>3, <1>4, Zenon DEF ClientKeys
<1> QED BY <1>1, <1>5, <1>6, <1>7, <1>8, <1>9, <1>10, <1>11, <1>12, Zenon DEF ServerOwn, ClientOwn

\* Endpoints between which records move are bound if they were.
LEMMA BoundMoved ==
    ASSUME NEW c, NEW d, NEW s, NEW t, Bound(c, s), c.version \in {0, 12, 13},
           Same(c, d, {"inbound", "outbound", "running"}), Same(s, t, {"inbound", "outbound", "running"}),
           \A m : Sends(t, m) \/ Reads(d, m) => Sends(s, m) \/ Reads(c, m),
           \A m : Sends(d, m) \/ Reads(t, m) => Sends(c, m) \/ Reads(s, m)
    PROVE  Bound(d, t)
<1>1. ServerOwn(t, c.cfg.versions) /\ Fixed(s, t)
  BY StaysOwn DEF Bound
<1>2. ClientOwn(d, s) /\ d.cfg = c.cfg
  BY StaysOwn DEF Bound
<1>3. d.version = c.version
  BY DEF Same, Fields
<1>4. ClientOwn(d, t)
  <2>1. ClientVersion(d, s)
    BY <1>2 DEF ClientOwn
  <2>2. At(d, Shown12 \cup ClientEnd, Shown13) => d.version # 0
    BY <2>1 DEF ClientVersion, At
  <2> QED BY <1>1, <1>2, <1>3, <2>2, FixedClient
<1>5. \A m : Sends(t, m) \/ Reads(d, m) => Told(m, t)
  BY <1>1, FixedTold DEF Bound
<1>6. \A m : Sends(d, m) \/ Reads(t, m) => Offers(m, d.cfg.versions)
  BY <1>2 DEF Bound
<1> QED BY <1>1, <1>2, <1>4, <1>5, <1>6 DEF Bound

\* The channel reads what the peer has written.
LEMMA ReceiveBond ==
    ASSUME Inv, BondInv, NEW p \in Sides, NEW n \in 0..Len(ep[Peer(p)].outbound), Receive(p, n)
    PROVE  BondInv'
<1> DEFINE q == Peer(p)
           e == ep[p]
           g == ep[q]
           f == [[e EXCEPT !.inbound = @ \o SubSeq(g.outbound, 1, n)] EXCEPT !.running = TRUE]
           h == [g EXCEPT !.outbound = SubSeq(@, n + 1, Len(@))]
<1>1. q \in Sides /\ q # p /\ Peer(q) = p
  BY Sidedness
<1>2. Lists(e) /\ Lists(g)
  BY <1>1, AtRest, GoodLists
<1>3. ep'[p] = f /\ ep'[q] = h
  BY <1>1 DEF Receive, Inv
<1>4. /\ Same(e, f, {"inbound", "running"}) /\ Same(g, h, {"outbound"})
      /\ \A m : (Sends(f, m) = Sends(e, m)) /\ (Reads(f, m) => Reads(e, m) \/ Sends(g, m))
      /\ \A m : (Sends(h, m) => Sends(g, m)) /\ (Reads(h, m) = Reads(g, m))
  BY <1>2, ReceivedWas
<1> HIDE DEF f, h
<1>5. Same(e, f, {"inbound", "outbound", "running"}) /\ Same(g, h, {"inbound", "outbound", "running"})
  BY <1>4, SameWider
<1>6. BondInv' = (Server'.total_renegotiations = 0 => Bound(Client', Server'))
  BY DEF BondInv
<1>7. CASE p = "client"
  <2>1. Client = e /\ Server = g /\ Client' = f /\ Server' = h
    BY <1>3, <1>7 DEF Client, Server, Peer
  <2> HIDE DEF e, g, q
  <2>2. ASSUME h.total_renegotiations = 0 PROVE Bound(f, h)
    <3>1. g.total_renegotiations = 0
      BY <1>5, <2>2, StaysOwn
    <3>2. Bound(e, g) /\ e.version \in {0, 12, 13}
      BY <2>1, <3>1, BondTurns
    <3> QED BY <1>4, <1>5, <3>2, BoundMoved
  <2> QED BY <1>6, <2>1, <2>2
<1>8. CASE p = "server"
  <2>1. Client = g /\ Server = e /\ Client' = h /\ Server' = f
    BY <1>3, <1>8 DEF Client, Server, Peer
  <2> HIDE DEF e, g, q
  <2>2. ASSUME f.total_renegotiations = 0 PROVE Bound(h, f)
    <3>1. e.total_renegotiations = 0
      BY <1>5, <2>2, StaysOwn
    <3>2. Bound(g, e) /\ g.version \in {0, 12, 13}
      BY <2>1, <3>1, BondTurns
    <3> QED BY <1>4, <1>5, <3>2, BoundMoved
  <2> QED BY <1>6, <2>1, <2>2
<1> QED BY <1>7, <1>8 DEF Sides

\* A step of the call that is being made.
LEMMA StepBond == ASSUME Inv, BondInv, Step PROVE BondInv'
<1>1. ASSUME NEW p \in Sides, Flush(p) \/ Open(p) \/ WantRead(p) \/ WantCallback(p) \/ ReadData(p)
      PROVE  BondInv'
  <2> DEFINE e == ep[p]
             g == ep[Peer(p)]
  <2>1. Good(e, g) /\ Lists(e) /\ DOMAIN e = Fields
    BY AtRest, GoodLists DEF Good, Typed
  <2>2. ASSUME NEW f, Steps(e, f, g), Stays(e, f), Update(p, f) PROVE BondInv'
    BY <2>2, BondStays
  <2>3. CASE Flush(p)
    <3> HIDE DEF g
    <3> QED BY <2>1, <2>2, <2>3, GoodFlush, StaysFlush DEF Flush
  <2>4. CASE Open(p)
    <3> HIDE DEF g
    <3> QED BY <2>1, <2>2, <2>4, GoodOpenRecord, StaysOpenRecord DEF Open
  <2>5. CASE WantRead(p)
    <3> HIDE DEF g
    <3> QED BY <2>1, <2>2, <2>5, GoodReturn, StaysReturn DEF WantRead
  <2>6. CASE WantCallback(p)
    <3> HIDE DEF g
    <3>1. CASE Update(p, Error(e, "read_failed"))
      BY <2>1, <2>2, <3>1, GoodError, StaysError
    <3>2. CASE Update(p, [Wait(e, "ok") EXCEPT !.running = FALSE])
      BY <2>1, <2>2, <2>6, <3>2, GoodWantCallback, StaysWantCallback DEF WantCallback
    <3> QED BY <2>6, <3>1, <3>2, Zenon DEF WantCallback
  <2>7. CASE ReadData(p)
    <3> DEFINE f == Data!SSL_read(e)
    <3>1. e.state = "done" /\ Update(p, f)
      BY <2>7 DEF ReadData, Completed
    <3>2. Steps(e, f, g)
      BY <2>1, <3>1, GoodSSLRead
    <3>3. \/ Stays(e, f)
          \/ /\ HasMessage(e) /\ Message(e).type = "hello_request"
             /\ f.total_renegotiations = e.total_renegotiations + 1
      BY <2>1, StaysSSLRead
    <3> HIDE DEF f
    <3>4. CASE Stays(e, f)
      BY <2>2, <3>1, <3>2, <3>4
    <3>5. CASE /\ HasMessage(e) /\ Message(e).type = "hello_request"
               /\ f.total_renegotiations = e.total_renegotiations + 1
      <4>1. CASE p = "client"
        <5>1. e = Client /\ g = Server
          BY <4>1 DEF Client, Server, Peer
        <5>2. ~ClientTurn(Client, Server)
          <6>1. Reads(Client, Message(Client))
            BY <2>1, <3>5, <5>1, ReadsMessage
          <6> QED BY <3>5, <5>1, <6>1 DEF ClientTurn, Told
        <5>3. Update("client", f)
          BY <3>1, <4>1
        <5> QED BY <5>2, <5>3, BondClient
      <4>2. CASE p = "server"
        <5>1. e = Server /\ g = Client
          BY <4>2 DEF Client, Server, Peer
        <5>2. Server.total_renegotiations \in Nat
          BY BondTurns
        <5>3. f.total_renegotiations # 0
          BY <3>5, <5>1, <5>2
        <5>4. Update("server", f) /\ Steps(Server, f, Client)
          BY <3>1, <3>2, <4>2, <5>1
        <5> QED BY <5>3, <5>4, BondServer
      <4> QED BY <4>1, <4>2 DEF Sides
    <3> QED BY <3>3, <3>4, <3>5
  <2> QED BY <1>1, <2>3, <2>4, <2>5, <2>6, <2>7
<1> QED BY <1>1, BondClientHandshake, BondClientHandshake13, BondServerHandshake,
           BondServerHandshake13,
           Zenon DEF Step

\* What brings the next call about.
LEMMA EventBond == ASSUME Inv, BondInv, NEW p \in Sides, Event(p) PROVE BondInv'
<1> DEFINE e == ep[p]
           g == ep[Peer(p)]
<1>1. Good(e, g) /\ DOMAIN e = Fields
  BY AtRest DEF Good, Typed
<1>2. ASSUME NEW f, Steps(e, f, g), Stays(e, f), Update(p, f) PROVE BondInv'
  BY <1>2, BondStays
<1>3. Len(g.outbound) \in Nat
  <2>1. Good(g, e)
    BY Sidedness, AtRest
  <2> QED BY <2>1, SeqLen DEF Good, Wire, Carries, SoundRecords
<1> HIDE DEF g
<1>4. CASE Start(p)
  BY <1>1, <1>2, <1>4, GoodReturn, StaysReturn DEF Start, Enter
<1>5. CASE AnswerVerify(p)
  BY <1>1, <1>2, <1>5, GoodAnswerVerify, StaysAnswer DEF AnswerVerify, Enter
<1>6. CASE AnswerKey(p)
  BY <1>1, <1>2, <1>6, GoodAnswerKey, StaysAnswer DEF AnswerKey, Enter
<1>7. CASE ChannelInactive(p)
  BY <1>1, <1>2, <1>7, GoodError, StaysError DEF ChannelInactive
<1>8. CASE \E n \in 1..Len(ep[Peer(p)].outbound) : Receive(p, n)
  BY <1>3, <1>8, ReceiveBond DEF g
<1> QED BY <1>4, <1>5, <1>6, <1>7, <1>8, Zenon DEF Event

\* Every step leaves the endpoints bound.
LEMMA NextBond == ASSUME Inv, BondInv, [Next]_vars PROVE BondInv'
<1>0. ASSUME NEW p \in Sides PROVE Good(ep[p], ep[Peer(p)]) /\ Lists(ep[p])
  BY AtRest, GoodLists
<1>1. CASE Step
  BY <1>1, StepBond
<1>2. ASSUME NEW p \in Sides, Event(p) PROVE BondInv'
  BY <1>2, EventBond
<1>3. ASSUME NEW p \in Sides, Receive(p, 0) PROVE BondInv'
  <2>1. Good(ep[Peer(p)], ep[p])
    BY Sidedness, AtRest
  <2>2. 0 \in 0..Len(ep[Peer(p)].outbound)
    BY <2>1, SeqLen DEF Good, Wire, Carries, SoundRecords
  <2> QED BY <1>3, <2>2, ReceiveBond
<1>4. ASSUME NEW p \in Sides, WriteData(p) PROVE BondInv'
  <2>1. Steps(ep[p], Data!SSL_write(ep[p]), ep[Peer(p)])
    BY <1>4, AtRest, GoodSSLWrite DEF WriteData, Use, Established, Completed
  <2>2. Stays(ep[p], Data!SSL_write(ep[p]))
    BY <1>0, StaysSSLWrite
  <2> QED BY <1>4, <2>1, <2>2, BondStays DEF WriteData, Use
<1>5. ASSUME NEW p \in Sides, NEW requested, UpdateKey(p, requested) PROVE BondInv'
  <2>1. Steps(ep[p], Data!SSL_key_update(ep[p], requested), ep[Peer(p)])
    BY <1>5, AtRest, GoodKeyUpdate DEF UpdateKey, Use, Established, Completed
  <2>2. Stays(ep[p], Data!SSL_key_update(ep[p], requested))
    BY <1>0, StaysKeyUpdate
  <2> QED BY <1>5, <2>1, <2>2, BondStays DEF UpdateKey, Use
<1>6. CASE RequestRenegotiation
  <2> DEFINE e == ep["server"]
             n == Data!Renewed(e)
             f == [n EXCEPT !.state = "read_client_hello",
                            !.outbound = Append(@, Record("handshake", e.write_key,
                                                          <<[type |-> "hello_request"]>>))]
  <2>1. e.state = "done" /\ Update("server", f)
    BY <1>6, Zenon DEF RequestRenegotiation, Use, Established, Completed
  <2>2. "server" \in Sides /\ ep[Peer("server")] = Client /\ e = Server
    BY DEF Sides, Peer, Client, Server
  <2>3. Steps(Server, f, Client)
    <3>1. Steps(e, f, ep[Peer("server")])
      BY <1>0, <2>1, <2>2, GoodRequestRenegotiation
    <3> HIDE DEF f
    <3> QED BY <2>2, <3>1
  <2>4. DOMAIN n = Fields /\ n.total_renegotiations = e.total_renegotiations + 1
    BY OnRenewed
  <2>5. f.total_renegotiations = n.total_renegotiations
    <3>1. DOMAIN n = Fields
      BY <2>4
    <3> HIDE DEF n
    <3> QED BY <3>1, SMT DEF Fields
  <2>6. f.total_renegotiations # 0
    <3>1. e.total_renegotiations \in Nat
      BY <2>2, BondTurns
    <3> HIDE DEF f, n, e
    <3> QED BY <2>4, <2>5, <3>1
  <2> HIDE DEF f
  <2> QED BY <2>1, <2>3, <2>6, BondServer
<1>7. CASE UNCHANGED vars
  BY <1>7 DEF vars, BondInv, Client, Server
<1> QED BY <1>1, <1>2, <1>3, <1>4, <1>5, <1>6, <1>7, Zenon DEF Next

\* The endpoints are bound, as long as the server has not asked for a renegotiation.
LEMMA BondInvariance == Spec => []BondInv
<1>1. Init => BondInv
  BY InitBond
<1>2. Inv /\ BondInv /\ [Next]_vars => BondInv'
  BY NextBond
<1> QED BY <1>1, <1>2, Invariance, PTL DEF Spec

\* Whatever both are configured with, endpoints that complete agree on the
\* highest version both enable, on whether a session was resumed, and on the keys
\* of both directions, until the server asks for a renegotiation.
THEOREM CompletedAgree == Spec => [](Server.total_renegotiations = 0 => Agreement)
<1>1. Inv /\ BondInv => (Server.total_renegotiations = 0 => Agreement)
  <2> SUFFICES ASSUME Inv, BondInv, Server.total_renegotiations = 0, Client.state = "done", Server.state = "done"
               PROVE  /\ Client.version = Server.version
                      /\ \A v \in Client.cfg.versions \cap Server.cfg.versions : v <= Client.version
                      /\ Client.session_reused = Server.session_reused
                      /\ SameSecret(Client.write_key, Server.read_key)
                      /\ SameSecret(Server.write_key, Client.read_key)
                      /\ Client.write_key.level # "null"
    BY Zenon DEF Agreement, Completed
  <2>1. ClientOwn(Client, Server) /\ ServerOwn(Server, Client.cfg.versions) /\ Client.version \in {0, 12, 13}
    BY BondTurns DEF Bound
  <2>2. At(Client, ClientEnd, {}) /\ At(Server, ServerEnd, {}) /\ Client.state \in ClientEnd /\ Server.state \in ServerEnd
    BY DEF At, ClientEnd, ServerEnd
  <2>3. /\ Client.version = Server.version /\ Client.version \in {12, 13}
        /\ Client.session_reused = Server.session_reused
    <3>1. At(Client, Shown12 \cup ClientEnd, Shown13)
      BY DEF At, ClientEnd
    <3>2. ClientVersion(Client, Server)
      BY <2>1 DEF ClientOwn
    <3> QED BY <2>1, <2>2, <3>1, <3>2 DEF ClientVersion
  <2>4. \A v \in Client.cfg.versions \cap Server.cfg.versions : v <= Client.version
    BY <2>1, <2>3 DEF ServerOwn, ServerVersion
  <2>5. Confirmed(Client) /\ Sealed(Server)
    BY DEF Confirmed, Sealed, At, ClientEnd, ServerEnd
  <2>6. CASE Client.version = 12
    <3>1. /\ Derived(Client.write_key, Key12(Client, "client")) /\ Derived(Client.read_key, Key12(Client, "server"))
          /\ Derived(Server.read_key, Key12(Server, "client")) /\ Derived(Server.write_key, Key12(Server, "server"))
      BY <2>1, <2>2, <2>3, <2>6 DEF ClientOwn, ClientKeys, ServerOwn, ServerKeys
    <3>2. Client.secret = Server.secret /\ Hellos(Client) = Hellos(Server)
      BY <2>1, <2>5, <2>6 DEF ClientOwn, ClientSecrets
    <3>3. \A side : Key12(Client, side) = Key12(Server, side) /\ Key12(Client, side).level = "tls12"
      BY <3>2 DEF Key12, Key
    <3> QED BY <2>3, <2>4, <3>1, <3>3 DEF Derived, SameSecret
  <2>7. CASE Client.version = 13
    <3>1. /\ Derived(Client.write_key, App(Client, "client")) /\ Derived(Client.read_key, App(Client, "server"))
      BY <2>1, <2>7 DEF ClientOwn, ClientKeys, At, ClientEnd
    <3>2. /\ Derived(Server.read_key, App(Server, "client")) /\ Derived(Server.write_key, App(Server, "server"))
      BY <2>1, <2>3, <2>5, <2>7 DEF ServerOwn, ServerKeys, At, ServerEnd
    <3>3. Client.app = Server.app
      BY <2>1, <2>5, <2>7 DEF ClientOwn, ClientSecrets
    <3>4. \A side : App(Client, side) = App(Server, side) /\ App(Client, side).level = "application"
      BY <3>3 DEF App, Key
    <3> QED BY <2>3, <2>4, <3>1, <3>2, <3>4 DEF Derived, SameSecret
  <2> QED BY <2>3, <2>6, <2>7
<1> QED BY <1>1, Invariance, BondInvariance, PTL
=============================================================================
