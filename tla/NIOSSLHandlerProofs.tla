------------------------ MODULE NIOSSLHandlerProofs ------------------------
(***************************************************************************)
(* Type correctness of the handler, for every value of the constants.      *)
(*                                                                         *)
(* The lemmas go from the inside out: each operation of the connection     *)
(* yields a connection, each group of frames a call pushes is a sequence   *)
(* of frames, and with these every action keeps TypeOK, which is inductive *)
(* as it stands.                                                           *)
(***************************************************************************)
EXTENDS NIOSSLHandler, FiniteSetTheorems, TLAPS

\* A record without payload is a record of its kind.
LEMMA RecType ==
    ASSUME NEW k \in Kinds PROVE Rec(k) \in Record /\ Rec(k).kind = k
BY DEF Rec, Record

\* The retry flag of the BIO is the connection's own field.
LEMMA RetryReadType ==
    ASSUME NEW c \in Connection, NEW b \in BOOLEAN
    PROVE  /\ RetryRead(c, b) \in Connection
           /\ RetryRead(c, b).inbound = c.inbound /\ RetryRead(c, b).outbound = c.outbound
           /\ RetryRead(c, b).writeShutdown = c.writeShutdown
           /\ RetryRead(c, b).readShutdown = c.readShutdown
           /\ RetryRead(c, b).inInit = c.inInit /\ RetryRead(c, b).hsError = c.hsError
<1>1. RetryRead(c, b) \in Connection
  BY DEF RetryRead, Connection
<1> QED BY <1>1 DEF RetryRead, Connection

\* Asking a closed BIO yields a connection; so does a read that finds nothing.
LEMMA NothingToReadType ==
    ASSUME NEW c \in Connection
    PROVE  /\ BIOClosed(c).conn = c /\ BIOClosed(c).res \in {"incomplete", "failed"}
           /\ WantRead(c).conn = RetryRead(c, TRUE) /\ WantRead(c).conn \in Connection
           /\ WantRead(c).res = "incomplete"
BY RetryReadType DEF BIOClosed, WantRead, Result

\* Writing a record into the BIO yields a connection.
LEMMA SendType ==
    ASSUME NEW c \in Connection, NEW r \in Record
    PROVE  Send(c, r) \in Connection
<1>1. RetryRead(c, FALSE) \in Connection
  BY RetryReadType
<1>2. Append(RetryRead(c, FALSE).outbound, r) \in Seq(Record)
  <2>1. c.outbound \in Seq(Record)
    BY DEF Connection
  <2>2. Append(c.outbound, r) \in Seq(Record)
    BY <2>1
  <2>3. RetryRead(c, FALSE).outbound = c.outbound
    BY RetryReadType
  <2> QED BY <2>2, <2>3
<1> QED BY <1>1, <1>2 DEF Send, Connection

\* Consuming the next record yields a connection.
LEMMA ConsumeType ==
    ASSUME NEW c \in Connection, c.inbound # <<>>
    PROVE  Consume(c) \in Connection
<1>1. RetryRead(c, FALSE) \in Connection /\ RetryRead(c, FALSE).inbound = c.inbound
  BY RetryReadType
<1>2. Tail(RetryRead(c, FALSE).inbound) \in Seq(Record)
  <2>1. c.inbound \in Seq(Record)
    BY DEF Connection
  <2>2. Tail(c.inbound) \in Seq(Record)
    BY <2>1
  <2> QED BY <1>1, <2>2
<1> QED BY <1>1, <1>2 DEF Consume, Connection

\* ssl_send_alert yields a connection.
LEMMA FatalAlertType ==
    ASSUME NEW c \in Connection
    PROVE  FatalAlert(c) \in Connection
<1>1. Send(c, Rec("alert")) \in Connection
  BY SendType, RecType DEF Kinds
<1> QED BY <1>1 DEF FatalAlert, Connection, Shutdown

\* Refusing the next record yields a connection.
LEMMA RefuseType ==
    ASSUME NEW c \in Connection, c.inbound # <<>>
    PROVE  Refuse(c) \in Connection
BY ConsumeType, FatalAlertType DEF Refuse

\* The results of SSL_do_handshake.
HandshakeResults == {"complete", "incomplete", "startsCallback", "failed"}

\* A record refused during the handshake fails it.
LEMMA RefuseInHandshakeType ==
    ASSUME NEW c \in Connection, c.inbound # <<>>
    PROVE  /\ RefuseInHandshake(c).conn \in Connection
           /\ RefuseInHandshake(c).res = "failed"
BY RefuseType, ConsumeType DEF RefuseInHandshake, Result, Connection, Shutdown

\* Answering a flight yields one of the results of SSL_do_handshake.
LEMMA FinishFlightType ==
    ASSUME NEW c \in Connection
    PROVE  FinishFlight(c).conn \in Connection /\ FinishFlight(c).res \in HandshakeResults
<1> DEFINE t == [Send(c, Rec("hs")) EXCEPT !.flights = @ + 1]
<1>0. Send(c, Rec("hs")) \in Connection
  BY SendType, RecType DEF Kinds
<1>1. t \in Connection
  <2> DEFINE d == Send(c, Rec("hs"))
  <2>1. d \in Connection
    BY <1>0
  <2> HIDE DEF d
  <2>2. d.flights + 1 \in Nat
    BY <2>1 DEF Connection
  <2>3. [d EXCEPT !.flights = @ + 1] \in Connection
    BY <2>1, <2>2 DEF Connection
  <2> QED BY <2>3 DEF d
<1> HIDE DEF t
<1>2. [t EXCEPT !.inInit = FALSE] \in Connection
  BY <1>1 DEF Connection
<1>3. /\ WantRead(t).conn \in Connection /\ WantRead(t).res \in HandshakeResults
      /\ t.inbound # <<>> => /\ RefuseInHandshake(t).conn \in Connection
                             /\ RefuseInHandshake(t).res \in HandshakeResults
  BY <1>1, NothingToReadType, RefuseInHandshakeType DEF HandshakeResults
<1>4. \/ FinishFlight(c) = Result("complete", [t EXCEPT !.inInit = FALSE])
      \/ FinishFlight(c) = WantRead(t)
      \/ t.inbound # <<>> /\ FinishFlight(c) = RefuseInHandshake(t)
  BY DEF FinishFlight, t
<1>5. LET u == [t EXCEPT !.inInit = FALSE]
      IN  Result("complete", u).conn = u /\ Result("complete", u).res = "complete"
  BY DEF Result
<1> QED BY <1>2, <1>3, <1>4, <1>5 DEF HandshakeResults

\* Reading a flight yields one of the results of SSL_do_handshake.
LEMMA ReadFlightType ==
    ASSUME NEW c \in Connection
    PROVE  ReadFlight(c).conn \in Connection /\ ReadFlight(c).res \in HandshakeResults
<1>1. CASE c.inbound = <<>>
  BY <1>1, NothingToReadType DEF ReadFlight, HandshakeResults
<1>2. CASE c.inbound # <<>>
  <2>1. Consume(c) \in Connection /\ [Consume(c) EXCEPT !.verify = "pendingResult"] \in Connection
    BY <1>2, ConsumeType DEF Connection, Verify
  <2> QED BY <1>2, <2>1, RefuseInHandshakeType, FinishFlightType
          DEF ReadFlight, Result, HandshakeResults
<1> QED BY <1>1, <1>2

\* SSL_do_handshake yields a connection and one of its results.
LEMMA DoHandshakeType ==
    ASSUME NEW c \in Connection
    PROVE  DoHandshake(c).conn \in Connection /\ DoHandshake(c).res \in HandshakeResults
<1>1. StartHandshake(c) \in Connection
  BY SendType, RecType DEF StartHandshake, Kinds, Connection
<1>2. HandshakeError(c) \in Connection
  BY FatalAlertType DEF HandshakeError, Connection
<1>3. c.verify \in Verify
  BY DEF Connection
<1> QED BY <1>1, <1>2, <1>3, ReadFlightType, FinishFlightType, NothingToReadType
        DEF DoHandshake, Result, HandshakeResults, Verify

\* The data at the head of the input is a prefix of it.
LEMMA DataPrefixType ==
    ASSUME NEW s \in Seq(Record)
    PROVE  DataPrefix(s) \in 0..Len(s)
<1> DEFINE K == {k \in 1..Len(s) : \A i \in 1..k : s[i].kind = "data"}
<1>1. IsFiniteSet(1..Len(s)) /\ Cardinality(1..Len(s)) = Len(s)
  <2>1. Len(s) \in Nat
    OBVIOUS
  <2> QED BY <2>1, FS_Interval
<1>2. IsFiniteSet(K) /\ Cardinality(K) <= Cardinality(1..Len(s))
  BY <1>1, FS_Subset
<1>3. Cardinality(K) \in Nat
  BY <1>2, FS_CardinalityType
<1> QED BY <1>1, <1>2, <1>3 DEF DataPrefix

\* SSL_read yields a connection, data and one of its results.
LEMMA ReadDataType ==
    ASSUME NEW c \in Connection
    PROVE  /\ ReadData(c).conn \in Connection
           /\ ReadData(c).res \in {"incomplete", "zeroReturn", "failed"}
           /\ ReadableData(c) \in Seq(Record)
<1>1. c.inbound \in Seq(Record)
  BY DEF Connection
<1>2. DataPrefix(c.inbound) \in 0..Len(c.inbound)
  BY <1>1, DataPrefixType
<1>3. SubSeq(c.inbound, DataPrefix(c.inbound) + 1, Len(c.inbound)) \in Seq(Record)
  BY <1>1, <1>2
<1>4. SubSeq(c.inbound, 1, DataPrefix(c.inbound)) \in Seq(Record)
  BY <1>1, <1>2
<1> DEFINE t == [c EXCEPT !.inbound = SubSeq(c.inbound, DataPrefix(c.inbound) + 1, Len(c.inbound))]
<1>5. t \in Connection
  BY <1>3 DEF Connection
<1> HIDE DEF t
<1>6. t.inbound # <<>> => /\ [Consume(t) EXCEPT !.readShutdown = "closeNotify"] \in Connection
                          /\ [Refuse(t) EXCEPT !.readShutdown = "error"] \in Connection
  <2>1. ASSUME NEW d \in Connection, NEW r \in Shutdown
        PROVE  [d EXCEPT !.readShutdown = r] \in Connection
    BY DEF Connection
  <2>2. t.inbound # <<>> => Consume(t) \in Connection /\ Refuse(t) \in Connection
    BY <1>5, ConsumeType, RefuseType
  <2>3. "closeNotify" \in Shutdown /\ "error" \in Shutdown
    BY DEF Shutdown
  <2> QED BY <2>1, <2>2, <2>3
<1> USE DEF t
<1>7. ReadData(c).conn \in Connection /\ ReadData(c).res \in {"incomplete", "zeroReturn", "failed"}
  <2>1. /\ BIOClosed(c).conn \in Connection /\ WantRead(t).conn \in Connection
        /\ {BIOClosed(c).res, WantRead(t).res} \subseteq {"incomplete", "failed"}
    <3> HIDE DEF t
    <3> QED BY <1>5, NothingToReadType
  <2> QED BY <1>5, <1>6, <2>1 DEF ReadData, Result
<1> QED BY <1>4, <1>7 DEF ReadableData

\* SSL_shutdown yields a connection and one of its results.
LEMMA DoShutdownType ==
    ASSUME NEW c \in Connection
    PROVE  /\ DoShutdown(c).conn \in Connection
           /\ DoShutdown(c).res \in {"complete", "incomplete", "failed"}
<1>1. Send(c, Rec("closeNotify")) \in Connection
  BY SendType, RecType DEF Kinds
<1>2. /\ SendCloseNotify(c).conn \in Connection
      /\ SendCloseNotify(c).res \in {"complete", "incomplete", "failed"}
  <2>1. /\ [Send(c, Rec("closeNotify")) EXCEPT !.writeShutdown = "closeNotify"] \in Connection
        /\ [c EXCEPT !.writeShutdown = "closeNotify"] \in Connection
    BY <1>1 DEF Connection, Shutdown
  <2> QED BY <2>1, NothingToReadType DEF SendCloseNotify, Result
<1>3. c.inbound # <<>> => /\ [Consume(c) EXCEPT !.readShutdown = "closeNotify"] \in Connection
                          /\ [Refuse(c) EXCEPT !.readShutdown = "error"] \in Connection
  BY ConsumeType, RefuseType DEF Connection, Shutdown
<1>4. /\ AwaitCloseNotify(c).conn \in Connection
      /\ AwaitCloseNotify(c).res \in {"complete", "incomplete", "failed"}
  BY <1>3, NothingToReadType, RetryReadType DEF AwaitCloseNotify, Result
<1> QED BY <1>2, <1>4 DEF DoShutdown, Result

\* _encodeSingleWrite yields a connection and one of its results.
LEMMA EncodeSingleWriteType ==
    ASSUME NEW c \in Connection, NEW a \in Action
    PROVE  /\ EncodeSingleWrite(c, a).conn \in Connection
           /\ EncodeSingleWrite(c, a).res \in {"complete", "incomplete", "failed"}
<1>1. /\ BeforeWrite(c).conn \in Connection
      /\ BeforeWrite(c).res \in {"complete", "incomplete", "failed"}
  BY DoHandshakeType, NothingToReadType DEF BeforeWrite, Result, HandshakeResults
<1>2. DataRecord(a.id, a.n) \in Record
  BY DEF DataRecord, Record, Action, Kinds
<1>3. Send(BeforeWrite(c).conn, DataRecord(a.id, a.n)) \in Connection
  BY <1>1, <1>2, SendType
<1> QED BY <1>1, <1>3 DEF EncodeSingleWrite, Result
-----------------------------------------------------------------------------
\* A call is a frame.
LEMMA CallType ==
    ASSUME NEW op \in Ops, NEW p \in SUBSET Promises
    PROVE  Call(op, p) \in Frame /\ Run(op) \in Frame
BY DEF Call, Run, Frame

\* The frames that the methods of the handler push are frames.
LEMMA FramesType ==
    /\ Callout \in Frame /\ Netout \in Frame
    /\ CompleteHandshake \in Seq(Frame)
    /\ AfterCloseNotify \in Seq(Frame)
    /\ AfterIncomplete \in Seq(Frame)
    /\ AfterFeeding \in Seq(Frame)
    /\ TimedOutUnwrap \in Frame
<1>1. \A op \in Ops : Run(op) \in Frame
  BY CallType
<1>2. Callout \in Frame /\ Netout \in Frame
  BY <1>1 DEF Callout, Netout, Ops
<1>3. /\ CompleteHandshake \in Seq(Frame)
      /\ AfterCloseNotify \in Seq(Frame)
      /\ AfterIncomplete \in Seq(Frame)
      /\ AfterFeeding \in Seq(Frame)
  BY <1>1, <1>2 DEF Ops, CompleteHandshake, AfterCloseNotify, AfterIncomplete, AfterFeeding
<1>4. TimedOutUnwrap \in Frame
  BY DEF TimedOutUnwrap, Run, Call, Frame, Ops
<1> QED BY <1>2, <1>3, <1>4

\* Replacing the innermost frame by others leaves a stack.
LEMMA GotoType ==
    ASSUME stack \in Seq(Frame), NEW op, Running(op), NEW frames \in Seq(Frame)
    PROVE  /\ Goto(frames) => stack' \in Seq(Frame)
           /\ Top \in Frame /\ Rest \in Seq(Frame)
<1>1. stack # <<>>
  BY DEF Running
<1>2. Top \in Frame /\ Rest \in Seq(Frame)
  BY <1>1 DEF Top, Rest
<1> HIDE DEF Rest
<1>3. frames \o Rest \in Seq(Frame)
  BY <1>2
<1> QED BY <1>2, <1>3 DEF Goto

\* Completing promises leaves every promise a status.
LEMMA CompleteType ==
    ASSUME promise \in [Promises -> PromiseStatus], NEW ps, NEW s \in PromiseStatus
    PROVE  Complete(ps, s) \in [Promises -> PromiseStatus]
BY DEF Complete

\* A write has at least one slice.
LEMMA SlicesType ==
    ASSUME NEW n \in Nat
    PROVE  Slices(n) \in Nat /\ Slices(n) >= 1
BY HandlerAssumption DEF Slices

\* The slices of a write are buffered actions.
LEMMA SliceActionsType ==
    ASSUME NEW n \in Nat, NEW id \in Promises
    PROVE  SliceActions(id, n) \in Seq(Action)
<1>1. Slices(n) \in Nat
  BY SlicesType
<1>2. \A i \in 1..Slices(n) :
        [kind |-> "write", id |-> id, n |-> i, empty |-> n = 0,
         p |-> IF i = Slices(n) THEN {id} ELSE {}] \in Action
  BY <1>1 DEF Action
<1> QED BY <1>1, <1>2 DEF SliceActions

\* The slices of a write hold it, and one less would not.
LEMMA SlicesFit ==
    ASSUME NEW n \in Nat \ {0}
    PROVE  /\ Slices(n) \in 1..n
           /\ n <= Slices(n) * MaxWriteSize /\ Slices(n) * MaxWriteSize < n + MaxWriteSize
<1> DEFINE m == MaxWriteSize
           x == n + m - 1
           q == x \div m
<1>1. x \in Nat /\ m \in Nat \ {0}
  BY HandlerAssumption
<1> HIDE DEF m
<1>2. q \in Nat /\ q * m <= x /\ x < q * m + m
  <2>1. \A i \in Nat \ {0}, y \in Nat :
          y \div i \in Nat /\ (y \div i) * i <= y /\ y < (y \div i) * i + i
    OBVIOUS
  <2> HIDE DEF x
  <2> QED BY <1>1, <2>1
<1>3. q # 0
  BY <1>1, <1>2
<1>4. q <= n
  <2>1. \A k, i, j \in Nat : i > 0 /\ k > j => k * i >= j * i + i
    OBVIOUS
  <2>2. \A j \in Nat, i \in Nat \ {0} : j * i >= j
    OBVIOUS
  <2> HIDE DEF q
  <2> QED BY <1>1, <1>2, <2>1, <2>2 DEF x
<1> QED BY <1>1, <1>2, <1>3, <1>4 DEF Slices, m

\* The definition that bufferWrite's loop is compared with agrees with it: an
\* empty write becomes no record, any other one record for each slice.
LEMMA PartsAre == Parts(0) = 0 /\ \A n \in Nat \ {0} : Parts(n) = Slices(n)
<1> DEFINE m == MaxWriteSize
<1>1. m \in Nat \ {0}
  BY HandlerAssumption
<1> HIDE DEF m
<1>2. ASSUME NEW n \in Nat, NEW k \in 0..n, n <= k * m, k * m < n + m PROVE Parts(n) = k
  <2>1. Parts(n) \in 0..n /\ n <= Parts(n) * m /\ Parts(n) * m < n + m
    BY <1>2 DEF Parts, m
  <2>2. \A i, h, j \in Nat : h > 0 /\ i > j => i * h >= j * h + h
    OBVIOUS
  <2> QED BY <1>1, <1>2, <2>1, <2>2
<1>3. Parts(0) = 0
  BY <1>1, <1>2
<1>4. ASSUME NEW n \in Nat \ {0} PROVE Parts(n) = Slices(n)
  BY <1>2, SlicesFit DEF m
<1> QED BY <1>3, <1>4

\* The records that a write must become are records.
LEMMA ExpectedRecordsType ==
    ASSUME NEW n \in Nat, NEW id \in Promises
    PROVE  ExpectedRecords(id, n) \in Seq(Record)
<1>1. Parts(n) \in Nat
  BY PartsAre, SlicesType
<1>2. \A i \in 1..Parts(n) : DataRecord(id, i) \in Record
  BY <1>1 DEF DataRecord, Record, Kinds
<1> HIDE DEF Parts, DataRecord
<1> QED BY <1>1, <1>2 DEF ExpectedRecords

\* Every way of changing the state keeps it typed, and leaves a task the
\* state refers to among those that have not run.
LEMMA EnterType ==
    ASSUME TypeOK, NEW s \in States
    PROVE  Enter(s) \/ EnterTimed(s) \/ CancelAndEnter(s) =>
               /\ state' \in States
               /\ timers' \in Nat /\ scheduled' \in BOOLEAN /\ (scheduled' => timers' > 0)
<1> USE DEF TypeOK
<1>1. ASSUME Enter(s)
      PROVE  /\ state' \in States
             /\ timers' \in Nat /\ scheduled' \in BOOLEAN /\ (scheduled' => timers' > 0)
  <2>1. (scheduled' = TRUE \/ scheduled' = FALSE) /\ (scheduled' => scheduled)
    BY <1>1, Zenon DEF Enter
  <2> QED BY <1>1, <2>1 DEF Enter
<1>2. ASSUME EnterTimed(s)
      PROVE  /\ state' \in States
             /\ timers' \in Nat /\ scheduled' \in BOOLEAN /\ (scheduled' => timers' > 0)
  BY <1>2 DEF EnterTimed
<1>3. ASSUME CancelAndEnter(s)
      PROVE  /\ state' \in States
             /\ timers' \in Nat /\ scheduled' \in BOOLEAN /\ (scheduled' => timers' > 0)
  <2>1. CASE scheduled = TRUE
    <3>1. timers > 0 /\ timers' = timers - 1
      BY <1>3, <2>1, Zenon DEF CancelAndEnter
    <3>2. timers \in Nat
      OBVIOUS
    <3>3. state' = s /\ scheduled' = FALSE
      BY <1>3, Zenon DEF CancelAndEnter
    <3>4. timers' \in Nat
      BY <3>1, <3>2, SMT
    <3> QED BY <3>3, <3>4
  <2>2. CASE scheduled = FALSE
    BY <1>3, <2>2 DEF CancelAndEnter
  <2> QED BY <2>1, <2>2
<1> QED BY <1>1, <1>2, <1>3

\* A call without promises is a frame.
LEMMA RunType == \A op \in Ops : Run(op) \in Frame
BY CallType

\* The innermost frame is a frame.
LEMMA TopType ==
    ASSUME stack \in Seq(Frame), NEW op, Running(op)
    PROVE  /\ Top \in Frame /\ Top.p \in SUBSET Promises /\ Top.n \in Nat
           /\ Top.e \in BOOLEAN
<1>1. Top \in Frame
  BY DEF Running, Top
<1> QED BY <1>1 DEF Frame

\* A frame stays one when its locals change.
LEMMA FrameExceptType ==
    ASSUME NEW f \in Frame, NEW e \in BOOLEAN, NEW n \in Nat, NEW p \in SUBSET Promises
    PROVE  /\ [f EXCEPT !.e = e] \in Frame
           /\ [f EXCEPT !.n = n] \in Frame
           /\ [f EXCEPT !.p = @ \cup p, !.e = TRUE] \in Frame
BY DEF Frame

\* The operations on the BIO and the verdict of the user yield connections.
LEMMA ConnectionOpsType ==
    ASSUME NEW c \in Connection
    PROVE  /\ c.inbound \in Seq(Record) /\ c.outbound \in Seq(Record)
           /\ GetDataForNetwork(c) \in Connection
           /\ ExtractUnconsumedData(c) \in Connection
           /\ CloseConnection(c) \in Connection
           /\ \A r \in Verify : SetVerification(c, r) \in Connection
           /\ \A recs \in Seq(Record) : ConsumeDataFromNetwork(c, recs) \in Connection
<1>1. c.inbound \in Seq(Record) /\ c.outbound \in Seq(Record)
  BY DEF Connection
<1>2. GetDataForNetwork(c) \in Connection /\ ExtractUnconsumedData(c) \in Connection
  <2>1. <<>> \in Seq(Record)
    OBVIOUS
  <2>2. GetDataForNetwork(c) \in Connection
    BY <2>1 DEF Connection, GetDataForNetwork
  <2>3. ExtractUnconsumedData(c) \in Connection
    BY <2>1 DEF Connection, ExtractUnconsumedData
  <2> QED BY <2>2, <2>3
<1>3. CloseConnection(c) \in Connection
  BY DEF Connection, CloseConnection
<1>4. \A r \in Verify : SetVerification(c, r) \in Connection
  BY DEF Connection, SetVerification
<1>5. ASSUME NEW recs \in Seq(Record)
      PROVE  ConsumeDataFromNetwork(c, recs) \in Connection
  <2>1. c.inbound \o recs \in Seq(Record)
    BY <1>1
  <2> QED BY <2>1 DEF Connection, ConsumeDataFromNetwork
<1> QED BY <1>1, <1>2, <1>3, <1>4, <1>5

\* What is below the innermost frame is a stack.
LEMMA RestType ==
    ASSUME stack \in Seq(Frame), NEW op, Running(op)
    PROVE  Rest \in Seq(Frame)
BY DEF Running, Rest

\* Popping a buffered action leaves the mark within the buffer.
LEMMA PopType ==
    ASSUME bufferedActions \in Seq(Action), marked \in 0..Len(bufferedActions)
    PROVE  /\ Len(bufferedActions) \in Nat
           /\ marked > 0 => bufferedActions # <<>>
           /\ bufferedActions # <<>> =>
                /\ Head(bufferedActions) \in Action
                /\ Tail(bufferedActions) \in Seq(Action)
                /\ (IF marked > 0 THEN marked - 1 ELSE 0) \in 0..Len(Tail(bufferedActions))
<1>1. Len(bufferedActions) \in Nat /\ (bufferedActions # <<>> => Len(bufferedActions) > 0)
  OBVIOUS
<1>2. marked > 0 => bufferedActions # <<>>
  OBVIOUS
<1>3. bufferedActions # <<>> =>
        /\ Head(bufferedActions) \in Action
        /\ Tail(bufferedActions) \in Seq(Action)
        /\ Len(Tail(bufferedActions)) = Len(bufferedActions) - 1
  OBVIOUS
<1> QED BY <1>1, <1>2, <1>3

\* Appending to the buffer leaves the mark within it.
LEMMA ConcatType ==
    ASSUME NEW S, NEW s \in Seq(S), NEW t \in Seq(S), NEW m \in 0..Len(s)
    PROVE  s \o t \in Seq(S) /\ m \in 0..Len(s \o t)
<1>1. s \o t \in Seq(S) /\ Len(s \o t) = Len(s) + Len(t)
  OBVIOUS
<1>2. Len(s) \in Nat /\ Len(t) \in Nat
  OBVIOUS
<1> QED BY <1>1, <1>2

\* A buffered closeOutput is marked, and within the buffer.
LEMMA AppendType ==
    ASSUME bufferedActions \in Seq(Action)
    PROVE  /\ Append(bufferedActions, CloseOutputAction) \in Seq(Action)
           /\ Len(bufferedActions) + 1 \in 0..Len(Append(bufferedActions, CloseOutputAction))
<1>1. CloseOutputAction \in Action
  BY DEF CloseOutputAction, Action
<1>2. Len(Append(bufferedActions, CloseOutputAction)) = Len(bufferedActions) + 1
  OBVIOUS
<1>3. Len(bufferedActions) \in Nat
  OBVIOUS
<1>4. Append(bufferedActions, CloseOutputAction) \in Seq(Action)
  BY <1>1
<1> QED BY <1>2, <1>3, <1>4

\* Every step of the handler, of the channel, of the user and of the event
\* loop keeps the types.
LEMMA TypeStep ==
    ASSUME TypeOK, [Next]_vars
    PROVE  TypeOK'
<1> USE DEF timerVars, slotVars, bufVars, chanVars, envVars, histVars
<1>1. CASE WriteDataToNetwork
  <2>1. <<Netout>> \in Seq(Frame) /\ <<>> \in Seq(Frame)
    BY FramesType
  <2>2. stack' \in Seq(Frame)
    BY <1>1, <2>1, GotoType DEF TypeOK, WriteDataToNetwork
  <2>3. promise' \in [Promises -> PromiseStatus]
    BY <1>1, CompleteType DEF TypeOK, WriteDataToNetwork, PromiseStatus
  <2>4. /\ GetDataForNetwork(conn) \in Connection
        /\ wire \in Seq(Record) /\ wire \o conn.outbound \in Seq(Record)
    BY ConnectionOpsType DEF TypeOK
  <2>5. conn' \in Connection /\ wire' \in Seq(Record)
    BY <1>1, <2>4 DEF TypeOK, WriteDataToNetwork
  <2> QED BY <1>1, <2>1, <2>2, <2>3, <2>4, <2>5 DEF TypeOK, WriteDataToNetwork
<1>2. CASE ContextClose
  <2>1. <<Netout>> \in Seq(Frame) /\ <<Callout>> \in Seq(Frame)
    BY FramesType
  <2>2. stack' \in Seq(Frame)
    BY <1>2, <2>1, GotoType DEF TypeOK, ContextClose
  <2>3. promise' \in [Promises -> PromiseStatus]
    BY <1>2, CompleteType DEF TypeOK, ContextClose, PromiseStatus
  <2>4. /\ channel' \in {"registered", "active", "closed"}
        /\ inactiveDue' \in BOOLEAN /\ outputOpen' \in BOOLEAN
    BY <1>2 DEF TypeOK, ContextClose
  <2> QED BY <1>2, <2>1, <2>2, <2>3, <2>4 DEF TypeOK, ContextClose
<1>3. CASE ContextCloseOutput
  <2>1. <<Netout>> \in Seq(Frame) /\ <<Callout>> \in Seq(Frame)
    BY FramesType
  <2>2. stack' \in Seq(Frame)
    BY <1>3, <2>1, GotoType DEF TypeOK, ContextCloseOutput
  <2>3. promise' \in [Promises -> PromiseStatus]
    BY <1>3, CompleteType DEF TypeOK, ContextCloseOutput, PromiseStatus
  <2>4. outputOpen' \in BOOLEAN
    BY <1>3 DEF TypeOK, ContextCloseOutput
  <2> QED BY <1>3, <2>1, <2>2, <2>3, <2>4 DEF TypeOK, ContextCloseOutput
<1>4. CASE ChannelClose
  <2>1. (IF shutdownPromise = {} THEN <<>> ELSE <<Callout>>)
          \o <<Call("contextClose", closePromise)>> \in Seq(Frame)
    BY CallType, FramesType DEF TypeOK, Ops
  <2>2. stack' \in Seq(Frame)
    BY <1>4, <2>1, GotoType DEF TypeOK, ChannelClose
  <2>3. promise' \in [Promises -> PromiseStatus]
    BY <1>4, CompleteType DEF TypeOK, ChannelClose, PromiseStatus
  <2>4. /\ state' \in States
        /\ timers' \in Nat /\ scheduled' \in BOOLEAN /\ (scheduled' => timers' > 0)
    BY <1>4, EnterType DEF TypeOK, ChannelClose, States
  <2> QED BY <1>4, <2>1, <2>2, <2>3, <2>4 DEF TypeOK, ChannelClose
<1>5. CASE ChannelCloseOutput
  <2>1. <<Call("contextCloseOutput", closeOutputPromise)>> \in Seq(Frame)
    BY CallType DEF TypeOK, Ops
  <2>2. stack' \in Seq(Frame)
    BY <1>5, <2>1, GotoType DEF TypeOK, ChannelCloseOutput
  <2> QED BY <1>5, <2>1, <2>2 DEF TypeOK, ChannelCloseOutput
<1>6. CASE ChannelUnwrap
  <2>1. /\ Top \in Frame /\ Top.p \in SUBSET Promises /\ Top.n \in Nat
        /\ Top.e \in BOOLEAN
    BY <1>6, TopType DEF TypeOK, ChannelUnwrap
  <2>2. Call("removalFuture", shutdownPromise) \in Frame
    BY CallType DEF TypeOK, Ops
  <2>3. [Call("removalFuture", shutdownPromise) EXCEPT !.e = Top.e] \in Frame
    BY <2>1, <2>2, FrameExceptType
  <2>4. <<Run("discard"), [Call("removalFuture", shutdownPromise) EXCEPT !.e = Top.e]>> \in Seq(Frame)
    BY <2>3, RunType DEF Ops
  <2>5. stack' \in Seq(Frame)
    BY <1>6, <2>4, GotoType, RestType DEF TypeOK, ChannelUnwrap, Crash
  <2>6. /\ state' \in States
        /\ timers' \in Nat /\ scheduled' \in BOOLEAN /\ (scheduled' => timers' > 0)
    BY <1>6, EnterType DEF TypeOK, ChannelUnwrap, States
  <2>7. fatal' \in Fatals /\ removed' \in BOOLEAN /\ conn' \in Connection
    BY <1>6, ConnectionOpsType DEF TypeOK, ChannelUnwrap, Crash, Fatals
  <2> QED BY <1>6, <2>1, <2>2, <2>3, <2>4, <2>5, <2>6, <2>7 DEF TypeOK, ChannelUnwrap
<1>7. CASE RemovalFuture
  <2>1. <<Callout>> \in Seq(Frame)
    BY FramesType
  <2>2. stack' \in Seq(Frame)
    BY <1>7, <2>1, GotoType DEF TypeOK, RemovalFuture
  <2>3. promise' \in [Promises -> PromiseStatus]
    BY <1>7, CompleteType DEF TypeOK, RemovalFuture, PromiseStatus
  <2>4. conn' \in Connection /\ evacuated' \in Seq(Record)
    BY <1>7, ConnectionOpsType DEF TypeOK, RemovalFuture
  <2> QED BY <1>7, <2>1, <2>2, <2>3, <2>4 DEF TypeOK, RemovalFuture
<1>8. CASE BufferWrite
  <2>1. /\ Top \in Frame /\ Top.p \in SUBSET Promises /\ Top.n \in Nat
        /\ Top.e \in BOOLEAN
    BY <1>8, TopType DEF TypeOK, BufferWrite
  <2>2. <<Callout>> \in Seq(Frame) /\ <<>> \in Seq(Frame)
    BY FramesType
  <2>3. stack' \in Seq(Frame)
    BY <1>8, <2>2, GotoType DEF TypeOK, BufferWrite
  <2>4. promise' \in [Promises -> PromiseStatus]
    BY <1>8, CompleteType DEF TypeOK, BufferWrite, PromiseStatus
  <2>5. \A id \in Top.p : /\ SliceActions(id, Top.n) \in Seq(Action)
                          /\ ExpectedRecords(id, Top.n) \in Seq(Record)
    BY <2>1, SliceActionsType, ExpectedRecordsType
  <2>6. \A id \in Top.p :
          /\ bufferedActions \o SliceActions(id, Top.n) \in Seq(Action)
          /\ marked \in 0..Len(bufferedActions \o SliceActions(id, Top.n))
          /\ writes \o ExpectedRecords(id, Top.n) \in Seq(Record)
    BY <2>5, ConcatType, SMTT(30) DEF TypeOK
  <2>7. /\ bufferedActions' \in Seq(Action) /\ marked' \in 0..Len(bufferedActions')
        /\ writes' \in Seq(Record)
    BY <1>8, <2>6 DEF TypeOK, BufferWrite
  <2> QED BY <1>8, <2>1, <2>2, <2>3, <2>4, <2>5, <2>6, <2>7, SMTT(30) DEF TypeOK, BufferWrite
<1>9. CASE Flush
  <2>1. <<>> \in Seq(Frame) /\ <<Run("doUnbufferActions")>> \in Seq(Frame)
    BY RunType, FramesType DEF Ops
  <2>2. stack' \in Seq(Frame)
    BY <1>9, <2>1, GotoType DEF TypeOK, Flush
  <2>3. marked' \in 0..Len(bufferedActions')
    BY <1>9 DEF TypeOK, Flush
  <2> QED BY <1>9, <2>1, <2>2, <2>3 DEF TypeOK, Flush
<1>10. CASE Discard
  <2>1. /\ Top \in Frame /\ Top.p \in SUBSET Promises /\ Top.n \in Nat
        /\ Top.e \in BOOLEAN
    BY <1>10, TopType DEF TypeOK, Discard
  <2>2. /\ <<>> \in Seq(Frame)
        /\ \A p : (IF p = {} THEN <<>> ELSE <<Callout>>) \o <<Top>> \in Seq(Frame)
    BY <2>1, FramesType
  <2>3. stack' \in Seq(Frame)
    BY <1>10, <2>2, GotoType DEF TypeOK, Discard
  <2>4. promise' \in [Promises -> PromiseStatus]
    BY <1>10, CompleteType DEF TypeOK, Discard, PromiseStatus
  <2>5. bufferedActions' \in Seq(Action) /\ marked' \in 0..Len(bufferedActions')
    BY <1>10, PopType DEF TypeOK, Discard
  <2> QED BY <1>10, <2>1, <2>2, <2>3, <2>4, <2>5 DEF TypeOK, Discard
<1>11. CASE DoUnbufferActions
  <2>1. /\ Top \in Frame /\ Top.p \in SUBSET Promises /\ Top.n \in Nat
        /\ Top.e \in BOOLEAN
    BY <1>11, TopType DEF TypeOK, DoUnbufferActions
  <2>2. \A b \in BOOLEAN : AfterLoop(b) \in Seq(Frame)
    BY <2>1, CallType, RunType DEF AfterLoop, Ops
  <2>3. marked > 0 => bufferedActions # <<>> /\ Head(bufferedActions).p \in SUBSET Promises
    BY PopType DEF TypeOK, Action
  <2>4. marked > 0 => [Top EXCEPT !.p = @ \cup Head(bufferedActions).p, !.e = TRUE] \in Frame
    BY <2>1, <2>3, FrameExceptType, Zenon
  <2>5. marked > 0 => <<[Top EXCEPT !.p = @ \cup Head(bufferedActions).p, !.e = TRUE]>> \in Seq(Frame)
    BY <2>4
  <2>6. <<Run("channelClose"), Call("failEncoded", Top.p),
          Run("failCloseOutput"), Run("discard")>> \in Seq(Frame)
    BY <2>1, CallType, RunType DEF Ops
  <2>7. stack' \in Seq(Frame)
    BY <1>11, <2>2, <2>5, <2>6, GotoType, RestType DEF TypeOK, DoUnbufferActions, Crash
  <2>8. \/ UNCHANGED <<bufferedActions, marked>>
        \/ /\ marked > 0 /\ marked' = marked - 1
           /\ bufferedActions' = Tail(bufferedActions)
    BY <1>11 DEF DoUnbufferActions, PopAction
  <2>9. bufferedActions' \in Seq(Action) /\ marked' \in 0..Len(bufferedActions')
    BY <2>8, PopType DEF TypeOK
  <2>10. conn' \in Connection /\ fatal' \in Fatals
    BY <1>11, <2>3, PopType, EncodeSingleWriteType DEF TypeOK, DoUnbufferActions, Crash, Fatals
  <2> QED BY <1>11, <2>7, <2>9, <2>10 DEF TypeOK, DoUnbufferActions
<1>12. CASE InvokeCloseOutput
  <2>1. <<Run("doShutdownStep"), Run("discard")>> \in Seq(Frame)
    BY RunType, FramesType DEF Ops
  <2>2. stack' \in Seq(Frame)
    BY <1>12, <2>1, GotoType DEF TypeOK, InvokeCloseOutput
  <2>3. /\ state' \in States
        /\ timers' \in Nat /\ scheduled' \in BOOLEAN /\ (scheduled' => timers' > 0)
    BY <1>12, EnterType DEF TypeOK, InvokeCloseOutput, States
  <2> QED BY <1>12, <2>1, <2>2, <2>3 DEF TypeOK, InvokeCloseOutput
<1>13. CASE FailEncoded
  <2>1. <<Callout>> \in Seq(Frame) /\ <<>> \in Seq(Frame)
    BY FramesType
  <2>2. stack' \in Seq(Frame)
    BY <1>13, <2>1, GotoType DEF TypeOK, FailEncoded
  <2>3. promise' \in [Promises -> PromiseStatus]
    BY <1>13, CompleteType DEF TypeOK, FailEncoded, PromiseStatus
  <2> QED BY <1>13, <2>1, <2>2, <2>3 DEF TypeOK, FailEncoded
<1>14. CASE FailCloseOutput
  <2>1. <<Callout>> \in Seq(Frame) /\ <<>> \in Seq(Frame)
    BY FramesType
  <2>2. stack' \in Seq(Frame)
    BY <1>14, <2>1, GotoType DEF TypeOK, FailCloseOutput
  <2>3. promise' \in [Promises -> PromiseStatus]
    BY <1>14, CompleteType DEF TypeOK, FailCloseOutput, PromiseStatus
  <2> QED BY <1>14, <2>1, <2>2, <2>3 DEF TypeOK, FailCloseOutput
<1>15. CASE CloseAll
  <2>1. /\ Top \in Frame /\ Top.p \in SUBSET Promises /\ Top.n \in Nat
        /\ Top.e \in BOOLEAN
    BY <1>15, TopType DEF TypeOK, CloseAll
  <2>2. <<>> \in Seq(Frame) /\ <<Call("contextClose", Top.p)>> \in Seq(Frame)
        /\ <<Run("doShutdownStep")>> \in Seq(Frame)
    BY <2>1, CallType, RunType DEF Ops
  <2>3. stack' \in Seq(Frame)
    BY <1>15, <2>2, GotoType DEF TypeOK, CloseAll
  <2>4. /\ state' \in States
        /\ timers' \in Nat /\ scheduled' \in BOOLEAN /\ (scheduled' => timers' > 0)
    BY <1>15, EnterType DEF TypeOK, CloseAll, States
  <2>5. closePromise' \subseteq Promises
    BY <1>15, <2>1 DEF TypeOK, CloseAll
  <2> QED BY <1>15, <2>1, <2>2, <2>3, <2>4, <2>5 DEF TypeOK, CloseAll
<1>16. CASE CloseOutput
  <2>1. /\ Top \in Frame /\ Top.p \in SUBSET Promises /\ Top.n \in Nat
        /\ Top.e \in BOOLEAN
    BY <1>16, TopType DEF TypeOK, CloseOutput
  <2>2. /\ <<>> \in Seq(Frame) /\ <<Call("contextCloseOutput", Top.p)>> \in Seq(Frame)
        /\ <<Call("closeAll", Top.p)>> \in Seq(Frame)
        /\ <<Run("flush"), Run("doShutdownStep")>> \in Seq(Frame)
    BY <2>1, CallType, RunType DEF Ops
  <2>3. stack' \in Seq(Frame)
    BY <1>16, <2>2, GotoType DEF TypeOK, CloseOutput
  <2>4. /\ state' \in States
        /\ timers' \in Nat /\ scheduled' \in BOOLEAN /\ (scheduled' => timers' > 0)
    BY <1>16, EnterType DEF TypeOK, CloseOutput, States
  <2>5. closePromise' \subseteq Promises /\ closeOutputPromise' \subseteq Promises
    BY <1>16, <2>1 DEF TypeOK, CloseOutput
  <2>6. \/ UNCHANGED <<bufferedActions, marked>>
        \/ /\ marked' = Len(bufferedActions) + 1
           /\ bufferedActions' = Append(bufferedActions, CloseOutputAction)
    BY <1>16 DEF CloseOutput
  <2>7. bufferedActions' \in Seq(Action) /\ marked' \in 0..Len(bufferedActions')
    BY <2>6, AppendType DEF TypeOK
  <2> QED BY <1>16, <2>1, <2>2, <2>3, <2>4, <2>5, <2>6, <2>7 DEF TypeOK, CloseOutput
<1>17. CASE StopTLS
  <2>1. /\ Top \in Frame /\ Top.p \in SUBSET Promises /\ Top.n \in Nat
        /\ Top.e \in BOOLEAN
    BY <1>17, TopType DEF TypeOK, StopTLS
  <2>2. <<>> \in Seq(Frame) /\ <<Callout>> \in Seq(Frame)
        /\ <<Run("channelUnwrap")>> \in Seq(Frame) /\ <<Run("doShutdownStep")>> \in Seq(Frame)
    BY RunType, FramesType DEF Ops
  <2>3. stack' \in Seq(Frame)
    BY <1>17, <2>2, GotoType DEF TypeOK, StopTLS
  <2>4. /\ state' \in States
        /\ timers' \in Nat /\ scheduled' \in BOOLEAN /\ (scheduled' => timers' > 0)
    BY <1>17, EnterType DEF TypeOK, StopTLS, States
  <2>5. promise' \in [Promises -> PromiseStatus]
    BY <1>17, CompleteType DEF TypeOK, StopTLS, PromiseStatus
  <2>6. shutdownPromise' \subseteq Promises
    BY <1>17, <2>1 DEF TypeOK, StopTLS
  <2> QED BY <1>17, <2>1, <2>2, <2>3, <2>4, <2>5, <2>6 DEF TypeOK, StopTLS
<1>18. CASE DoShutdownStep
  <2>1. /\ <<>> \in Seq(Frame) /\ AfterIncomplete \in Seq(Frame)
        /\ <<Callout, Run("channelClose")>> \in Seq(Frame)
    BY RunType, FramesType DEF Ops
  <2>2. state \in {"outputClosed", "closing", "unwrapping"} =>
          /\ TargetComplete \in States
          /\ <<Run("writeDataToNetwork"), Callout, Run(ShutdownEnd)>> \in Seq(Frame)
    BY RunType, FramesType DEF Ops, TargetComplete, ShutdownEnd, States
  <2>3. stack' \in Seq(Frame)
    BY <1>18, <2>1, <2>2, GotoType, RestType DEF TypeOK, DoShutdownStep, Crash
  <2>4. /\ state' \in States
        /\ timers' \in Nat /\ scheduled' \in BOOLEAN /\ (scheduled' => timers' > 0)
    BY <1>18, <2>2, EnterType DEF TypeOK, DoShutdownStep
  <2>5. conn' \in Connection /\ fatal' \in Fatals
    BY <1>18, DoShutdownType DEF TypeOK, DoShutdownStep, Crash, Fatals
  <2> QED BY <1>18, <2>1, <2>2, <2>3, <2>4, <2>5 DEF TypeOK, DoShutdownStep
<1>19. CASE ShutdownIncomplete
  <2>1. <<Run("channelCloseOutput")>> \in Seq(Frame)
    BY RunType, FramesType DEF Ops
  <2>2. stack' \in Seq(Frame)
    BY <1>19, <2>1, GotoType DEF TypeOK, ShutdownIncomplete
  <2>3. /\ state' \in States
        /\ timers' \in Nat /\ scheduled' \in BOOLEAN /\ (scheduled' => timers' > 0)
    BY <1>19, EnterType DEF TypeOK, ShutdownIncomplete, States
  <2> QED BY <1>19, <2>1, <2>2, <2>3 DEF TypeOK, ShutdownIncomplete
<1>20. CASE DoHandshakeStep
  <2>1. /\ <<Run("handshakeIncomplete")>> \in Seq(Frame)
        /\ <<Callout, Run("handshakeIncomplete")>> \in Seq(Frame)
        /\ <<Callout, Run("channelClose")>> \in Seq(Frame)
        /\ <<Callout>> \in Seq(Frame) /\ CompleteHandshake \in Seq(Frame)
        /\ <<Run("writeDataToNetwork"), Callout, Run("channelClose")>> \in Seq(Frame)
    BY RunType, FramesType DEF Ops
  <2>2. stack' \in Seq(Frame)
    BY <1>20, <2>1, GotoType DEF TypeOK, DoHandshakeStep
  <2>3. /\ state' \in States
        /\ timers' \in Nat /\ scheduled' \in BOOLEAN /\ (scheduled' => timers' > 0)
    BY <1>20, EnterType, SMTT(30) DEF TypeOK, DoHandshakeStep, States
  <2>4. conn' \in Connection
    BY <1>20, DoHandshakeType DEF TypeOK, DoHandshakeStep
  <2>5. pendingAdditional' \in {pendingAdditional, pendingAdditional + 1}
        /\ completions' \in {completions, completions + 1}
    BY <1>20, Zenon DEF DoHandshakeStep
  <2> QED BY <1>20, <2>1, <2>2, <2>3, <2>4, <2>5 DEF TypeOK, DoHandshakeStep
<1>21. CASE HandshakeIncomplete
  <2>1. <<Run("writeDataToNetwork")>> \in Seq(Frame)
    BY RunType, FramesType DEF Ops
  <2>2. stack' \in Seq(Frame)
    BY <1>21, <2>1, GotoType DEF TypeOK, HandshakeIncomplete
  <2>3. /\ state' \in States
        /\ timers' \in Nat /\ scheduled' \in BOOLEAN /\ (scheduled' => timers' > 0)
    BY <1>21, EnterType DEF TypeOK, HandshakeIncomplete, States
  <2> QED BY <1>21, <2>1, <2>2, <2>3 DEF TypeOK, HandshakeIncomplete
<1>22. CASE DoDecodeData
  <2>1. /\ <<>> \in Seq(Frame) /\ <<Callout, Run("channelClose")>> \in Seq(Frame)
        /\ Run("doFlushReadData") \in Frame
    BY RunType, FramesType DEF Ops
  <2>2. AllowRemoteHalfClosure \in BOOLEAN
    BY HandlerAssumption DEF AllowRemoteHalfClosure
  <2>3. [Run("afterZeroReturn") EXCEPT !.e = AllowRemoteHalfClosure] \in Frame
    BY <2>2 DEF Run, Call, Frame, Ops
  <2>4. <<Run("doFlushReadData"),
          [Run("afterZeroReturn") EXCEPT !.e = AllowRemoteHalfClosure]>> \in Seq(Frame)
    BY <2>1, <2>3
  <2>5. stack' \in Seq(Frame)
    BY <1>22, <2>1, <2>4, GotoType, RestType DEF TypeOK, DoDecodeData, Crash
  <2>6. /\ state' \in States
        /\ timers' \in Nat /\ scheduled' \in BOOLEAN /\ (scheduled' => timers' > 0)
    BY <1>22, EnterType, SMTT(30) DEF TypeOK, DoDecodeData, States
  <2>7. /\ conn' \in Connection /\ plaintextReadBuffer' \in Seq(Record)
        /\ fatal' \in Fatals
    BY <1>22, ReadDataType, SMTT(30) DEF TypeOK, DoDecodeData, Crash, Fatals
  <2> QED BY <1>22, <2>1, <2>2, <2>3, <2>4, <2>5, <2>6, <2>7 DEF TypeOK, DoDecodeData
<1>23. CASE AfterZeroReturn
  <2>1. /\ AfterCloseNotify \in Seq(Frame) /\ <<Callout, Run("writeDataToNetwork")>> \in Seq(Frame)
        /\ <<Run("closeAll")>> \o <<Callout, Run("writeDataToNetwork")>> \in Seq(Frame)
    BY RunType, FramesType DEF Ops
  <2>2. stack' \in Seq(Frame)
    BY <1>23, <2>1, GotoType DEF TypeOK, AfterZeroReturn
  <2>3. /\ state' \in States
        /\ timers' \in Nat /\ scheduled' \in BOOLEAN /\ (scheduled' => timers' > 0)
    BY <1>23, EnterType DEF TypeOK, AfterZeroReturn, States
  <2> QED BY <1>23, <2>1, <2>2, <2>3 DEF TypeOK, AfterZeroReturn
<1>24. CASE DoFlushReadData
  <2>1. <<Callout>> \in Seq(Frame) /\ <<>> \in Seq(Frame)
    BY FramesType
  <2>2. stack' \in Seq(Frame)
    BY <1>24, <2>1, GotoType DEF TypeOK, DoFlushReadData
  <2>3. plaintextReadBuffer' \in Seq(Record) /\ delivered' \in Seq(Record)
    BY <1>24 DEF TypeOK, DoFlushReadData, OurNewBuffer
  <2> QED BY <1>24, <2>1, <2>2, <2>3 DEF TypeOK, DoFlushReadData
<1>25. CASE Return
  <2>1. stack' \in Seq(Frame)
    BY <1>25 DEF TypeOK, Return, InCallout, Rest
  <2> QED BY <1>25, <2>1 DEF TypeOK, Return
<1>26. CASE ChannelActive
  <2>1. stack' \in Seq(Frame)
    BY <1>26, RunType, FramesType DEF TypeOK, ChannelActive, Ops
  <2> QED BY <1>26, <2>1 DEF TypeOK, ChannelActive
<1>27. CASE ConnectFails
  <2>1. stack' \in Seq(Frame)
    BY <1>27, RunType, FramesType DEF TypeOK, ConnectFails, Ops
  <2>2. promise' \in [Promises -> PromiseStatus]
    BY <1>27, CompleteType DEF TypeOK, ConnectFails, PromiseStatus
  <2> QED BY <1>27, <2>1, <2>2 DEF TypeOK, ConnectFails
<1>28. CASE ChannelInactive
  <2>1. /\ <<Run("discard"), Callout>> \o stack \in Seq(Frame)
        /\ <<Callout, Run("discard"), Callout>> \o stack \in Seq(Frame)
    BY RunType, FramesType DEF Ops, TypeOK
  <2>2. stack' \in Seq(Frame)
    BY <1>28, <2>1 DEF TypeOK, ChannelInactive
  <2>3. promise' \in [Promises -> PromiseStatus]
    BY <1>28, CompleteType DEF TypeOK, ChannelInactive, PromiseStatus
  <2>4. /\ state' \in States
        /\ timers' \in Nat /\ scheduled' \in BOOLEAN /\ (scheduled' => timers' > 0)
    BY <1>28, EnterType DEF TypeOK, ChannelInactive, States
  <2>5. /\ closePromise' \subseteq Promises /\ shutdownPromise' \subseteq Promises
        /\ unclean' \in BOOLEAN
    BY <1>28 DEF TypeOK, ChannelInactive
  <2> QED BY <1>28, <2>1, <2>2, <2>3, <2>4, <2>5 DEF TypeOK, ChannelInactive
<1>29. CASE HandlerRemoved
  <2>1. conn' \in Connection
    BY <1>29 DEF TypeOK, HandlerRemoved, CloseConnection, Connection
  <2> QED BY <1>29, <2>1 DEF TypeOK, HandlerRemoved
<1>30. CASE ChannelRead
  <2>1. stack' \in Seq(Frame)
    BY <1>30, FramesType DEF TypeOK, ChannelRead
  <2>2. \A k \in (pos + 1)..Len(script) : SubSeq(script, pos + 1, k) \in Seq(Record)
    BY DEF TypeOK
  <2>3. PICK k \in (pos + 1)..Len(script) :
          pos' = k /\ conn' = ConsumeDataFromNetwork(conn, SubSeq(script, pos + 1, k))
    BY <1>30 DEF ChannelRead
  <2>4. conn' \in Connection
    BY <2>2, <2>3, ConnectionOpsType DEF TypeOK
  <2>5. pos' \in 0..Len(script)
    BY <2>3 DEF TypeOK
  <2> QED BY <1>30, <2>1, <2>2, <2>3, <2>4, <2>5 DEF TypeOK, ChannelRead
<1>31. CASE ChannelReadComplete
  <2>1. stack' \in Seq(Frame)
    BY <1>31, RunType DEF TypeOK, ChannelReadComplete, Ops
  <2> QED BY <1>31, <2>1 DEF TypeOK, ChannelReadComplete
<1>32. CASE InputClosedTriggered
  <2>1. stack' \in Seq(Frame)
    BY <1>32, FramesType DEF TypeOK, InputClosedTriggered
  <2>2. unclean' \in BOOLEAN /\ inputEnded' \in BOOLEAN
    BY <1>32 DEF TypeOK, InputClosedTriggered
  <2> QED BY <1>32, <2>1, <2>2 DEF TypeOK, InputClosedTriggered
<1>33. CASE ChannelFulfills
  <2>1. promise' \in [Promises -> PromiseStatus]
    BY <1>33 DEF TypeOK, ChannelFulfills, PromiseStatus
  <2> QED BY <1>33, <2>1 DEF TypeOK, ChannelFulfills
<1>34. CASE \E op \in {"write", "closeAll", "closeOutput", "stopTLS"} : UserCalls(op)
  <2>1. PICK op \in {"write", "closeAll", "closeOutput", "stopTLS"} : UserCalls(op)
    BY <1>34
  <2>2. PICK q \in Promises, n \in (IF op = "write" THEN WriteSizes ELSE {0}) :
          /\ promise' = [promise EXCEPT ![q] = "pending"]
          /\ asked' = [asked EXCEPT ![q] = op]
          /\ stack' = <<[Call(op, {q}) EXCEPT !.n = n]>> \o stack
    BY <2>1 DEF UserCalls
  <2>3. n \in Nat /\ op \in Ops
    BY HandlerAssumption DEF Ops
  <2>4. [Call(op, {q}) EXCEPT !.n = n] \in Frame
    BY <2>3, CallType, FrameExceptType
  <2>5. stack' \in Seq(Frame)
    BY <2>2, <2>4 DEF TypeOK
  <2>6. promise' \in [Promises -> PromiseStatus]
    BY <2>2 DEF TypeOK, PromiseStatus
  <2>7. asked' \in [Promises -> {"nothing", "write", "closeAll", "closeOutput", "stopTLS"}]
    BY <2>2 DEF TypeOK
  <2> QED BY <1>34, <2>1, <2>2, <2>3, <2>4, <2>5, <2>6, <2>7 DEF TypeOK, UserCalls
<1>35. CASE UserFlushes
  <2>1. stack' \in Seq(Frame)
    BY <1>35, RunType DEF TypeOK, UserFlushes, Ops
  <2>2. flushes' \in 0..MaxFlush
    BY <1>35, HandlerAssumption DEF TypeOK, UserFlushes
  <2> QED BY <1>35, <2>1, <2>2 DEF TypeOK, UserFlushes
<1>36. CASE CompletedAdditionalPeerCertificateVerification
  <2>1. /\ <<Callout, Run("channelClose")>> \o stack \in Seq(Frame)
        /\ CompleteHandshake \o stack \in Seq(Frame)
    BY RunType, FramesType DEF Ops, TypeOK
  <2>2. stack' \in Seq(Frame)
    BY <1>36, <2>1 DEF TypeOK, CompletedAdditionalPeerCertificateVerification
  <2>3. /\ state' \in States
        /\ timers' \in Nat /\ scheduled' \in BOOLEAN /\ (scheduled' => timers' > 0)
    BY <1>36, EnterType, SMTT(30) DEF TypeOK, CompletedAdditionalPeerCertificateVerification, States
  <2>4. pendingAdditional' \in Nat /\ completions' \in Nat /\ fatal' \in Fatals
    BY <1>36, SMTT(30) DEF TypeOK, CompletedAdditionalPeerCertificateVerification, Fatals
  <2> QED BY <1>36, <2>1, <2>2, <2>3, <2>4 DEF TypeOK,
             CompletedAdditionalPeerCertificateVerification
<1>37. CASE ResumeHandshake
  <2>1. stack' \in Seq(Frame)
    BY <1>37, RunType DEF TypeOK, ResumeHandshake, Ops
  <2>2. conn' \in Connection
    BY <1>37 DEF TypeOK, ResumeHandshake, SetVerification, Connection, Verify
  <2> QED BY <1>37, <2>1, <2>2 DEF TypeOK, ResumeHandshake
<1>38. CASE TimedOutShutdown
  <2>1. <<Run("channelClose")>> \in Seq(Frame) /\ <<TimedOutUnwrap>> \in Seq(Frame)
    BY RunType, FramesType DEF Ops
  <2>2. stack' \in Seq(Frame)
    BY <1>38, <2>1 DEF TypeOK, TimedOutShutdown
  <2>3. state' \in States
    BY <1>38 DEF TypeOK, TimedOutShutdown, States
  <2>4. timers > 0 /\ timers' = timers - 1 /\ scheduled' = FALSE
    BY <1>38, Zenon DEF TimedOutShutdown
  <2>5. timers \in Nat
    BY DEF TypeOK
  <2>6. timers' \in Nat
    BY <2>4, <2>5
  <2>7. scheduled' \in BOOLEAN /\ (scheduled' => timers' > 0)
    BY <2>4
  <2>8. fatal' \in Fatals
    BY <1>38 DEF TypeOK, TimedOutShutdown, Fatals
  <2> QED BY <1>38, <2>1, <2>2, <2>3, <2>4, <2>5, <2>6, <2>7, <2>8 DEF TypeOK, TimedOutShutdown
<1>39. CASE UNCHANGED vars
  BY <1>39 DEF TypeOK, vars
<1> QED BY <1>1, <1>2, <1>3, <1>4, <1>5, <1>6, <1>7, <1>8, <1>9, <1>10, <1>11, <1>12, <1>13,
           <1>14, <1>15, <1>16, <1>17, <1>18, <1>19, <1>20, <1>21, <1>22, <1>23, <1>24, <1>25,
           <1>26, <1>27, <1>28, <1>29, <1>30, <1>31, <1>32, <1>33, <1>34, <1>35, <1>36, <1>37,
           <1>38, <1>39
        DEF Next, Handler, Channel, User

\* The handler keeps its types in every behaviour: the mark stays within the
\* buffered actions, a scheduled task the state refers to has not run, and
\* every frame and promise is well formed, whatever is called from a call-out.
THEOREM TypeCorrect == Spec => []TypeOK
<1>1. Init => TypeOK
  <2> SUFFICES ASSUME Init PROVE TypeOK
    OBVIOUS
  <2>1. conn \in Connection
    BY DEF Init, NewConnection, Connection, Verify, Shutdown
  <2>2. stack \in Seq(Frame)
    <3>1. stack = <<>> \/ stack = <<Run("doHandshakeStep")>>
      BY Zenon DEF Init
    <3>2. Run("doHandshakeStep") \in Frame
      BY RunType DEF Ops
    <3>3. <<Run("doHandshakeStep")>> \in Seq(Frame) /\ <<>> \in Seq(Frame)
      <4> HIDE DEF Run, Frame
      <4> QED BY <3>2
    <3> QED BY <3>1, <3>3, Zenon
  <2>3. script \in Seq(Record) /\ pos = 0
    BY HandlerAssumption, Zenon DEF Init
  <2>4. pos \in 0..Len(script)
    BY <2>3
  <2>5. bufferedActions \in Seq(Action) /\ marked \in 0..Len(bufferedActions)
    BY DEF Init
  <2>6. flushes \in 0..MaxFlush
    BY HandlerAssumption DEF Init
  <2>7. /\ promise \in [Promises -> PromiseStatus]
        /\ asked \in [Promises -> {"nothing", "write", "closeAll", "closeOutput", "stopTLS"}]
    BY DEF Init, PromiseStatus
  <2>8. /\ state \in States /\ fatal \in Fatals
        /\ channel \in {"registered", "active", "closed"} /\ hostnameMatches \in BOOLEAN
    BY DEF Init, States, Fatals
  <2>9. /\ wire \in Seq(Record) /\ delivered \in Seq(Record) /\ evacuated \in Seq(Record)
        /\ writes \in Seq(Record) /\ plaintextReadBuffer \in Seq(Record)
    BY DEF Init
  <2>10. /\ closePromise \subseteq Promises /\ shutdownPromise \subseteq Promises
         /\ closeOutputPromise \subseteq Promises
         /\ timers \in Nat /\ scheduled = FALSE /\ removed = FALSE /\ pendingAdditional \in Nat
         /\ outputOpen = TRUE /\ inactiveDue = FALSE /\ readPending = FALSE
         /\ inputEnded = FALSE /\ unclean = FALSE /\ completions \in Nat
    BY DEF Init
  <2> QED BY <2>1, <2>2, <2>3, <2>4, <2>5, <2>6, <2>7, <2>8, <2>9, <2>10 DEF TypeOK
<1>2. TypeOK /\ [Next]_vars => TypeOK'
  BY TypeStep
<1> QED BY <1>1, <1>2, PTL DEF Spec

-----------------------------------------------------------------------------
(***************************************************************************)
(* What the steps of the handler do to its stack of calls.  The stack is what *)
(* makes proofs about the handler long: a call that was interrupted by a   *)
(* call-out goes on later, in a state it did not see.  The invariants of the *)
(* other modules speak of the calls that are pending and of the innermost one, *)
(* not of their order, so each action is described here once in these terms: *)
(* the call it pops, those that take its place (Goes, Drops), and those that *)
(* an event starts (Starts) or pushes on a stack that waits in a call-out  *)
(* (Pushes).                                                               *)
(***************************************************************************)

\* The calls that a stack still has to run, and the innermost of them.
Pending(s) == {s[i].op : i \in 1..Len(s)}
Frames(s) == {s[i] : i \in 1..Len(s)}
TopOp(s) == IF s = <<>> THEN "none" ELSE Head(s).op

\* Steps of the handshake.
HandshakeOps == {"doHandshakeStep", "handshakeIncomplete"}
\* A step of the handshake is the outermost call.
LastOnly(s) == \A i \in 1..Len(s) : s[i].op \in HandshakeOps => i = Len(s)

\* Calls that end in closing the channel or its output; each discarding of
\* actions that is pending waits for one of them.
SealOps == {"channelClose", "contextClose", "channelCloseOutput", "contextCloseOutput"}
Covered(s) == \A i \in 1..Len(s) :
                 s[i].op = "discard" => \E j \in 1..Len(s) : j < i /\ s[j].op \in SealOps

\* The innermost call is op, and what is below it; what a step replaced it by.
Pops(op) == /\ TopOp(stack) = op /\ Pending(stack) = {op} \cup Pending(Rest)
            /\ Rest \in Seq(Frame)
            /\ LastOnly(stack) => LastOnly(Rest)
            /\ LastOnly(stack) /\ op \in HandshakeOps => Rest = <<>>
            /\ Top \in Frames(stack) /\ Frames(Rest) \subseteq Frames(stack)
            /\ Covered(stack) => op # "discard" /\ (op \in SealOps \/ Covered(Rest))
Goes(ops, op) == /\ Pending(stack') = ops \cup Pending(Rest) /\ TopOp(stack') = op
                 /\ HandshakeOps \cap ops = {} => (LastOnly(Rest) => LastOnly(stack'))
                 /\ \A f \in Frames(stack') : f.op \in ops \/ f \in Frames(Rest)
                 /\ "discard" \notin ops =>
                      (Covered(Rest) \/ SealOps \cap ops # {} => Covered(stack'))
Drops == Goes({}, TopOp(Rest))
Pushes(ops, op) == /\ Pending(stack') = ops \cup Pending(stack) /\ TopOp(stack') = op
                   /\ HandshakeOps \cap ops = {} => (LastOnly(stack) => LastOnly(stack'))
                   /\ \A f \in Frames(stack') : f.op \in ops \/ f \in Frames(stack)
                   /\ "discard" \notin ops => (Covered(stack) => Covered(stack'))

\* The operation of a call.
LEMMA CallOps == /\ \A op, p : Call(op, p).op = op
                 /\ \A op : Run(op).op = op
                 /\ Callout.op = "callout" /\ Netout.op = "netout"
BY DEF Call, Run, Callout, Netout

\* Calls put on top of others.
LEMMA PendingConcat ==
    ASSUME NEW S, NEW s \in Seq(S), NEW t \in Seq(S)
    PROVE  /\ Pending(s \o t) = Pending(s) \cup Pending(t)
           /\ TopOp(s \o t) = IF s = <<>> THEN TopOp(t) ELSE TopOp(s)
           /\ HandshakeOps \cap Pending(s) = {} => (LastOnly(t) => LastOnly(s \o t))
           /\ \A f \in Frames(s \o t) : f.op \in Pending(s) \/ f \in Frames(t)
           /\ "discard" \notin Pending(s) =>
                (Covered(t) \/ SealOps \cap Pending(s) # {} => Covered(s \o t))
<1>1. Len(s \o t) = Len(s) + Len(t) /\ Len(s) \in Nat /\ Len(t) \in Nat
  OBVIOUS
<1>2. \A i \in 1..Len(s \o t) : (s \o t)[i] = IF i <= Len(s) THEN s[i] ELSE t[i - Len(s)]
  OBVIOUS
<1>3. ASSUME NEW o PROVE o \in Pending(s \o t) <=> o \in Pending(s) \/ o \in Pending(t)
  <2>1. ASSUME o \in Pending(s \o t) PROVE o \in Pending(s) \/ o \in Pending(t)
    <3>1. PICK i \in 1..Len(s \o t) : o = (s \o t)[i].op
      BY <2>1 DEF Pending
    <3>2. CASE i <= Len(s)
      BY <3>1, <3>2, <1>1, <1>2 DEF Pending
    <3>3. CASE ~(i <= Len(s))
      <4>1. i - Len(s) \in 1..Len(t) /\ o = t[i - Len(s)].op
        BY <3>1, <3>3, <1>1, <1>2
      <4> QED BY <4>1 DEF Pending
    <3> QED BY <3>2, <3>3
  <2>2. ASSUME o \in Pending(s) PROVE o \in Pending(s \o t)
    <3>1. PICK i \in 1..Len(s) : o = s[i].op
      BY <2>2 DEF Pending
    <3>2. i \in 1..Len(s \o t) /\ (s \o t)[i] = s[i]
      BY <1>1, <1>2
    <3> QED BY <3>1, <3>2 DEF Pending
  <2>3. ASSUME o \in Pending(t) PROVE o \in Pending(s \o t)
    <3>1. PICK i \in 1..Len(t) : o = t[i].op
      BY <2>3 DEF Pending
    <3>2. i + Len(s) \in 1..Len(s \o t) /\ (s \o t)[i + Len(s)] = t[i]
      BY <1>1, <1>2
    <3> QED BY <3>1, <3>2 DEF Pending
  <2> QED BY <2>1, <2>2, <2>3
<1>4. s = <<>> => s \o t = t
  OBVIOUS
<1>5. s # <<>> => s \o t # <<>> /\ Head(s \o t) = Head(s)
  OBVIOUS
<1>6. ASSUME HandshakeOps \cap Pending(s) = {}, LastOnly(t) PROVE LastOnly(s \o t)
  <2> SUFFICES ASSUME NEW i \in 1..Len(s \o t), (s \o t)[i].op \in HandshakeOps
               PROVE  i = Len(s \o t)
    BY DEF LastOnly
  <2>1. CASE i <= Len(s)
    <3>1. i \in 1..Len(s) /\ s[i].op \in HandshakeOps
      BY <2>1, <1>1, <1>2
    <3>2. s[i].op \in Pending(s)
      BY <3>1 DEF Pending
    <3> QED BY <1>6, <3>1, <3>2
  <2>2. CASE ~(i <= Len(s))
    <3>1. i - Len(s) \in 1..Len(t) /\ t[i - Len(s)].op \in HandshakeOps
      BY <2>2, <1>1, <1>2
    <3>2. i - Len(s) = Len(t)
      BY <1>6, <3>1 DEF LastOnly
    <3> QED BY <3>2, <1>1
  <2> QED BY <2>1, <2>2
<1>7. ASSUME NEW f \in Frames(s \o t) PROVE f.op \in Pending(s) \/ f \in Frames(t)
  <2>1. PICK i \in 1..Len(s \o t) : f = (s \o t)[i]
    BY DEF Frames
  <2>2. CASE i <= Len(s)
    <3>1. i \in 1..Len(s) /\ f = s[i]
      BY <2>1, <2>2, <1>1, <1>2
    <3> QED BY <3>1 DEF Pending
  <2>3. CASE ~(i <= Len(s))
    <3>1. i - Len(s) \in 1..Len(t) /\ f = t[i - Len(s)]
      BY <2>1, <2>3, <1>1, <1>2
    <3> QED BY <3>1 DEF Frames
  <2> QED BY <2>2, <2>3
<1>8. ASSUME "discard" \notin Pending(s), Covered(t) \/ SealOps \cap Pending(s) # {}
      PROVE  Covered(s \o t)
  <2> SUFFICES ASSUME NEW i \in 1..Len(s \o t), (s \o t)[i].op = "discard"
               PROVE  \E j \in 1..Len(s \o t) : j < i /\ (s \o t)[j].op \in SealOps
    BY DEF Covered
  <2>1. i > Len(s)
    <3> SUFFICES ASSUME i <= Len(s) PROVE FALSE
      BY <1>1
    <3>1. i \in 1..Len(s) /\ s[i].op = "discard"
      BY <1>1, <1>2
    <3> QED BY <1>8, <3>1 DEF Pending
  <2>2. CASE SealOps \cap Pending(s) # {}
    <3>1. PICK j \in 1..Len(s) : s[j].op \in SealOps
      BY <2>2 DEF Pending
    <3>2. j \in 1..Len(s \o t) /\ j < i /\ (s \o t)[j] = s[j]
      BY <1>1, <1>2, <2>1
    <3> QED BY <3>1, <3>2
  <2>3. CASE Covered(t)
    <3>1. i - Len(s) \in 1..Len(t) /\ t[i - Len(s)].op = "discard"
      BY <1>1, <1>2, <2>1
    <3>2. PICK j \in 1..Len(t) : j < i - Len(s) /\ t[j].op \in SealOps
      BY <2>3, <3>1 DEF Covered
    <3>3. Len(s) + j \in 1..Len(s \o t) /\ Len(s) + j < i /\ (s \o t)[Len(s) + j] = t[j]
      BY <1>1, <1>2, <3>2
    <3> QED BY <3>2, <3>3
  <2> QED BY <1>8, <2>2, <2>3
<1> QED BY <1>3, <1>4, <1>5, <1>6, <1>7, <1>8 DEF TopOp

\* The empty stack.
LEMMA PendingEmpty == Pending(<<>>) = {} /\ TopOp(<<>>) = "none" /\ LastOnly(<<>>)
BY DEF Pending, TopOp, LastOnly

\* A stack of one call.
LEMMA PendingOne ==
    ASSUME NEW a
    PROVE  Pending(<<a>>) = {a.op} /\ TopOp(<<a>>) = a.op /\ <<a>> # <<>>
BY DEF Pending, TopOp

\* A stack of two calls.
LEMMA PendingTwo ==
    ASSUME NEW a, NEW b
    PROVE  Pending(<<a, b>>) = {a.op, b.op} /\ TopOp(<<a, b>>) = a.op /\ <<a, b>> # <<>>
BY DEF Pending, TopOp

\* A stack of three calls.
LEMMA PendingThree ==
    ASSUME NEW a, NEW b, NEW c
    PROVE  /\ Pending(<<a, b, c>>) = {a.op, b.op, c.op}
           /\ TopOp(<<a, b, c>>) = a.op /\ <<a, b, c>> # <<>>
BY DEF Pending, TopOp

\* A stack of four calls.
LEMMA PendingFour ==
    ASSUME NEW a, NEW b, NEW c, NEW d
    PROVE  /\ Pending(<<a, b, c, d>>) = {a.op, b.op, c.op, d.op}
           /\ TopOp(<<a, b, c, d>>) = a.op /\ <<a, b, c, d>> # <<>>
BY DEF Pending, TopOp

\* A stack of five calls.
LEMMA PendingFive ==
    ASSUME NEW a, NEW b, NEW c, NEW d, NEW e
    PROVE  /\ Pending(<<a, b, c, d, e>>) = {a.op, b.op, c.op, d.op, e.op}
           /\ TopOp(<<a, b, c, d, e>>) = a.op /\ <<a, b, c, d, e>> # <<>>
BY DEF Pending, TopOp

\* The innermost call and the rest of the stack.
LEMMA PendingTop ==
    ASSUME stack \in Seq(Frame), stack # <<>>
    PROVE  Pops(Top.op)
<1>1. Top \in Frame /\ Rest \in Seq(Frame)
  BY DEF Top, Rest
<1>2. stack = <<Top>> \o Rest /\ <<Top>> \in Seq(Frame)
  BY <1>1 DEF Top, Rest
<1>3. Pending(<<Top>>) = {Top.op} /\ TopOp(stack) = Top.op
  BY PendingOne DEF TopOp, Top
<1>4. /\ Len(stack) = Len(Rest) + 1 /\ Len(Rest) \in Nat
      /\ \A i \in 1..Len(Rest) : Rest[i] = stack[i + 1]
      /\ stack[1] = Top
  BY DEF Rest, Top
<1>5. LastOnly(stack) => LastOnly(Rest)
  BY <1>4 DEF LastOnly
<1>6. LastOnly(stack) /\ Top.op \in HandshakeOps => Rest = <<>>
  <2> SUFFICES ASSUME LastOnly(stack), Top.op \in HandshakeOps PROVE Rest = <<>>
    OBVIOUS
  <2>1. 1 = Len(stack)
    BY <1>4 DEF LastOnly
  <2> QED BY <2>1, <1>4, <1>1
<1>7. Pending(stack) = {Top.op} \cup Pending(Rest)
  <2> DEFINE t == <<Top>>
  <2>1. t \in Seq(Frame) /\ stack = t \o Rest /\ Pending(t) = {Top.op}
    BY <1>2, <1>3
  <2> HIDE DEF t, Rest
  <2>2. Pending(t \o Rest) = Pending(t) \cup Pending(Rest)
    BY <2>1, <1>1, PendingConcat
  <2> QED BY <2>1, <2>2
<1>8. Top \in Frames(stack)
  BY <1>4 DEF Frames
<1>9. ASSUME NEW f \in Frames(Rest) PROVE f \in Frames(stack)
  <2>1. PICK i \in 1..Len(Rest) : f = Rest[i]
    BY DEF Frames
  <2>2. i + 1 \in 1..Len(stack) /\ f = stack[i + 1]
    BY <1>4, <2>1
  <2> QED BY <2>2 DEF Frames
<1>10. ASSUME Covered(stack) PROVE Top.op # "discard" /\ (Top.op \in SealOps \/ Covered(Rest))
  <2>1. Top.op # "discard"
    <3> SUFFICES ASSUME stack[1].op = "discard" PROVE FALSE
      BY <1>4
    <3>1. 1 \in 1..Len(stack)
      BY <1>4
    <3> QED BY <1>10, <3>1 DEF Covered
  <2>2. ASSUME Top.op \notin SealOps, NEW i \in 1..Len(Rest), Rest[i].op = "discard"
        PROVE  \E j \in 1..Len(Rest) : j < i /\ Rest[j].op \in SealOps
    <3>1. i + 1 \in 1..Len(stack) /\ stack[i + 1].op = "discard"
      BY <1>4, <2>2
    <3>2. PICK j \in 1..Len(stack) : j < i + 1 /\ stack[j].op \in SealOps
      BY <1>10, <3>1 DEF Covered
    <3>3. j # 1
      BY <1>4, <2>2, <3>2
    <3>4. j - 1 \in 1..Len(Rest) /\ j - 1 < i /\ Rest[j - 1] = stack[j]
      BY <1>4, <3>2, <3>3
    <3> QED BY <3>2, <3>4
  <2> QED BY <2>1, <2>2 DEF Covered
<1> QED BY <1>1, <1>3, <1>5, <1>6, <1>7, <1>8, <1>9, <1>10 DEF Pops

\* The call that runs is the innermost one.
LEMMA RunningPops ==
    ASSUME stack \in Seq(Frame), NEW op, Running(op)
    PROVE  Pops(op)
BY PendingTop DEF Running

\* A step that ends its call, and one that ends in a fatal error.
LEMMA GotoNothing ==
    ASSUME stack \in Seq(Frame), NEW op, Running(op)
    PROVE  (Goto(<<>>) => Drops) /\ (stack' = Rest => Drops) /\ \A why : Crash(why) => Drops
<1>1. Rest \in Seq(Frame)
  BY RestType
<1>2. <<>> \o Rest = Rest
  BY <1>1
<1>3. stack' = Rest => Drops
  BY DEF Drops, Goes
<1> QED BY <1>2, <1>3 DEF Goto, Crash

\* A step that puts calls in the place of its own.
LEMMA GotoFrames ==
    ASSUME stack \in Seq(Frame), NEW op, Running(op), NEW S, NEW frames \in Seq(S),
           frames # <<>>, Goto(frames)
    PROVE  Goes(Pending(frames), TopOp(frames))
<1>1. Rest \in Seq(Frame \cup S) /\ frames \in Seq(Frame \cup S)
  BY RestType
<1> HIDE DEF Rest
<1> QED BY <1>1, PendingConcat DEF Goto, Goes

\* A step that puts one call in the place of its own.
LEMMA GotoOne ==
    ASSUME stack \in Seq(Frame), NEW op, Running(op), NEW a,
           Goto(<<a>>)
    PROVE  Goes({a.op}, a.op)
<1>1. <<a>> \in Seq({a})
  OBVIOUS
<1>2. Pending(<<a>>) = {a.op} /\ TopOp(<<a>>) = a.op /\ <<a>> # <<>>
  BY PendingOne, Zenon
<1> DEFINE f == <<a>>
<1>3. f \in Seq({a}) /\ f # <<>> /\ Goto(f)
  BY <1>1, <1>2
<1> HIDE DEF f
<1>4. Goes(Pending(f), TopOp(f))
  BY <1>3, GotoFrames
<1> QED BY <1>2, <1>4, Zenon DEF f

\* A step that puts two calls in the place of its own.
LEMMA GotoTwo ==
    ASSUME stack \in Seq(Frame), NEW op, Running(op), NEW a, NEW b,
           Goto(<<a, b>>)
    PROVE  Goes({a.op, b.op}, a.op)
<1>1. <<a, b>> \in Seq({a, b})
  OBVIOUS
<1>2. Pending(<<a, b>>) = {a.op, b.op} /\ TopOp(<<a, b>>) = a.op /\ <<a, b>> # <<>>
  BY PendingTwo, Zenon
<1> DEFINE f == <<a, b>>
<1>3. f \in Seq({a, b}) /\ f # <<>> /\ Goto(f)
  BY <1>1, <1>2
<1> HIDE DEF f
<1>4. Goes(Pending(f), TopOp(f))
  BY <1>3, GotoFrames
<1> QED BY <1>2, <1>4, Zenon DEF f

\* A step that puts three calls in the place of its own.
LEMMA GotoThree ==
    ASSUME stack \in Seq(Frame), NEW op, Running(op), NEW a, NEW b, NEW c,
           Goto(<<a, b, c>>)
    PROVE  Goes({a.op, b.op, c.op}, a.op)
<1>1. <<a, b, c>> \in Seq({a, b, c})
  OBVIOUS
<1>2. /\ Pending(<<a, b, c>>) = {a.op, b.op, c.op}
      /\ TopOp(<<a, b, c>>) = a.op /\ <<a, b, c>> # <<>>
  BY PendingThree, Zenon
<1> DEFINE f == <<a, b, c>>
<1>3. f \in Seq({a, b, c}) /\ f # <<>> /\ Goto(f)
  BY <1>1, <1>2
<1> HIDE DEF f
<1>4. Goes(Pending(f), TopOp(f))
  BY <1>3, GotoFrames
<1> QED BY <1>2, <1>4, Zenon DEF f

\* A step that puts four calls in the place of its own.
LEMMA GotoFour ==
    ASSUME stack \in Seq(Frame), NEW op, Running(op), NEW a, NEW b, NEW c, NEW d,
           Goto(<<a, b, c, d>>)
    PROVE  Goes({a.op, b.op, c.op, d.op}, a.op)
<1>1. <<a, b, c, d>> \in Seq({a, b, c, d})
  OBVIOUS
<1>2. /\ Pending(<<a, b, c, d>>) = {a.op, b.op, c.op, d.op}
      /\ TopOp(<<a, b, c, d>>) = a.op /\ <<a, b, c, d>> # <<>>
  BY PendingFour, Zenon
<1> DEFINE f == <<a, b, c, d>>
<1>3. f \in Seq({a, b, c, d}) /\ f # <<>> /\ Goto(f)
  BY <1>1, <1>2
<1> HIDE DEF f
<1>4. Goes(Pending(f), TopOp(f))
  BY <1>3, GotoFrames
<1> QED BY <1>2, <1>4, Zenon DEF f

\* A step that puts five calls in the place of its own.
LEMMA GotoFive ==
    ASSUME stack \in Seq(Frame), NEW op, Running(op), NEW a, NEW b, NEW c, NEW d, NEW e,
           Goto(<<a, b, c, d, e>>)
    PROVE  Goes({a.op, b.op, c.op, d.op, e.op}, a.op)
<1>1. <<a, b, c, d, e>> \in Seq({a, b, c, d, e})
  OBVIOUS
<1>2. /\ Pending(<<a, b, c, d, e>>) = {a.op, b.op, c.op, d.op, e.op}
      /\ TopOp(<<a, b, c, d, e>>) = a.op /\ <<a, b, c, d, e>> # <<>>
  <2>1. Pending(<<a, b, c, d, e>>) = {a.op, b.op, c.op, d.op, e.op}
    BY PendingFive
  <2>2. TopOp(<<a, b, c, d, e>>) = a.op /\ <<a, b, c, d, e>> # <<>>
    BY DEF TopOp
  <2> QED BY <2>1, <2>2, Zenon
<1> DEFINE f == <<a, b, c, d, e>>
<1>3. f \in Seq({a, b, c, d, e}) /\ f # <<>> /\ Goto(f)
  BY <1>1, <1>2
<1> HIDE DEF f
<1>4. Goes(Pending(f), TopOp(f))
  BY <1>3, GotoFrames
<1> QED BY <1>2, <1>4, Zenon DEF f

\* A step that completes a promise, if there is one, before it goes on.
LEMMA GotoMaybe ==
    ASSUME stack \in Seq(Frame), NEW op, Running(op), NEW c \in BOOLEAN, NEW a, NEW b,
           Goto((IF c THEN <<>> ELSE <<a>>) \o <<b>>)
    PROVE  IF c THEN Goes({b.op}, b.op) ELSE Goes({a.op, b.op}, a.op)
<1>1. CASE c
  <2>1. <<>> \o <<b>> = <<b>>
    OBVIOUS
  <2> QED BY <1>1, <2>1, GotoOne
<1>2. CASE ~c
  <2> DEFINE s == <<a>>
             t == <<b>>
  <2>1. s \in Seq({a, b}) /\ t \in Seq({a, b}) /\ s # <<>>
    OBVIOUS
  <2>2. Pending(s) = {a.op} /\ TopOp(s) = a.op /\ Pending(t) = {b.op}
    BY PendingOne, Zenon
  <2>3. Goto(s \o t)
    BY <1>2
  <2> HIDE DEF s, t
  <2>4. s \o t \in Seq({a, b}) /\ s \o t # <<>>
    BY <2>1
  <2>5. Pending(s \o t) = Pending(s) \cup Pending(t) /\ TopOp(s \o t) = TopOp(s)
    BY <2>1, PendingConcat
  <2>6. Goes(Pending(s \o t), TopOp(s \o t))
    BY <2>3, <2>4, GotoFrames
  <2>7. Pending(s \o t) = {a.op, b.op}
    BY <2>2, <2>5
  <2>8. TopOp(s \o t) = a.op
    BY <2>2, <2>5
  <2>9. Goes({a.op, b.op}, a.op)
    BY <2>6, <2>7, <2>8
  <2> QED BY <1>2, <2>9
<1> QED BY <1>1, <1>2

\* An event or a call of the user that runs inside a call-out.
LEMMA PushFrames ==
    ASSUME stack \in Seq(Frame), NEW S, NEW frames \in Seq(S), frames # <<>>,
           stack' = frames \o stack
    PROVE  Pushes(Pending(frames), TopOp(frames))
<1>1. stack \in Seq(Frame \cup S) /\ frames \in Seq(Frame \cup S)
  OBVIOUS
<1> QED BY <1>1, PendingConcat DEF Pushes

\* The same for one call without a promise.
LEMMA RunsOne ==
    ASSUME stack \in Seq(Frame), NEW op, Running(op), NEW a,
           Goto(<<Run(a)>>)
    PROVE  Goes({a}, a)
<1>1. Goes({Run(a).op}, Run(a).op)
  BY GotoOne
<1>2. Run(a).op = a
  BY CallOps
<1> QED BY <1>1, <1>2

\* The same for two calls without a promise.
LEMMA RunsTwo ==
    ASSUME stack \in Seq(Frame), NEW op, Running(op), NEW a, NEW b,
           Goto(<<Run(a), Run(b)>>)
    PROVE  Goes({a, b}, a)
<1>1. Goes({Run(a).op, Run(b).op}, Run(a).op)
  BY GotoTwo
<1>2. Run(a).op = a /\ Run(b).op = b
  BY CallOps
<1> QED BY <1>1, <1>2

\* The same for three calls without a promise.
LEMMA RunsThree ==
    ASSUME stack \in Seq(Frame), NEW op, Running(op), NEW a, NEW b, NEW c,
           Goto(<<Run(a), Run(b), Run(c)>>)
    PROVE  Goes({a, b, c}, a)
<1>1. Goes({Run(a).op, Run(b).op, Run(c).op}, Run(a).op)
  BY GotoThree
<1>2. Run(a).op = a /\ Run(b).op = b /\ Run(c).op = c
  BY CallOps
<1> QED BY <1>1, <1>2

\* The same for four calls without a promise.
LEMMA RunsFour ==
    ASSUME stack \in Seq(Frame), NEW op, Running(op), NEW a, NEW b, NEW c, NEW d,
           Goto(<<Run(a), Run(b), Run(c), Run(d)>>)
    PROVE  Goes({a, b, c, d}, a)
<1>1. Goes({Run(a).op, Run(b).op, Run(c).op, Run(d).op}, Run(a).op)
  BY GotoFour
<1>2. Run(a).op = a /\ Run(b).op = b /\ Run(c).op = c /\ Run(d).op = d
  BY CallOps
<1> QED BY <1>1, <1>2

\* The same for five calls without a promise.
LEMMA RunsFive ==
    ASSUME stack \in Seq(Frame), NEW op, Running(op), NEW a, NEW b, NEW c, NEW d, NEW e,
           Goto(<<Run(a), Run(b), Run(c), Run(d), Run(e)>>)
    PROVE  Goes({a, b, c, d, e}, a)
<1>1. Goes({Run(a).op, Run(b).op, Run(c).op, Run(d).op, Run(e).op}, Run(a).op)
  BY GotoFive
<1>2. Run(a).op = a /\ Run(b).op = b /\ Run(c).op = c /\ Run(d).op = d /\ Run(e).op = e
  BY CallOps
<1> QED BY <1>1, <1>2

\* A stack whose innermost call seals the channel, or that is empty.
LEMMA CoveredTop ==
    ASSUME NEW s \in Seq(Frame)
    PROVE  /\ TopOp(s) \in SealOps => Covered(s)
           /\ "discard" \notin Pending(s) => Covered(s)
<1>1. ASSUME TopOp(s) \in SealOps PROVE Covered(s)
  <2>1. s # <<>> /\ s[1].op \in SealOps
    BY <1>1 DEF TopOp, SealOps
  <2>2. \A i \in 1..Len(s) : s[i].op = "discard" => 1 \in 1..Len(s) /\ 1 < i
    BY <2>1 DEF SealOps
  <2> QED BY <2>1, <2>2 DEF Covered
<1>2. ASSUME "discard" \notin Pending(s) PROVE Covered(s)
  BY <1>2 DEF Covered, Pending
<1> QED BY <1>1, <1>2

-----------------------------------------------------------------------------
\* Calls that touch the channel give way to what runs inside them.
LEMMA NetworkStack ==
    ASSUME TypeOK
    PROVE  /\ WriteDataToNetwork => /\ Pops("writeDataToNetwork")
                                    /\ Drops \/ Goes({"netout"}, "netout")
           /\ ContextClose => /\ Pops("contextClose")
                              /\ Goes({"callout"}, "callout") \/ Goes({"netout"}, "netout")
           /\ ContextCloseOutput => /\ Pops("contextCloseOutput")
                                    /\ Goes({"callout"}, "callout") \/ Goes({"netout"}, "netout")
           /\ Return => /\ Pops("callout") \/ Pops("netout")
                        /\ Drops
<1>1. stack \in Seq(Frame)
  BY DEF TypeOK
<1>2. WriteDataToNetwork => /\ Pops("writeDataToNetwork")
                            /\ Drops \/ Goes({"netout"}, "netout")
  BY <1>1, CallOps, RunningPops, GotoNothing, GotoOne DEF WriteDataToNetwork
<1>3. ContextClose => /\ Pops("contextClose")
                      /\ Goes({"callout"}, "callout") \/ Goes({"netout"}, "netout")
  BY <1>1, CallOps, RunningPops, GotoOne DEF ContextClose
<1>4. ContextCloseOutput => /\ Pops("contextCloseOutput")
                            /\ Goes({"callout"}, "callout") \/ Goes({"netout"}, "netout")
  BY <1>1, CallOps, RunningPops, GotoOne DEF ContextCloseOutput
<1>5. Return => (Pops("callout") \/ Pops("netout")) /\ Drops
  BY <1>1, PendingTop DEF Return, InCallout, Drops, Goes
<1> QED BY <1>2, <1>3, <1>4, <1>5

\* The ends of a connection.
LEMMA EndStack ==
    ASSUME TypeOK
    PROVE  /\ ChannelClose =>
                /\ Pops("channelClose")
                /\ \/ shutdownPromise = {} /\ Goes({"contextClose"}, "contextClose")
                   \/ shutdownPromise # {} /\ Goes({"callout", "contextClose"}, "callout")
           /\ ChannelCloseOutput =>
                Pops("channelCloseOutput") /\ Goes({"contextCloseOutput"}, "contextCloseOutput")
           /\ ChannelUnwrap =>
                /\ Pops("channelUnwrap")
                /\ \/ closePromise # {} /\ fatal' # "none" /\ Drops
                   \/ closePromise = {} /\ Goes({"discard", "removalFuture"}, "discard")
           /\ RemovalFuture => Pops("removalFuture") /\ Goes({"callout"}, "callout")
<1>1. stack \in Seq(Frame)
  BY DEF TypeOK
<1>2. ASSUME ChannelClose
      PROVE  /\ Pops("channelClose")
             /\ \/ shutdownPromise = {} /\ Goes({"contextClose"}, "contextClose")
                \/ shutdownPromise # {} /\ Goes({"callout", "contextClose"}, "callout")
  <2> DEFINE c == shutdownPromise = {}
             f == Call("contextClose", closePromise)
  <2>1. c \in BOOLEAN /\ f.op = "contextClose"
    BY CallOps
  <2>2. Running("channelClose") /\ Goto((IF c THEN <<>> ELSE <<Callout>>) \o <<f>>)
    BY <1>2 DEF ChannelClose
  <2> HIDE DEF c, f
  <2>3. IF c THEN Goes({f.op}, f.op) ELSE Goes({Callout.op, f.op}, Callout.op)
    BY <1>1, <2>1, <2>2, GotoMaybe
  <2> QED BY <1>1, <2>1, <2>2, <2>3, RunningPops, CallOps DEF c
<1>3. ASSUME ChannelCloseOutput
      PROVE  Pops("channelCloseOutput") /\ Goes({"contextCloseOutput"}, "contextCloseOutput")
  <2> DEFINE f == Call("contextCloseOutput", closeOutputPromise)
  <2>1. Running("channelCloseOutput") /\ Goto(<<f>>)
    BY <1>3 DEF ChannelCloseOutput
  <2>2. f.op = "contextCloseOutput"
    BY CallOps
  <2> HIDE DEF f
  <2>3. Goes({f.op}, f.op)
    BY <1>1, <2>1, GotoOne
  <2> QED BY <1>1, <2>1, <2>2, <2>3, RunningPops
<1>4. ASSUME ChannelUnwrap
      PROVE  /\ Pops("channelUnwrap")
             /\ \/ closePromise # {} /\ fatal' # "none" /\ Drops
                \/ closePromise = {} /\ Goes({"discard", "removalFuture"}, "discard")
  <2> DEFINE g == [Call("removalFuture", shutdownPromise) EXCEPT !.e = Top.e]
             f == Run("discard")
  <2>1. f.op = "discard" /\ g.op = "removalFuture"
    BY DEF Call, Run
  <2>2. Running("channelUnwrap")
    BY <1>4 DEF ChannelUnwrap
  <2>3. /\ closePromise # {} => Crash("unwrapAssert")
        /\ closePromise = {} => Goto(<<f, g>>)
    BY <1>4 DEF ChannelUnwrap
  <2> HIDE DEF f, g
  <2>4. Goto(<<f, g>>) => Goes({f.op, g.op}, f.op)
    BY <1>1, <2>2, GotoTwo
  <2>5. Crash("unwrapAssert") => fatal' # "none" /\ Drops
    BY <1>1, <2>2, GotoNothing DEF Crash
  <2> QED BY <1>1, <2>1, <2>2, <2>3, <2>4, <2>5, RunningPops
<1>5. ASSUME RemovalFuture PROVE Pops("removalFuture") /\ Goes({"callout"}, "callout")
  BY <1>1, <1>5, CallOps, RunningPops, GotoOne DEF RemovalFuture
<1> QED BY <1>2, <1>3, <1>4, <1>5

\* The buffered actions.
LEMMA BufferStack ==
    ASSUME TypeOK
    PROVE  /\ BufferWrite => /\ Pops("write")
                             /\ Drops \/ (state = "outputClosed" /\ Goes({"callout"}, "callout"))
           /\ Flush => /\ Pops("flush")
                       /\ \/ BuffersFlush /\ Drops
                          \/ ~BuffersFlush /\ Goes({"doUnbufferActions"}, "doUnbufferActions")
           /\ Discard => /\ Pops("discard")
                         /\ \/ bufferedActions = <<>> /\ Drops
                            \/ /\ bufferedActions # <<>>
                               /\ \/ Goes({"discard"}, "discard")
                                  \/ Goes({"callout", "discard"}, "callout")
           /\ InvokeCloseOutput => /\ Pops("invokeCloseOutput")
                                   /\ Goes({"doShutdownStep", "discard"}, "doShutdownStep")
           /\ FailEncoded => Pops("failEncoded") /\ (Drops \/ Goes({"callout"}, "callout"))
           /\ FailCloseOutput => Pops("failCloseOutput") /\ (Drops \/ Goes({"callout"}, "callout"))
<1>1. stack \in Seq(Frame)
  BY DEF TypeOK
<1>2. ASSUME BufferWrite
      PROVE  Pops("write") /\ (Drops \/ (state = "outputClosed" /\ Goes({"callout"}, "callout")))
  BY <1>1, <1>2, CallOps, RunningPops, GotoNothing, GotoOne DEF BufferWrite
<1>3. ASSUME Flush
      PROVE  /\ Pops("flush")
             /\ \/ BuffersFlush /\ Drops
                \/ ~BuffersFlush /\ Goes({"doUnbufferActions"}, "doUnbufferActions")
  BY <1>1, <1>3, CallOps, RunningPops, GotoNothing, GotoOne DEF Flush
<1>4. ASSUME Discard
      PROVE  /\ Pops("discard")
             /\ \/ bufferedActions = <<>> /\ Drops
                \/ /\ bufferedActions # <<>>
                   /\ Goes({"discard"}, "discard") \/ Goes({"callout", "discard"}, "callout")
  <2> DEFINE c == Head(bufferedActions).p = {}
  <2>1. c \in BOOLEAN
    OBVIOUS
  <2>2. Running("discard") /\ Top.op = "discard" /\ Callout.op = "callout"
    BY <1>4, CallOps DEF Discard, Running
  <2>3. CASE bufferedActions = <<>>
    BY <1>1, <1>4, <2>3, RunningPops, GotoNothing DEF Discard
  <2>4. CASE bufferedActions # <<>>
    <3>1. Goto((IF c THEN <<>> ELSE <<Callout>>) \o <<Top>>)
      BY <1>4, <2>4 DEF Discard
    <3> HIDE DEF c
    <3>2. IF c THEN Goes({Top.op}, Top.op) ELSE Goes({Callout.op, Top.op}, Callout.op)
      BY <1>1, <2>1, <2>2, <3>1, GotoMaybe
    <3> QED BY <1>1, <2>2, <2>4, <3>2, RunningPops
  <2> QED BY <2>3, <2>4
<1>5. ASSUME InvokeCloseOutput
      PROVE  Pops("invokeCloseOutput") /\ Goes({"doShutdownStep", "discard"}, "doShutdownStep")
  <2> DEFINE f == Run("doShutdownStep")
             g == Run("discard")
  <2>1. Running("invokeCloseOutput") /\ Goto(<<f, g>>)
    BY <1>5 DEF InvokeCloseOutput
  <2>2. f.op = "doShutdownStep" /\ g.op = "discard"
    BY CallOps
  <2> HIDE DEF f, g
  <2>3. Goes({f.op, g.op}, f.op)
    BY <1>1, <2>1, GotoTwo
  <2> QED BY <1>1, <2>1, <2>2, <2>3, RunningPops
<1>6. ASSUME FailEncoded
      PROVE  Pops("failEncoded") /\ (Drops \/ Goes({"callout"}, "callout"))
  BY <1>1, <1>6, CallOps, RunningPops, GotoNothing, GotoOne DEF FailEncoded
<1>7. ASSUME FailCloseOutput
      PROVE  Pops("failCloseOutput") /\ (Drops \/ Goes({"callout"}, "callout"))
  BY <1>1, <1>7, CallOps, RunningPops, GotoNothing, GotoOne DEF FailCloseOutput
<1> QED BY <1>2, <1>3, <1>4, <1>5, <1>6, <1>7
\* Closing, as the user asks for it.
LEMMA CloseStack ==
    ASSUME TypeOK
    PROVE  /\ CloseAll =>
                /\ Pops("closeAll")
                /\ \/ /\ state \in {"closing", "unwrapping"} /\ Enter("closing") /\ Drops
                      /\ closePromise' = closePromise \cup Top.p
                   \/ /\ state \in {"idle", "closed", "unwrapped"}
                      /\ Enter(IF state = "idle" THEN "closed" ELSE state)
                      /\ Goes({"contextClose"}, "contextClose") /\ UNCHANGED closePromise
                   \/ /\ state \in {"active", "inputClosed", "outputClosed", "handshaking",
                                    "additionalVerification"}
                      /\ EnterTimed("closing")
                      /\ Goes({"doShutdownStep"}, "doShutdownStep") /\ closePromise' = Top.p
           /\ CloseOutput =>
                /\ Pops("closeOutput")
                /\ \/ /\ Drops /\ UNCHANGED <<state, timerVars>>
                      /\ state \in {"closing", "handshaking", "additionalVerification"}
                   \/ /\ state \in {"idle", "outputClosed", "closed", "unwrapping", "unwrapped"}
                      /\ Goes({"contextCloseOutput"}, "contextCloseOutput")
                      /\ UNCHANGED <<state, timerVars>>
                   \/ /\ state = "inputClosed" /\ Goes({"closeAll"}, "closeAll")
                      /\ UNCHANGED <<state, timerVars>>
                   \/ /\ state = "active" /\ Enter("outputClosed")
                      /\ Goes({"flush", "doShutdownStep"}, "flush")
           /\ StopTLS =>
                /\ Pops("stopTLS")
                /\ \/ /\ state \in {"unwrapping", "closing"} /\ Drops
                      /\ shutdownPromise' = shutdownPromise \cup Top.p
                      /\ UNCHANGED <<state, timerVars>>
                   \/ /\ state = "idle" /\ ~removed /\ Enter("unwrapped")
                      /\ Goes({"channelUnwrap"}, "channelUnwrap") /\ shutdownPromise' = Top.p
                   \/ /\ state \in {"handshaking", "active", "inputClosed", "outputClosed",
                                    "additionalVerification"} /\ ~removed
                      /\ EnterTimed("unwrapping")
                      /\ Goes({"doShutdownStep"}, "doShutdownStep") /\ shutdownPromise' = Top.p
                   \/ /\ Goes({"callout"}, "callout")
                      /\ state \notin {"unwrapping", "closing"}
                      /\ UNCHANGED <<state, timerVars, shutdownPromise>>
<1>1. stack \in Seq(Frame)
  BY DEF TypeOK
<1> DEFINE f == Call("contextClose", Top.p)
           g == Call("contextCloseOutput", Top.p)
           h == Call("closeAll", Top.p)
<1>2. f.op = "contextClose" /\ g.op = "contextCloseOutput" /\ h.op = "closeAll"
  BY CallOps
<1> HIDE DEF f, g, h
<1>3. ASSUME NEW op, Running(op)
      PROVE  /\ Pops(op)
             /\ Goto(<<>>) => Drops
             /\ Goto(<<f>>) => Goes({"contextClose"}, "contextClose")
             /\ Goto(<<g>>) => Goes({"contextCloseOutput"}, "contextCloseOutput")
             /\ Goto(<<h>>) => Goes({"closeAll"}, "closeAll")
             /\ \A a : Goto(<<Run(a)>>) => Goes({a}, a)
             /\ \A a, b : Goto(<<Run(a), Run(b)>>) => Goes({a, b}, a)
  <2>1. Pops(op) /\ (Goto(<<>>) => Drops)
    BY <1>1, <1>3, RunningPops, GotoNothing
  <2>2. /\ Goto(<<f>>) => Goes({f.op}, f.op)
        /\ Goto(<<g>>) => Goes({g.op}, g.op)
        /\ Goto(<<h>>) => Goes({h.op}, h.op)
    BY <1>1, <1>3, GotoOne
  <2>3. \A a : Goto(<<Run(a)>>) => Goes({a}, a)
    BY <1>1, <1>3, RunsOne
  <2>4. \A a, b : Goto(<<Run(a), Run(b)>>) => Goes({a, b}, a)
    BY <1>1, <1>3, RunsTwo
  <2> QED BY <1>2, <2>1, <2>2, <2>3, <2>4
<1>4. CloseAll =>
        /\ Pops("closeAll")
        /\ \/ /\ state \in {"closing", "unwrapping"} /\ Enter("closing") /\ Drops
              /\ closePromise' = closePromise \cup Top.p
           \/ /\ state \in {"idle", "closed", "unwrapped"}
              /\ Enter(IF state = "idle" THEN "closed" ELSE state)
              /\ Goes({"contextClose"}, "contextClose") /\ UNCHANGED closePromise
           \/ /\ state \in {"active", "inputClosed", "outputClosed", "handshaking",
                            "additionalVerification"}
              /\ EnterTimed("closing")
              /\ Goes({"doShutdownStep"}, "doShutdownStep") /\ closePromise' = Top.p
  BY <1>3 DEF CloseAll, f
<1>5. CloseOutput =>
        /\ Pops("closeOutput")
        /\ \/ /\ Drops /\ UNCHANGED <<state, timerVars>>
              /\ state \in {"closing", "handshaking", "additionalVerification"}
           \/ /\ state \in {"idle", "outputClosed", "closed", "unwrapping", "unwrapped"}
              /\ Goes({"contextCloseOutput"}, "contextCloseOutput")
              /\ UNCHANGED <<state, timerVars>>
           \/ /\ state = "inputClosed" /\ Goes({"closeAll"}, "closeAll")
              /\ UNCHANGED <<state, timerVars>>
           \/ /\ state = "active" /\ Enter("outputClosed")
              /\ Goes({"flush", "doShutdownStep"}, "flush")
  BY <1>3 DEF CloseOutput, g, h
<1>6. StopTLS =>
        /\ Pops("stopTLS")
        /\ \/ /\ state \in {"unwrapping", "closing"} /\ Drops
              /\ shutdownPromise' = shutdownPromise \cup Top.p
              /\ UNCHANGED <<state, timerVars>>
           \/ /\ state = "idle" /\ ~removed /\ Enter("unwrapped")
              /\ Goes({"channelUnwrap"}, "channelUnwrap") /\ shutdownPromise' = Top.p
           \/ /\ state \in {"handshaking", "active", "inputClosed", "outputClosed",
                            "additionalVerification"} /\ ~removed
              /\ EnterTimed("unwrapping")
              /\ Goes({"doShutdownStep"}, "doShutdownStep") /\ shutdownPromise' = Top.p
           \/ /\ Goes({"callout"}, "callout")
              /\ state \notin {"unwrapping", "closing"}
              /\ UNCHANGED <<state, timerVars, shutdownPromise>>
  BY <1>3 DEF StopTLS, Callout
<1> QED BY <1>4, <1>5, <1>6

\* The loop over the marked actions.
LEMMA UnbufferStack ==
    ASSUME TypeOK, DoUnbufferActions
    PROVE  LET w == EncodeSingleWrite(conn, Head(bufferedActions)) IN
           /\ Pops("doUnbufferActions")
           /\ \/ /\ marked = 0 /\ UNCHANGED <<conn, bufVars, fatal>>
                 /\ Drops \/ Goes({"writeDataToNetwork"}, "writeDataToNetwork")
              \/ /\ marked > 0 /\ Head(bufferedActions).kind = "closeOutput"
                 /\ PopAction /\ UNCHANGED <<conn, fatal>>
                 /\ \/ Goes({"invokeCloseOutput"}, "invokeCloseOutput")
                    \/ Goes({"writeDataToNetwork", "invokeCloseOutput"}, "writeDataToNetwork")
              \/ /\ marked > 0 /\ Head(bufferedActions).kind = "write" /\ w.res = "complete"
                 /\ conn' = w.conn /\ PopAction /\ UNCHANGED fatal
                 /\ Goes({"doUnbufferActions"}, "doUnbufferActions")
              \/ /\ marked > 0 /\ Head(bufferedActions).kind = "write" /\ w.res = "incomplete"
                 /\ conn' = w.conn /\ fatal' = "loop" /\ UNCHANGED bufVars /\ Drops
              \/ /\ marked > 0 /\ Head(bufferedActions).kind = "write" /\ w.res = "failed"
                 /\ conn' = w.conn /\ UNCHANGED <<bufVars, fatal>>
                 /\ Goes({"channelClose", "failEncoded", "failCloseOutput", "discard"},
                         "channelClose")
<1> DEFINE a == Head(bufferedActions)
           w == EncodeSingleWrite(conn, a)
<1>1. stack \in Seq(Frame) /\ Running("doUnbufferActions")
  BY DEF TypeOK, DoUnbufferActions
<1>2. Pops("doUnbufferActions") /\ Top \in Frame /\ Top.op = "doUnbufferActions"
  BY <1>1, RunningPops, TopType DEF Running
<1>3. CASE marked = 0 /\ Goto(AfterLoop(FALSE)) /\ UNCHANGED <<conn, bufVars, fatal>>
  <2> DEFINE f == Call("writeDataToNetwork", Top.p)
  <2>1. f.op = "writeDataToNetwork"
    BY CallOps
  <2>2. AfterLoop(FALSE) \in {<<>>, <<f>>}
    BY DEF AfterLoop
  <2> HIDE DEF f
  <2>3. Goto(<<f>>) => Goes({f.op}, f.op)
    BY <1>1, GotoOne
  <2>4. Goto(<<>>) => Drops
    BY <1>1, GotoNothing
  <2> QED BY <1>2, <1>3, <2>1, <2>2, <2>3, <2>4
<1>4. CASE /\ marked > 0 /\ a.kind = "closeOutput" /\ PopAction /\ Goto(AfterLoop(TRUE))
           /\ UNCHANGED <<conn, fatal>>
  <2> DEFINE f == Call("writeDataToNetwork", Top.p)
             g == Run("invokeCloseOutput")
             c == ~Top.e
  <2>1. f.op = "writeDataToNetwork" /\ g.op = "invokeCloseOutput" /\ c \in BOOLEAN
    BY CallOps
  <2>2. AfterLoop(TRUE) = (IF c THEN <<>> ELSE <<f>>) \o <<g>>
    BY DEF AfterLoop
  <2> HIDE DEF f, g, c
  <2>3. IF c THEN Goes({g.op}, g.op) ELSE Goes({f.op, g.op}, f.op)
    BY <1>1, <1>4, <2>1, <2>2, GotoMaybe
  <2> QED BY <1>2, <1>4, <2>1, <2>3
<1>5. CASE /\ marked > 0 /\ a.kind = "write" /\ conn' = w.conn /\ w.res = "complete" /\ PopAction
           /\ Goto(<<[Top EXCEPT !.p = @ \cup a.p, !.e = TRUE]>>) /\ UNCHANGED fatal
  <2> DEFINE f == [Top EXCEPT !.p = @ \cup a.p, !.e = TRUE]
  <2>1. f.op = "doUnbufferActions" /\ Goto(<<f>>)
    BY <1>2, <1>5 DEF Frame
  <2> HIDE DEF f
  <2>2. Goes({f.op}, f.op)
    BY <1>1, <2>1, GotoOne
  <2> QED BY <1>2, <1>5, <2>1, <2>2
<1>6. CASE /\ marked > 0 /\ a.kind = "write" /\ conn' = w.conn /\ w.res = "incomplete"
           /\ Crash("loop") /\ UNCHANGED bufVars
  <2>1. Drops
    BY <1>1, <1>6, GotoNothing
  <2> QED BY <1>2, <1>6, <2>1 DEF Crash
<1>7. CASE /\ marked > 0 /\ a.kind = "write" /\ conn' = w.conn /\ w.res = "failed"
           /\ Goto(<<Run("channelClose"), Call("failEncoded", Top.p),
                     Run("failCloseOutput"), Run("discard")>>)
           /\ UNCHANGED <<bufVars, fatal>>
  <2> DEFINE f == Run("channelClose")
             g == Call("failEncoded", Top.p)
             h == Run("failCloseOutput")
             k == Run("discard")
  <2>1. /\ f.op = "channelClose"
        /\ g.op = "failEncoded"
        /\ h.op = "failCloseOutput"
        /\ k.op = "discard"
    BY CallOps
  <2>2. Goto(<<f, g, h, k>>)
    BY <1>7
  <2> HIDE DEF f, g, h, k
  <2>3. Goes({f.op, g.op, h.op, k.op}, f.op)
    BY <1>1, <2>2, GotoFour
  <2> QED BY <1>2, <1>7, <2>1, <2>3
<1> QED
  <2> HIDE DEF w
  <2>1. \/ marked = 0 /\ Goto(AfterLoop(FALSE)) /\ UNCHANGED <<conn, bufVars, fatal>>
        \/ /\ marked > 0 /\ a.kind = "closeOutput" /\ PopAction /\ Goto(AfterLoop(TRUE))
           /\ UNCHANGED <<conn, fatal>>
        \/ /\ marked > 0 /\ a.kind = "write" /\ conn' = w.conn /\ w.res = "complete" /\ PopAction
           /\ Goto(<<[Top EXCEPT !.p = @ \cup a.p, !.e = TRUE]>>) /\ UNCHANGED fatal
        \/ /\ marked > 0 /\ a.kind = "write" /\ conn' = w.conn /\ w.res = "incomplete"
           /\ Crash("loop") /\ UNCHANGED bufVars
        \/ /\ marked > 0 /\ a.kind = "write" /\ conn' = w.conn /\ w.res = "failed"
           /\ Goto(<<Run("channelClose"), Call("failEncoded", Top.p),
                     Run("failCloseOutput"), Run("discard")>>)
           /\ UNCHANGED <<bufVars, fatal>>
    BY Zenon DEF DoUnbufferActions, w
  <2> QED BY <1>3, <1>4, <1>5, <1>6, <1>7, <2>1 DEF w

\* A step of the shutdown.
LEMMA ShutdownStack ==
    ASSUME TypeOK, DoShutdownStep
    PROVE  LET r == DoShutdown(conn) IN
           /\ Pops("doShutdownStep")
           /\ \/ state = "closed" /\ Drops /\ UNCHANGED <<state, conn, timerVars, fatal>>
              \/ fatal' = "shutdownState"
              \/ /\ state \in {"outputClosed", "closing", "unwrapping"} /\ conn' = r.conn
                 /\ r.res = "incomplete" /\ UNCHANGED <<state, timerVars, fatal>>
                 /\ \/ /\ state # "outputClosed"
                       /\ Goes({"writeDataToNetwork"}, "writeDataToNetwork")
                    \/ /\ state = "outputClosed"
                       /\ Goes({"writeDataToNetwork", "shutdownIncomplete"}, "writeDataToNetwork")
              \/ /\ state \in {"outputClosed", "closing", "unwrapping"} /\ conn' = r.conn
                 /\ r.res = "complete" /\ CancelAndEnter(TargetComplete) /\ UNCHANGED fatal
                 /\ Goes({"writeDataToNetwork", "callout", ShutdownEnd}, "writeDataToNetwork")
              \/ /\ state \in {"outputClosed", "closing", "unwrapping"} /\ conn' = r.conn
                 /\ r.res = "failed" /\ CancelAndEnter(state) /\ UNCHANGED fatal
                 /\ Goes({"callout", "channelClose"}, "callout")
<1> DEFINE r == DoShutdown(conn)
<1>1. stack \in Seq(Frame) /\ Running("doShutdownStep")
  BY DEF TypeOK, DoShutdownStep
<1>2. Pops("doShutdownStep")
  BY <1>1, RunningPops
<1>3. CASE state = "closed" /\ Goto(<<>>) /\ UNCHANGED <<state, conn, timerVars, fatal>>
  BY <1>1, <1>2, <1>3, GotoNothing
<1>4. CASE Crash("shutdownState")
  BY <1>2, <1>4 DEF Crash
<1>5. CASE /\ state \in {"outputClosed", "closing", "unwrapping"} /\ conn' = r.conn
           /\ r.res = "incomplete" /\ UNCHANGED <<state, timerVars, fatal>>
           /\ Goto(AfterIncomplete)
  <2>1. CASE state # "outputClosed"
    <3>1. AfterIncomplete = <<Run("writeDataToNetwork")>>
      <4>1. <<Run("writeDataToNetwork")>> \o <<>> = <<Run("writeDataToNetwork")>>
        OBVIOUS
      <4> QED BY <2>1, <4>1 DEF AfterIncomplete
    <3>2. Goes({"writeDataToNetwork"}, "writeDataToNetwork")
      BY <1>1, <1>5, <3>1, RunsOne
    <3> QED BY <1>2, <1>5, <2>1, <3>2
  <2>2. CASE state = "outputClosed"
    <3> DEFINE f == Run("writeDataToNetwork")
               g == Run("shutdownIncomplete")
    <3>1. AfterIncomplete = (IF FALSE THEN <<>> ELSE <<f>>) \o <<g>>
      BY <2>2 DEF AfterIncomplete
    <3>2. f.op = "writeDataToNetwork" /\ g.op = "shutdownIncomplete"
      BY CallOps
    <3> HIDE DEF f, g
    <3>3. Goes({f.op, g.op}, f.op)
      BY <1>1, <1>5, <3>1, GotoMaybe
    <3> QED BY <1>2, <1>5, <2>2, <3>2, <3>3
  <2> QED BY <2>1, <2>2
<1>6. CASE /\ state \in {"outputClosed", "closing", "unwrapping"} /\ conn' = r.conn
           /\ r.res = "complete" /\ CancelAndEnter(TargetComplete) /\ UNCHANGED fatal
           /\ Goto(<<Run("writeDataToNetwork"), Callout, Run(ShutdownEnd)>>)
  <2>1. Goes({"writeDataToNetwork", "callout", ShutdownEnd}, "writeDataToNetwork")
    <3>1. Goto(<<Run("writeDataToNetwork"), Run("callout"), Run(ShutdownEnd)>>)
      BY <1>6 DEF Callout
    <3> QED BY <1>1, <3>1, RunsThree
  <2> HIDE DEF r
  <2> QED BY <1>2, <1>6, <2>1 DEF r
<1>7. CASE /\ state \in {"outputClosed", "closing", "unwrapping"} /\ conn' = r.conn
           /\ r.res = "failed" /\ CancelAndEnter(state) /\ UNCHANGED fatal
           /\ Goto(<<Callout, Run("channelClose")>>)
  <2>1. Goes({"callout", "channelClose"}, "callout")
    <3>1. Goto(<<Run("callout"), Run("channelClose")>>)
      BY <1>7 DEF Callout
    <3> QED BY <1>1, <3>1, RunsTwo
  <2> QED BY <1>2, <1>7, <2>1
<1> QED BY <1>3, <1>4, <1>5, <1>6, <1>7 DEF DoShutdownStep

\* Steps of the handshake.
LEMMA HandshakeStack ==
    ASSUME TypeOK, DoHandshakeStep
    PROVE  LET r == DoHandshake(conn) IN
           /\ Pops("doHandshakeStep") /\ conn' = r.conn
           /\ \/ /\ r.res = "incomplete" /\ Goes({"handshakeIncomplete"}, "handshakeIncomplete")
                 /\ UNCHANGED <<state, timerVars, pendingAdditional, completions>>
              \/ /\ r.res = "startsCallback" /\ Goes({"callout", "handshakeIncomplete"}, "callout")
                 /\ UNCHANGED <<state, timerVars, pendingAdditional, completions>>
              \/ /\ r.res = "complete" /\ Goes({"callout", "channelClose"}, "callout")
                 /\ UNCHANGED <<state, timerVars, pendingAdditional, completions>>
              \/ /\ r.res = "complete" /\ Goes({"callout"}, "callout")
                 /\ Enter("additionalVerification") /\ pendingAdditional' = pendingAdditional + 1
                 /\ UNCHANGED completions
              \/ /\ r.res = "complete" /\ Enter("active") /\ completions' = completions + 1
                 /\ Goes({"writeDataToNetwork", "callout", "doDecodeData", "doFlushReadData",
                          "doUnbufferActions"}, "writeDataToNetwork")
                 /\ UNCHANGED pendingAdditional
              \/ /\ r.res = "failed"
                 /\ Goes({"writeDataToNetwork", "callout", "channelClose"}, "writeDataToNetwork")
                 /\ UNCHANGED <<state, timerVars, pendingAdditional, completions>>
<1> DEFINE r == DoHandshake(conn)
<1>1. stack \in Seq(Frame) /\ Running("doHandshakeStep")
  BY DEF TypeOK, DoHandshakeStep
<1>2. Pops("doHandshakeStep")
  BY <1>1, RunningPops
<1>3. /\ \A a : Goto(<<Run(a)>>) => Goes({a}, a)
      /\ \A a, b : Goto(<<Run(a), Run(b)>>) => Goes({a, b}, a)
      /\ \A a, b, c : Goto(<<Run(a), Run(b), Run(c)>>) => Goes({a, b, c}, a)
  BY <1>1, RunsOne, RunsTwo, RunsThree
<1>4. Goto(CompleteHandshake) =>
        Goes({"writeDataToNetwork", "callout", "doDecodeData", "doFlushReadData",
              "doUnbufferActions"}, "writeDataToNetwork")
  BY <1>1, RunsFive DEF CompleteHandshake, Callout
<1> HIDE DEF r
<1> QED BY <1>2, <1>3, <1>4 DEF DoHandshakeStep, Callout, r

\* The states from which reading and its end go on.
LEMMA ReadStack ==
    ASSUME TypeOK
    PROVE  /\ DoDecodeData =>
                LET r == ReadData(conn) IN
                /\ Pops("doDecodeData") /\ conn' = r.conn
                /\ \/ r.res = "incomplete" /\ Drops /\ UNCHANGED <<state, timerVars, fatal>>
                   \/ fatal' = "zeroReturnState"
                   \/ /\ r.res = "zeroReturn" /\ state \in {"closed", "unwrapped"} /\ Drops
                      /\ UNCHANGED <<state, timerVars, fatal>>
                   \/ /\ r.res = "zeroReturn" /\ state \in {"active", "outputClosed"}
                      /\ IF AllowRemoteHalfClosure THEN UNCHANGED <<state, timerVars>>
                         ELSE EnterTimed("closing")
                      /\ Goes({"doFlushReadData", "afterZeroReturn"}, "doFlushReadData")
                      /\ UNCHANGED fatal
                   \/ /\ r.res = "zeroReturn"
                      /\ state \in {"unwrapping", "closing", "inputClosed"}
                      /\ Goes({"doFlushReadData", "afterZeroReturn"}, "doFlushReadData")
                      /\ UNCHANGED <<state, timerVars, fatal>>
                   \/ /\ r.res = "failed" /\ Enter("closed") /\ UNCHANGED fatal
                      /\ Goes({"callout", "channelClose"}, "callout")
           /\ AfterZeroReturn =>
                /\ Pops("afterZeroReturn")
                /\ \/ /\ Goes({"doShutdownStep", "writeDataToNetwork"}, "doShutdownStep")
                      /\ UNCHANGED <<state, timerVars>>
                   \/ /\ state \in {"active", "unwrapping"} /\ Enter("inputClosed")
                      /\ Goes({"callout", "writeDataToNetwork"}, "callout")
                   \/ /\ state = "outputClosed" /\ UNCHANGED <<state, timerVars>>
                      /\ Goes({"closeAll", "callout", "writeDataToNetwork"}, "closeAll")
                   \/ /\ state \notin {"active", "unwrapping", "outputClosed"}
                      /\ Goes({"callout", "writeDataToNetwork"}, "callout")
                      /\ UNCHANGED <<state, timerVars>>
           /\ DoFlushReadData =>
                Pops("doFlushReadData") /\ (Drops \/ Goes({"callout"}, "callout"))
           /\ HandshakeIncomplete =>
                /\ Pops("handshakeIncomplete") /\ Enter("handshaking")
                /\ Goes({"writeDataToNetwork"}, "writeDataToNetwork")
           /\ ShutdownIncomplete =>
                /\ Pops("shutdownIncomplete") /\ Enter("outputClosed")
                /\ Goes({"channelCloseOutput"}, "channelCloseOutput")
<1>1. stack \in Seq(Frame)
  BY DEF TypeOK
<1> DEFINE f == Run("doFlushReadData")
           g == [Run("afterZeroReturn") EXCEPT !.e = AllowRemoteHalfClosure]
<1>2. f.op = "doFlushReadData" /\ g.op = "afterZeroReturn"
  BY DEF Run, Call
<1> HIDE DEF f, g
<1>3. ASSUME NEW op, Running(op)
      PROVE  /\ Pops(op)
             /\ Goto(<<>>) => Drops
             /\ \A a : Goto(<<Run(a)>>) => Goes({a}, a)
             /\ \A a, b : Goto(<<Run(a), Run(b)>>) => Goes({a, b}, a)
  <2>1. Pops(op) /\ (Goto(<<>>) => Drops)
    BY <1>1, <1>3, RunningPops, GotoNothing
  <2>2. \A a : Goto(<<Run(a)>>) => Goes({a}, a)
    BY <1>1, <1>3, RunsOne
  <2>3. \A a, b : Goto(<<Run(a), Run(b)>>) => Goes({a, b}, a)
    BY <1>1, <1>3, RunsTwo
  <2> QED BY <2>1, <2>2, <2>3
<1>4. ASSUME DoDecodeData
      PROVE  LET r == ReadData(conn) IN
             /\ Pops("doDecodeData") /\ conn' = r.conn
             /\ \/ r.res = "incomplete" /\ Drops /\ UNCHANGED <<state, timerVars, fatal>>
                \/ fatal' = "zeroReturnState"
                \/ /\ r.res = "zeroReturn" /\ state \in {"closed", "unwrapped"} /\ Drops
                   /\ UNCHANGED <<state, timerVars, fatal>>
                \/ /\ r.res = "zeroReturn" /\ state \in {"active", "outputClosed"}
                   /\ IF AllowRemoteHalfClosure THEN UNCHANGED <<state, timerVars>>
                      ELSE EnterTimed("closing")
                   /\ Goes({"doFlushReadData", "afterZeroReturn"}, "doFlushReadData")
                   /\ UNCHANGED fatal
                \/ /\ r.res = "zeroReturn"
                   /\ state \in {"unwrapping", "closing", "inputClosed"}
                   /\ Goes({"doFlushReadData", "afterZeroReturn"}, "doFlushReadData")
                   /\ UNCHANGED <<state, timerVars, fatal>>
                \/ /\ r.res = "failed" /\ Enter("closed") /\ UNCHANGED fatal
                   /\ Goes({"callout", "channelClose"}, "callout")
  <2>1. Running("doDecodeData")
    BY <1>4 DEF DoDecodeData
  <2>2. Goto(<<f, g>>) => Goes({f.op, g.op}, f.op)
    BY <1>1, <2>1, GotoTwo
  <2>3. Goto(<<f, g>>) => Goes({"doFlushReadData", "afterZeroReturn"}, "doFlushReadData")
    BY <1>2, <2>2
  <2>4. Pops("doDecodeData") /\ (Goto(<<>>) => Drops)
    BY <1>3, <2>1
  <2>5. Goto(<<Callout, Run("channelClose")>>) => Goes({"callout", "channelClose"}, "callout")
    BY <1>3, <2>1 DEF Callout
  <2>6. Crash("zeroReturnState") => fatal' = "zeroReturnState"
    BY DEF Crash
  <2> DEFINE r == ReadData(conn)
  <2>7. /\ conn' = r.conn
        /\ \/ r.res = "incomplete" /\ Goto(<<>>) /\ UNCHANGED <<state, timerVars, fatal>>
           \/ Crash("zeroReturnState")
           \/ /\ r.res = "zeroReturn" /\ state \in {"closed", "unwrapped"} /\ Goto(<<>>)
              /\ UNCHANGED <<state, timerVars, fatal>>
           \/ /\ r.res = "zeroReturn" /\ state \in {"active", "outputClosed"}
              /\ IF AllowRemoteHalfClosure THEN UNCHANGED <<state, timerVars>>
                 ELSE EnterTimed("closing")
              /\ Goto(<<f, g>>) /\ UNCHANGED fatal
           \/ /\ r.res = "zeroReturn" /\ state \in {"unwrapping", "closing", "inputClosed"}
              /\ Goto(<<f, g>>) /\ UNCHANGED <<state, timerVars, fatal>>
           \/ /\ r.res = "failed" /\ Enter("closed") /\ UNCHANGED fatal
              /\ Goto(<<Callout, Run("channelClose")>>)
    BY <1>4 DEF DoDecodeData, f, g
  <2> HIDE DEF r
  <2>8. /\ Pops("doDecodeData") /\ conn' = r.conn
        /\ \/ r.res = "incomplete" /\ Drops /\ UNCHANGED <<state, timerVars, fatal>>
           \/ fatal' = "zeroReturnState"
           \/ /\ r.res = "zeroReturn" /\ state \in {"closed", "unwrapped"} /\ Drops
              /\ UNCHANGED <<state, timerVars, fatal>>
           \/ /\ r.res = "zeroReturn" /\ state \in {"active", "outputClosed"}
              /\ IF AllowRemoteHalfClosure THEN UNCHANGED <<state, timerVars>>
                 ELSE EnterTimed("closing")
              /\ Goes({"doFlushReadData", "afterZeroReturn"}, "doFlushReadData")
              /\ UNCHANGED fatal
           \/ /\ r.res = "zeroReturn" /\ state \in {"unwrapping", "closing", "inputClosed"}
              /\ Goes({"doFlushReadData", "afterZeroReturn"}, "doFlushReadData")
              /\ UNCHANGED <<state, timerVars, fatal>>
           \/ /\ r.res = "failed" /\ Enter("closed") /\ UNCHANGED fatal
              /\ Goes({"callout", "channelClose"}, "callout")
    BY <2>3, <2>4, <2>5, <2>6, <2>7
  <2> QED BY <2>8 DEF r
<1>5. ASSUME AfterZeroReturn
      PROVE  /\ Pops("afterZeroReturn")
             /\ \/ /\ Goes({"doShutdownStep", "writeDataToNetwork"}, "doShutdownStep")
                   /\ UNCHANGED <<state, timerVars>>
                \/ /\ state \in {"active", "unwrapping"} /\ Enter("inputClosed")
                   /\ Goes({"callout", "writeDataToNetwork"}, "callout")
                \/ /\ state = "outputClosed" /\ UNCHANGED <<state, timerVars>>
                   /\ Goes({"closeAll", "callout", "writeDataToNetwork"}, "closeAll")
                \/ /\ state \notin {"active", "unwrapping", "outputClosed"}
                   /\ Goes({"callout", "writeDataToNetwork"}, "callout")
                   /\ UNCHANGED <<state, timerVars>>
  <2>1. Running("afterZeroReturn")
    BY <1>5 DEF AfterZeroReturn
  <2> DEFINE s == <<Run("closeAll")>>
             t == <<Callout, Run("writeDataToNetwork")>>
  <2>2. Goto(s \o t) => Goes({"closeAll", "callout", "writeDataToNetwork"}, "closeAll")
    <3>1. s \in Seq(Frame) /\ t \in Seq(Frame) /\ s # <<>>
      BY FramesType, RunType DEF Ops
    <3>2. /\ Pending(s) = {"closeAll"} /\ TopOp(s) = "closeAll"
          /\ Pending(t) = {"callout", "writeDataToNetwork"}
      <4>1. Pending(s) = {Run("closeAll").op} /\ TopOp(s) = Run("closeAll").op
        BY PendingOne, Zenon
      <4>2. Pending(t) = {Callout.op, Run("writeDataToNetwork").op}
        BY PendingTwo, Zenon
      <4> QED BY <4>1, <4>2, CallOps
    <3> HIDE DEF s, t
    <3>3. s \o t \in Seq(Frame) /\ s \o t # <<>>
      BY <3>1
    <3>4. Pending(s \o t) = Pending(s) \cup Pending(t) /\ TopOp(s \o t) = TopOp(s)
      BY <3>1, PendingConcat
    <3>5. Goto(s \o t) => Goes(Pending(s \o t), TopOp(s \o t))
      BY <1>1, <2>1, <3>3, GotoFrames
    <3>6. Pending(s \o t) = {"closeAll", "callout", "writeDataToNetwork"}
      BY <3>2, <3>4
    <3> QED BY <3>2, <3>4, <3>5, <3>6
  <2>3. Goto(t) => Goes({"callout", "writeDataToNetwork"}, "callout")
    BY <1>3, <2>1 DEF Callout
  <2>4. Goto(AfterCloseNotify) => Goes({"doShutdownStep", "writeDataToNetwork"}, "doShutdownStep")
    BY <1>3, <2>1 DEF AfterCloseNotify
  <2>5. Pops("afterZeroReturn")
    BY <1>3, <2>1
  <2>6. \/ Goto(AfterCloseNotify) /\ UNCHANGED <<state, timerVars>>
        \/ state \in {"active", "unwrapping"} /\ Enter("inputClosed") /\ Goto(t)
        \/ state = "outputClosed" /\ UNCHANGED <<state, timerVars>> /\ Goto(s \o t)
        \/ /\ state \notin {"active", "unwrapping", "outputClosed"} /\ Goto(t)
           /\ UNCHANGED <<state, timerVars>>
    BY <1>5 DEF AfterZeroReturn
  <2> HIDE DEF s, t
  <2> QED BY <2>2, <2>3, <2>4, <2>5, <2>6
<1>6. ASSUME DoFlushReadData
      PROVE  Pops("doFlushReadData") /\ (Drops \/ Goes({"callout"}, "callout"))
  BY <1>3, <1>6 DEF DoFlushReadData, Callout
<1>7. ASSUME HandshakeIncomplete
      PROVE  /\ Pops("handshakeIncomplete") /\ Enter("handshaking")
             /\ Goes({"writeDataToNetwork"}, "writeDataToNetwork")
  BY <1>3, <1>7 DEF HandshakeIncomplete
<1>8. ASSUME ShutdownIncomplete
      PROVE  /\ Pops("shutdownIncomplete") /\ Enter("outputClosed")
             /\ Goes({"channelCloseOutput"}, "channelCloseOutput")
  BY <1>3, <1>8 DEF ShutdownIncomplete
<1> QED BY <1>4, <1>5, <1>6, <1>7, <1>8

\* An event of the channel, of the user or of the event loop finds the stack
\* empty, or pushes upon a call-out.
Starts(ops, op) == /\ Pending(stack) = {} /\ TopOp(stack) = "none"
                   /\ Pending(stack') = ops /\ TopOp(stack') = op /\ LastOnly(stack')
CallsOut == TopOp(stack) \in {"none", "callout", "netout"}

\* An event of an idle handler.
LEMMA IdleStarts ==
    ASSUME Idle
    PROVE  /\ \A a : stack' = <<Run(a)>> => Starts({a}, a)
           /\ \A a, b : stack' = <<Run(a), Run(b)>> /\ a \notin HandshakeOps => Starts({a, b}, a)
           /\ stack' = <<>> => Starts({}, "none")
<1>1. Pending(stack) = {} /\ TopOp(stack) = "none"
  BY PendingEmpty DEF Idle
<1>2. ASSUME NEW a, stack' = <<Run(a)>> PROVE Starts({a}, a)
  <2>1. Pending(stack') = {Run(a).op} /\ TopOp(stack') = Run(a).op
    BY <1>2, PendingOne, Zenon
  <2>2. LastOnly(stack')
    BY <1>2 DEF LastOnly
  <2> QED BY <1>1, <2>1, <2>2, CallOps DEF Starts
<1>3. ASSUME NEW a, NEW b, stack' = <<Run(a), Run(b)>>, a \notin HandshakeOps
      PROVE  Starts({a, b}, a)
  <2>1. Pending(stack') = {Run(a).op, Run(b).op} /\ TopOp(stack') = Run(a).op
    BY <1>3, PendingTwo, Zenon
  <2>2. LastOnly(stack')
    <3>1. Len(stack') = 2 /\ stack'[1] = Run(a)
      BY <1>3
    <3>2. stack'[1].op \notin HandshakeOps
      BY <1>3, <3>1, CallOps
    <3> QED BY <3>1, <3>2 DEF LastOnly
  <2> QED BY <1>1, <2>1, <2>2, CallOps DEF Starts
<1>4. stack' = <<>> => Starts({}, "none")
  BY <1>1, PendingEmpty DEF Starts
<1> QED BY <1>2, <1>3, <1>4

\* A call of the user inside a call-out.
LEMMA PushRuns ==
    ASSUME stack \in Seq(Frame)
    PROVE  /\ \A f : stack' = <<f>> \o stack => Pushes({f.op}, f.op)
           /\ \A a, b : stack' = <<Run(a), Run(b)>> \o stack => Pushes({a, b}, a)
           /\ \A a, b, c : stack' = <<Run(a), Run(b), Run(c)>> \o stack => Pushes({a, b, c}, a)
           /\ \A a, b, c, d, e : stack' = <<Run(a), Run(b), Run(c), Run(d), Run(e)>> \o stack
                => Pushes({a, b, c, d, e}, a)
<1>1. ASSUME NEW f, stack' = <<f>> \o stack PROVE Pushes({f.op}, f.op)
  <2> DEFINE s == <<f>>
  <2>1. s \in Seq({f}) /\ s # <<>> /\ Pending(s) = {f.op} /\ TopOp(s) = f.op /\ stack' = s \o stack
    <3>1. Pending(s) = {f.op} /\ TopOp(s) = f.op
      BY PendingOne, Zenon
    <3> QED BY <1>1, <3>1
  <2> HIDE DEF s
  <2> QED BY <2>1, PushFrames
<1>2. ASSUME NEW a, NEW b, stack' = <<Run(a), Run(b)>> \o stack PROVE Pushes({a, b}, a)
  <2> DEFINE s == <<Run(a), Run(b)>>
  <2>1. /\ s \in Seq({Run(a), Run(b)}) /\ s # <<>> /\ Pending(s) = {a, b} /\ TopOp(s) = a
        /\ stack' = s \o stack
    <3>1. Pending(s) = {Run(a).op, Run(b).op} /\ TopOp(s) = Run(a).op
      BY PendingTwo, Zenon
    <3>2. s \in Seq({Run(a), Run(b)}) /\ s # <<>>
      <4> HIDE DEF Run
      <4> QED OBVIOUS
    <3>3. Pending(s) = {a, b} /\ TopOp(s) = a
      <4> HIDE DEF s
      <4> QED BY <3>1, CallOps
    <3> QED BY <1>2, <3>2, <3>3
  <2> HIDE DEF s
  <2> QED BY <2>1, PushFrames
<1>3. ASSUME NEW a, NEW b, NEW c, stack' = <<Run(a), Run(b), Run(c)>> \o stack
      PROVE  Pushes({a, b, c}, a)
  <2> DEFINE s == <<Run(a), Run(b), Run(c)>>
  <2>1. /\ s \in Seq({Run(a), Run(b), Run(c)}) /\ s # <<>> /\ Pending(s) = {a, b, c}
        /\ TopOp(s) = a /\ stack' = s \o stack
    <3>1. Pending(s) = {Run(a).op, Run(b).op, Run(c).op} /\ TopOp(s) = Run(a).op
      BY PendingThree, Zenon
    <3>2. s \in Seq({Run(a), Run(b), Run(c)}) /\ s # <<>>
      OBVIOUS
    <3>3. {Run(a).op, Run(b).op, Run(c).op} = {a, b, c} /\ Run(a).op = a
      BY CallOps
    <3> QED BY <1>3, <3>1, <3>2, <3>3, Zenon
  <2> HIDE DEF s
  <2> QED BY <2>1, PushFrames
<1>4. ASSUME NEW a, NEW b, NEW c, NEW d, NEW e,
             stack' = <<Run(a), Run(b), Run(c), Run(d), Run(e)>> \o stack
      PROVE  Pushes({a, b, c, d, e}, a)
  <2> DEFINE s == <<Run(a), Run(b), Run(c), Run(d), Run(e)>>
  <2>1. /\ s \in Seq({Run(a), Run(b), Run(c), Run(d), Run(e)}) /\ s # <<>>
        /\ Pending(s) = {a, b, c, d, e} /\ TopOp(s) = a /\ stack' = s \o stack
    <3>1. Pending(s) = {Run(a).op, Run(b).op, Run(c).op, Run(d).op, Run(e).op}
      BY PendingFive
    <3>2. TopOp(s) = Run(a).op
      BY DEF TopOp
    <3>3. s \in Seq({Run(a), Run(b), Run(c), Run(d), Run(e)}) /\ s # <<>>
      OBVIOUS
    <3>4. /\ {Run(a).op, Run(b).op, Run(c).op, Run(d).op, Run(e).op} = {a, b, c, d, e}
          /\ Run(a).op = a
      BY CallOps
    <3> QED BY <1>4, <3>1, <3>2, <3>3, <3>4, Zenon
  <2> HIDE DEF s
  <2> QED BY <2>1, PushFrames
<1> QED BY <1>1, <1>2, <1>3, <1>4

\* Events of the channel.
LEMMA ChannelStack ==
    ASSUME TypeOK
    PROVE  /\ ChannelActive => Starts({"callout", "doHandshakeStep"}, "callout")
           /\ ConnectFails => Starts({}, "none") /\ UNCHANGED stack
           /\ HandlerRemoved => Starts({}, "none") /\ UNCHANGED stack
           /\ ChannelInactive =>
                /\ TopOp(stack) \in {"none", "netout"}
                /\ Pushes({"discard", "callout"}, "discard")
                     \/ Pushes({"callout", "discard"}, "callout")
           /\ ChannelRead =>
                \/ state = "handshaking" /\ Starts({"doHandshakeStep"}, "doHandshakeStep")
                \/ /\ state \in {"active", "outputClosed"}
                   /\ Starts({"doDecodeData", "doUnbufferActions"}, "doDecodeData")
                \/ state = "closing" /\ Starts({"doDecodeData"}, "doDecodeData")
                \/ state = "unwrapping" /\ Starts({"doShutdownStep"}, "doShutdownStep")
                \/ /\ state \notin {"handshaking", "active", "outputClosed", "closing",
                        "unwrapping"}
                   /\ Starts({"callout", "channelClose"}, "callout")
           /\ ChannelReadComplete => Starts({"doFlushReadData", "writeDataToNetwork"},
                "doFlushReadData")
           /\ InputClosedTriggered => Starts({}, "none") \/ Starts({"callout"}, "callout")
           /\ ChannelFulfills => UNCHANGED stack /\ TopOp(stack) \in {"none", "netout"}
<1>1. stack \in Seq(Frame)
  BY DEF TypeOK
<1>2. ChannelActive => Starts({"callout", "doHandshakeStep"}, "callout")
  <2>1. "callout" \notin HandshakeOps
    BY DEF HandshakeOps
  <2> QED BY <2>1, IdleStarts DEF ChannelActive, Callout
<1>3. Idle /\ UNCHANGED stack => Starts({}, "none")
  BY IdleStarts DEF Idle
<1>4. (Idle => TopOp(stack) = "none") /\ (InNetout => TopOp(stack) = "netout")
  BY PendingEmpty DEF Idle, InNetout, TopOp, Top
<1>5. ChannelInactive =>
        /\ TopOp(stack) \in {"none", "netout"}
        /\ Pushes({"discard", "callout"}, "discard") \/ Pushes({"callout", "discard"}, "callout")
  <2> SUFFICES ASSUME ChannelInactive
               PROVE  /\ TopOp(stack) \in {"none", "netout"}
                      /\ \/ Pushes({"discard", "callout"}, "discard")
                         \/ Pushes({"callout", "discard"}, "callout")
    OBVIOUS
  <2>1. TopOp(stack) \in {"none", "netout"}
    BY <1>4 DEF ChannelInactive
  <2>2. \/ stack' = <<Run("discard"), Run("callout")>> \o stack
        \/ stack' = <<Run("callout"), Run("discard"), Run("callout")>> \o stack
    BY DEF ChannelInactive, Callout
  <2>3. Pushes({"discard", "callout"}, "discard") \/ Pushes({"callout", "discard", "callout"},
          "callout")
    BY <1>1, <2>2, PushRuns
  <2>4. {"callout", "discard", "callout"} = {"callout", "discard"}
    OBVIOUS
  <2> QED BY <2>1, <2>3, <2>4
<1>6. ChannelRead =>
        \/ state = "handshaking" /\ Starts({"doHandshakeStep"}, "doHandshakeStep")
        \/ /\ state \in {"active", "outputClosed"}
           /\ Starts({"doDecodeData", "doUnbufferActions"}, "doDecodeData")
        \/ state = "closing" /\ Starts({"doDecodeData"}, "doDecodeData")
        \/ state = "unwrapping" /\ Starts({"doShutdownStep"}, "doShutdownStep")
        \/ /\ state \notin {"handshaking", "active", "outputClosed", "closing", "unwrapping"}
           /\ Starts({"callout", "channelClose"}, "callout")
  <2> SUFFICES ASSUME ChannelRead
               PROVE  \/ state = "handshaking" /\ Starts({"doHandshakeStep"}, "doHandshakeStep")
                      \/ /\ state \in {"active", "outputClosed"}
                         /\ Starts({"doDecodeData", "doUnbufferActions"}, "doDecodeData")
                      \/ state = "closing" /\ Starts({"doDecodeData"}, "doDecodeData")
                      \/ state = "unwrapping" /\ Starts({"doShutdownStep"}, "doShutdownStep")
                      \/ /\ state \notin {"handshaking", "active", "outputClosed", "closing",
                              "unwrapping"}
                         /\ Starts({"callout", "channelClose"}, "callout")
    OBVIOUS
  <2>1. Idle /\ stack' = AfterFeeding
    BY DEF ChannelRead
  <2>2. \/ state = "handshaking" /\ stack' = <<Run("doHandshakeStep")>>
        \/ /\ state \in {"active", "outputClosed"}
           /\ stack' = <<Run("doDecodeData"), Run("doUnbufferActions")>>
        \/ state = "closing" /\ stack' = <<Run("doDecodeData")>>
        \/ state = "unwrapping" /\ stack' = <<Run("doShutdownStep")>>
        \/ /\ state \notin {"handshaking", "active", "outputClosed", "closing", "unwrapping"}
           /\ stack' = <<Run("callout"), Run("channelClose")>>
    BY <2>1 DEF AfterFeeding, Callout
  <2>3. "doDecodeData" \notin HandshakeOps /\ "callout" \notin HandshakeOps
    BY DEF HandshakeOps
  <2> QED BY <2>1, <2>2, <2>3, IdleStarts
<1>7. ChannelReadComplete => Starts({"doFlushReadData", "writeDataToNetwork"}, "doFlushReadData")
  <2>1. "doFlushReadData" \notin HandshakeOps
    BY DEF HandshakeOps
  <2> QED BY <2>1, IdleStarts DEF ChannelReadComplete
<1>8. InputClosedTriggered => Starts({}, "none") \/ Starts({"callout"}, "callout")
  BY IdleStarts DEF InputClosedTriggered, Callout
<1> QED BY <1>2, <1>3, <1>4, <1>5, <1>6, <1>7, <1>8
           DEF ConnectFails, HandlerRemoved, ChannelFulfills

\* Calls of the user and tasks of the event loop.
LEMMA UserStack ==
    ASSUME TypeOK
    PROVE  /\ \A op : UserCalls(op) => CallsOut /\ Pushes({op}, op)
           /\ UserFlushes => CallsOut /\ Pushes({"flush"}, "flush")
           /\ CompletedAdditionalPeerCertificateVerification =>
                /\ CallsOut /\ pendingAdditional > 0 /\ pendingAdditional' = pendingAdditional - 1
                /\ \/ /\ removed \/ state \in {"unwrapping", "closing", "unwrapped", "closed"}
                      /\ UNCHANGED <<state, timerVars, stack, fatal, completions>>
                   \/ fatal' = "additionalState"
                   \/ /\ ~removed /\ state = "additionalVerification"
                      /\ Pushes({"callout", "channelClose"}, "callout")
                      /\ UNCHANGED <<state, timerVars, fatal, completions>>
                   \/ /\ ~removed /\ state = "additionalVerification" /\ Enter("active")
                      /\ completions' = completions + 1 /\ UNCHANGED fatal
                      /\ Pushes({"writeDataToNetwork", "callout", "doDecodeData",
                           "doFlushReadData",
                                 "doUnbufferActions"}, "writeDataToNetwork")
           /\ ResumeHandshake => Starts({"doHandshakeStep"}, "doHandshakeStep")
           /\ TimedOutShutdown =>
                \/ /\ state \in {"closed", "unwrapped"} /\ UNCHANGED <<state, stack, fatal>>
                   /\ Starts({}, "none")
                \/ /\ state = "closing" /\ state' = "closed" /\ UNCHANGED fatal
                   /\ Starts({"channelClose"}, "channelClose")
                \/ /\ state = "unwrapping" /\ state' = "unwrapped" /\ UNCHANGED fatal
                   /\ Starts({"channelUnwrap"}, "channelUnwrap")
                \/ fatal' = "timerState"
<1>1. stack \in Seq(Frame)
  BY DEF TypeOK
<1>2. (Idle => CallsOut) /\ (InCallout => CallsOut)
  BY PendingEmpty DEF Idle, InCallout, TopOp, Top, CallsOut
<1>3. ASSUME NEW op, UserCalls(op) PROVE CallsOut /\ Pushes({op}, op)
  <2>1. CallsOut
    BY <1>2, <1>3 DEF UserCalls, UserMayCall
  <2>2. PICK q, n : stack' = <<[Call(op, {q}) EXCEPT !.n = n]>> \o stack
    BY <1>3 DEF UserCalls
  <2> DEFINE f == [Call(op, {q}) EXCEPT !.n = n]
  <2>3. f.op = op /\ stack' = <<f>> \o stack
    BY <2>2 DEF Call
  <2> HIDE DEF f
  <2>4. Pushes({f.op}, f.op)
    BY <1>1, <2>3, PushRuns
  <2> QED BY <2>1, <2>3, <2>4
<1>4. UserFlushes => CallsOut /\ Pushes({"flush"}, "flush")
  <2> SUFFICES ASSUME UserFlushes PROVE CallsOut /\ Pushes({"flush"}, "flush")
    OBVIOUS
  <2>1. stack' = <<Run("flush")>> \o stack
    BY DEF UserFlushes
  <2>2. Pushes({Run("flush").op}, Run("flush").op)
    BY <1>1, <2>1, PushRuns
  <2> QED BY <1>2, <2>2, CallOps DEF UserFlushes, UserMayCall
<1>5. /\ stack' = <<Callout, Run("channelClose")>> \o stack
           => Pushes({"callout", "channelClose"}, "callout")
      /\ stack' = CompleteHandshake \o stack =>
           Pushes({"writeDataToNetwork", "callout", "doDecodeData", "doFlushReadData",
                   "doUnbufferActions"}, "writeDataToNetwork")
  BY <1>1, PushRuns DEF Callout, CompleteHandshake
<1>6. ASSUME CompletedAdditionalPeerCertificateVerification
      PROVE  /\ CallsOut /\ pendingAdditional > 0 /\ pendingAdditional' = pendingAdditional - 1
             /\ \/ /\ removed \/ state \in {"unwrapping", "closing", "unwrapped", "closed"}
                   /\ UNCHANGED <<state, timerVars, stack, fatal, completions>>
                \/ fatal' = "additionalState"
                \/ /\ ~removed /\ state = "additionalVerification"
                   /\ Pushes({"callout", "channelClose"}, "callout")
                   /\ UNCHANGED <<state, timerVars, fatal, completions>>
                \/ /\ ~removed /\ state = "additionalVerification" /\ Enter("active")
                   /\ completions' = completions + 1 /\ UNCHANGED fatal
                   /\ Pushes({"writeDataToNetwork", "callout", "doDecodeData", "doFlushReadData",
                              "doUnbufferActions"}, "writeDataToNetwork")
  BY <1>2, <1>5, <1>6 DEF CompletedAdditionalPeerCertificateVerification
<1>7. ASSUME ResumeHandshake PROVE Starts({"doHandshakeStep"}, "doHandshakeStep")
  <2>1. Idle /\ stack' = <<Run("doHandshakeStep")>> \o stack /\ stack = <<>>
    BY <1>7 DEF ResumeHandshake, MayResume, Idle
  <2>2. stack' = <<Run("doHandshakeStep")>>
    BY <2>1
  <2> QED BY <2>1, <2>2, IdleStarts
<1>8. ASSUME TimedOutShutdown
      PROVE  \/ /\ state \in {"closed", "unwrapped"} /\ UNCHANGED <<state, stack, fatal>>
                /\ Starts({}, "none")
             \/ /\ state = "closing" /\ state' = "closed" /\ UNCHANGED fatal
                /\ Starts({"channelClose"}, "channelClose")
             \/ /\ state = "unwrapping" /\ state' = "unwrapped" /\ UNCHANGED fatal
                /\ Starts({"channelUnwrap"}, "channelUnwrap")
             \/ fatal' = "timerState"
  <2>1. Idle
    BY <1>8 DEF TimedOutShutdown
  <2>2. stack' = <<TimedOutUnwrap>> => Starts({"channelUnwrap"}, "channelUnwrap")
    <3>1. TimedOutUnwrap.op = "channelUnwrap"
      BY DEF TimedOutUnwrap, Run, Call
    <3> SUFFICES ASSUME stack' = <<TimedOutUnwrap>> PROVE Starts({"channelUnwrap"},
          "channelUnwrap")
      OBVIOUS
    <3>2. Pending(stack') = {TimedOutUnwrap.op} /\ TopOp(stack') = TimedOutUnwrap.op
      BY PendingOne, Zenon
    <3>3. LastOnly(stack')
      BY DEF LastOnly
    <3> QED BY <2>1, <3>1, <3>2, <3>3, PendingEmpty DEF Starts, Idle
  <2>3. stack' = <<Run("channelClose")>> => Starts({"channelClose"}, "channelClose")
    BY <2>1, IdleStarts
  <2>4. UNCHANGED stack => Starts({}, "none")
    BY <2>1, IdleStarts DEF Idle
  <2> QED BY <1>8, <2>2, <2>3, <2>4 DEF TimedOutShutdown
<1> QED BY <1>3, <1>4, <1>6, <1>7, <1>8

-----------------------------------------------------------------------------

\* A handler that has failed a precondition takes no step.
LEMMA NextRuns == Next => fatal = "none"
BY DEF Next, Handler, Channel, User, Idle, InCallout, InNetout, Running, UserMayCall, MayResume,
   Return, WriteDataToNetwork, ContextClose, ContextCloseOutput, ChannelClose, ChannelCloseOutput,
   ChannelUnwrap, RemovalFuture, BufferWrite, Flush, Discard, DoUnbufferActions,
   InvokeCloseOutput, FailEncoded, FailCloseOutput, CloseAll, CloseOutput, StopTLS,
   DoShutdownStep, ShutdownIncomplete, DoHandshakeStep, HandshakeIncomplete, DoDecodeData,
   AfterZeroReturn, DoFlushReadData, ChannelActive, ConnectFails, ChannelInactive, HandlerRemoved,
   ChannelRead, ChannelReadComplete, InputClosedTriggered, ChannelFulfills, UserCalls,
   UserFlushes, CompletedAdditionalPeerCertificateVerification, ResumeHandshake, TimedOutShutdown

\* Every action but the one that runs a call leaves the call pending.
LEMMA NextPending ==
    ASSUME TypeOK, Next
    PROVE  \A o \in Pending(stack) : o = TopOp(stack) \/ o \in Pending(stack')
<1> USE DEF Pops, Goes, Drops, Starts, Pushes
<1>1. ASSUME Handler PROVE \A o \in Pending(stack) : o = TopOp(stack) \/ o \in Pending(stack')
  <2>1. CASE WriteDataToNetwork \/ ContextClose \/ ContextCloseOutput
    BY <2>1, NetworkStack
  <2>2. CASE ChannelClose \/ ChannelCloseOutput \/ ChannelUnwrap \/ RemovalFuture
    BY <2>2, EndStack
  <2>3. CASE BufferWrite \/ Flush \/ Discard \/ InvokeCloseOutput \/ FailEncoded \/ FailCloseOutput
    BY <2>3, BufferStack
  <2>4. CASE CloseAll \/ CloseOutput \/ StopTLS
    BY <2>4, CloseStack
  <2>5. CASE DoUnbufferActions
    BY <2>5, UnbufferStack
  <2>6. CASE DoShutdownStep
    <3>1. Pops("doShutdownStep") /\ (Drops \/ \E ops, op : Goes(ops, op))
      <4>1. CASE fatal' = "shutdownState"
        <5>1. Running("doShutdownStep") /\ stack' = Rest
          BY <2>6, <4>1 DEF DoShutdownStep, Running, Crash
        <5> QED BY <5>1, GotoNothing, RunningPops DEF TypeOK
      <4> QED BY <2>6, <4>1, ShutdownStack
    <3> QED BY <3>1
  <2>7. CASE DoHandshakeStep
    BY <2>7, HandshakeStack
  <2>8. CASE DoDecodeData \/ AfterZeroReturn \/ DoFlushReadData \/ HandshakeIncomplete
             \/ ShutdownIncomplete
    <3>1. CASE DoDecodeData
      <4>1. Pops("doDecodeData") /\ (Drops \/ \E ops, op : Goes(ops, op))
        <5>1. CASE fatal' = "zeroReturnState"
          <6>1. Running("doDecodeData") /\ stack' = Rest
            BY <3>1, <5>1 DEF DoDecodeData, Running, Crash
          <6> QED BY <6>1, GotoNothing, RunningPops DEF TypeOK
        <5> QED BY <3>1, <5>1, ReadStack
      <4> QED BY <4>1
    <3> QED BY <2>8, <3>1, ReadStack
  <2> QED BY <1>1, <2>1, <2>2, <2>3, <2>4, <2>5, <2>6, <2>7, <2>8 DEF Handler
<1>2. CASE Return
  BY <1>2, NetworkStack
<1>3. CASE Channel
  BY <1>3, ChannelStack DEF Channel
<1>4. CASE User \/ ResumeHandshake \/ TimedOutShutdown
  <2>1. CASE User
    <3>1. CASE CompletedAdditionalPeerCertificateVerification
      <4>1. stack' = stack \/ \E ops, op : Pushes(ops, op)
        <5>1. fatal' = "additionalState" => stack' = stack
          BY <3>1 DEF CompletedAdditionalPeerCertificateVerification, Idle, InCallout
        <5> QED BY <3>1, <5>1, UserStack
      <4> QED BY <4>1
    <3> QED BY <2>1, <3>1, UserStack DEF User
  <2>2. CASE TimedOutShutdown
    BY <2>2, PendingEmpty DEF TimedOutShutdown, Idle
  <2> QED BY <1>4, <2>1, <2>2, UserStack
<1> QED BY <1>1, <1>2, <1>3, <1>4 DEF Next

\* What runs is the innermost call.
LEMMA Dispatch ==
    ASSUME Next, NEW op \in Ops \ {"callout", "netout"}, Running(op)
    PROVE  /\ Handler
           /\ \A o \in Ops : Running(o) => o = op
<1>1. ~Idle /\ ~InCallout /\ ~InNetout
  BY DEF Running, Idle, InCallout, InNetout
<1>2. ~Return /\ ~ResumeHandshake /\ ~TimedOutShutdown
  BY <1>1 DEF Return, ResumeHandshake, MayResume, TimedOutShutdown
<1>3. ~Channel
  BY <1>1 DEF Channel, ChannelActive, ConnectFails, ChannelInactive, HandlerRemoved, ChannelRead,
     ChannelReadComplete, InputClosedTriggered, ChannelFulfills
<1>4. ~User
  BY <1>1 DEF User, UserCalls, UserFlushes, UserMayCall,
     CompletedAdditionalPeerCertificateVerification
<1> QED BY <1>2, <1>3, <1>4 DEF Next, Running

\* The removal and the close run when they are the innermost call.
LEMMA DispatchEnds ==
    ASSUME Next
    PROVE  /\ Running("removalFuture") => RemovalFuture
           /\ Running("channelClose") => ChannelClose
<1> USE DEF Ops
<1>1. ASSUME Running("removalFuture") PROVE RemovalFuture
  BY <1>1, Dispatch DEF Handler, WriteDataToNetwork, ContextClose, ContextCloseOutput,
     ChannelClose, ChannelCloseOutput, ChannelUnwrap, BufferWrite, Flush, Discard,
     DoUnbufferActions, InvokeCloseOutput, FailEncoded, FailCloseOutput, CloseAll, CloseOutput,
     StopTLS, DoShutdownStep, ShutdownIncomplete, DoHandshakeStep, HandshakeIncomplete,
     DoDecodeData, AfterZeroReturn, DoFlushReadData
<1>2. ASSUME Running("channelClose") PROVE ChannelClose
  BY <1>2, Dispatch DEF Handler, WriteDataToNetwork, ContextClose, ContextCloseOutput,
     RemovalFuture, ChannelCloseOutput, ChannelUnwrap, BufferWrite, Flush, Discard,
     DoUnbufferActions, InvokeCloseOutput, FailEncoded, FailCloseOutput, CloseAll, CloseOutput,
     StopTLS, DoShutdownStep, ShutdownIncomplete, DoHandshakeStep, HandshakeIncomplete,
     DoDecodeData, AfterZeroReturn, DoFlushReadData
<1> QED BY <1>1, <1>2

\* The steps that move the state or the timeout.
LEMMA StateSteps ==
    ASSUME Next
    PROVE  \/ UNCHANGED <<state, timerVars>>
           \/ ChannelClose \/ ChannelUnwrap \/ InvokeCloseOutput \/ CloseAll \/ CloseOutput
           \/ StopTLS \/ DoShutdownStep \/ ShutdownIncomplete \/ DoHandshakeStep
           \/ HandshakeIncomplete \/ DoDecodeData \/ AfterZeroReturn \/ ChannelInactive
           \/ CompletedAdditionalPeerCertificateVerification \/ TimedOutShutdown
BY DEF Next, Handler, Channel, User, Return, WriteDataToNetwork, ContextClose, ContextCloseOutput,
   ChannelCloseOutput, RemovalFuture, BufferWrite, Flush, Discard, DoUnbufferActions, FailEncoded,
   FailCloseOutput, DoFlushReadData, ChannelActive, ConnectFails, HandlerRemoved, ChannelRead,
   ChannelReadComplete, InputClosedTriggered, ChannelFulfills, UserCalls, UserFlushes,
   ResumeHandshake

\* The steps that touch the connection.
LEMMA ConnSteps ==
    ASSUME Next
    PROVE  \/ UNCHANGED conn
           \/ WriteDataToNetwork \/ ChannelUnwrap \/ RemovalFuture \/ HandlerRemoved
           \/ DoUnbufferActions \/ DoShutdownStep \/ DoHandshakeStep \/ DoDecodeData
           \/ ChannelRead \/ ResumeHandshake
BY DEF Next, Handler, Channel, User, Return, ContextClose, ContextCloseOutput, ChannelClose,
   ChannelCloseOutput, BufferWrite, Flush, Discard, InvokeCloseOutput, FailEncoded,
   FailCloseOutput, CloseAll, CloseOutput, StopTLS, ShutdownIncomplete, HandshakeIncomplete,
   AfterZeroReturn, DoFlushReadData, ChannelActive, ConnectFails, ChannelInactive,
   ChannelReadComplete, InputClosedTriggered, ChannelFulfills, UserCalls, UserFlushes,
   CompletedAdditionalPeerCertificateVerification, TimedOutShutdown
====
