--------------------------- MODULE NIOSSLHandler ---------------------------
(***************************************************************************)
(* The channel handler of swift-nio-ssl (NIOSSLHandler.swift) on one       *)
(* event loop, with the connection it drives, the channel below it, the    *)
(* user above it and the peer.                                             *)
(*                                                                         *)
(* Everything runs on one thread, so what is hard is RE-ENTRANCY: firing   *)
(* an event, completing a promise, writing to or closing the channel runs  *)
(* user code, which may call the handler again before the outer call has   *)
(* returned, and closing may run channelInactive inside context.close.     *)
(* The model therefore keeps the call stack: `stack' holds what is left to *)
(* run, innermost first.  A frame is either a piece of a method that runs  *)
(* without calling out, or a call-out, during which the user (and, in a    *)
(* "netout", the channel) may push further frames.  Calling a method is    *)
(* pushing its frames.                                                     *)
(***************************************************************************)
EXTENDS SSLConnection

CONSTANTS Api,              \* the operations the user calls
          WriteSizes,       \* sizes of the user's writes
          MaxWriteSize,     \* maxWriteSize
          MaxFlush,         \* bound on the user's flushes
          Scripts,          \* what the peer may send, in order
          HalfClosure,      \* ChannelOptions.allowRemoteHalfClosure
          AdditionalVerify, \* additionalPeerCertificateVerificationCallback # nil
          Reentrant         \* the user calls the handler from its callbacks

ASSUME HandlerAssumption ==
    /\ Api \subseteq {"write", "flush", "closeAll", "closeOutput", "stopTLS"}
    /\ WriteSizes \subseteq Nat
    /\ MaxWriteSize \in Nat \ {0}
    /\ MaxFlush \in Nat
    /\ Scripts \subseteq Seq(Record)
    /\ {HalfClosure, AdditionalVerify, Reentrant} \subseteq BOOLEAN

VARIABLES
    state,               \* ConnectionState
    conn,                \* connection : SSLConnection
    plaintextReadBuffer, \* decrypted data not yet passed on
    bufferedActions,     \* MarkedCircularBuffer<BufferedAction> ...
    marked,              \* ... and how many of its first elements are marked
    closePromise, shutdownPromise, closeOutputPromise,
                         \* the promises each field completes; {} is nil
    timers,              \* scheduled shutdown tasks that have not run
    scheduled,           \* the task in state's payload is one of them
    removed,             \* handlerRemoved has run: storedContext is nil
    pendingAdditional,   \* additional verifications under way
    stack,               \* frames left to run, innermost first
    fatal,               \* a preconditionFailure, an assert or a loop for ever
    \* the channel and the user
    channel, outputOpen, \* the channel below; its output half
    inactiveDue,         \* channelInactive has still to be fired
    readPending,         \* a channelRead without its channelReadComplete
    inputEnded,          \* the channel has reported ChannelEvent.inputClosed
    promise,             \* status of every promise
    flushes,             \* flushes the user has called
    \* the peer
    script, pos,         \* its records, and how many were delivered
    hostnameMatches,     \* its certificate is valid for the expected name
    \* history
    wire,                \* records handed to the channel, in order
    delivered,           \* decrypted records passed on to the next handler
    evacuated,           \* bytes passed on undecrypted by the unwrapping
    asked,               \* the operation each promise was given to
    writes,              \* slices accepted by bufferWrite, in order
    completions,         \* times completeHandshake has run
    unclean              \* uncleanShutdown has been reported

timerVars == <<timers, scheduled>>
slotVars  == <<closePromise, shutdownPromise, closeOutputPromise>>
bufVars   == <<bufferedActions, marked>>
chanVars  == <<channel, outputOpen, inactiveDue>>
envVars   == <<readPending, inputEnded, flushes, script, pos, hostnameMatches>>
histVars  == <<delivered, evacuated, asked, writes, completions, unclean>>
vars == <<state, conn, plaintextReadBuffer, bufVars, slotVars, timerVars, removed,
          pendingAdditional, stack, fatal, chanVars, promise, envVars, wire, histVars>>

States == {"idle", "handshaking", "additionalVerification", "active", "unwrapping",
           "closing", "unwrapped", "inputClosed", "outputClosed", "closed"}

PromiseStatus == {"unused", "pending", "handed", "succeeded", "failed"}

Fatals == {"none", "loop", "shutdownState", "timerState", "additionalState",
           "zeroReturnState", "unwrapAssert"}

Ops == {"callout", "netout", "write", "flush", "closeAll", "closeOutput", "stopTLS",
        "doHandshakeStep", "handshakeIncomplete", "writeDataToNetwork",
        "doDecodeData", "afterZeroReturn", "doFlushReadData", "doUnbufferActions",
        "invokeCloseOutput", "failEncoded", "failCloseOutput", "discard",
        "doShutdownStep", "shutdownIncomplete", "channelCloseOutput", "channelClose",
        "channelUnwrap", "removalFuture", "contextClose", "contextCloseOutput"}

\* p: promises the frame carries; n: a write's size; e: it reports an error.
Frame == [op : Ops, p : SUBSET Promises, n : Nat, e : BOOLEAN]
Call(op, p) == [op |-> op, p |-> p, n |-> 0, e |-> FALSE]
Run(op) == Call(op, {})
Callout == Run("callout")
Netout == Run("netout")

Action == [kind : {"write", "closeOutput"}, id : Promises \cup {None}, n : Nat,
           p : SUBSET Promises, empty : BOOLEAN]

Top == Head(stack)
Rest == Tail(stack)
Running(op) == fatal = "none" /\ stack # <<>> /\ Top.op = op
Goto(frames) == stack' = frames \o Rest
Crash(why) == fatal' = why /\ stack' = Rest

\* The event loop is free, or user code runs inside a call-out.
Idle == fatal = "none" /\ stack = <<>>
InCallout == fatal = "none" /\ stack # <<>> /\ Top.op \in {"callout", "netout"}
InNetout == fatal = "none" /\ stack # <<>> /\ Top.op = "netout"

\* A promise is completed at most once: later completions are ignored.
Complete(ps, s) == [q \in Promises |-> IF q \in ps /\ promise[q] \in {"pending", "handed"}
                                       THEN s ELSE promise[q]]

\* Leaving .closing and .unwrapping drops the scheduled task, which still runs.
Enter(s) == /\ state' = s
            /\ scheduled' = (scheduled /\ s \in {"closing", "unwrapping"})
            /\ UNCHANGED timers

(***************************************************************************)
(* scheduleTimedOutShutdown and Scheduled.cancel.                          *)
(***************************************************************************)
\* Mutant of EnterTimed: the state changes and nothing is scheduled.
EnterUntimed(s) == Enter(s)

EnterTimed(s) == state' = s /\ scheduled' = TRUE /\ timers' = timers + 1
CancelAndEnter(s) == /\ state' = s
                     /\ scheduled' = FALSE
                     /\ timers' = IF scheduled THEN timers - 1 ELSE timers

Init == /\ state = "idle" /\ conn = NewConnection /\ plaintextReadBuffer = <<>>
        /\ bufferedActions = <<>> /\ marked = 0
        /\ closePromise = {} /\ shutdownPromise = {} /\ closeOutputPromise = {}
        /\ timers = 0 /\ scheduled = FALSE /\ removed = FALSE /\ pendingAdditional = 0
        /\ fatal = "none"
        /\ outputOpen = TRUE /\ inactiveDue = FALSE /\ readPending = FALSE /\ inputEnded = FALSE
        /\ promise = [q \in Promises |-> "unused"] /\ flushes = 0
        /\ script \in Scripts /\ pos = 0 /\ hostnameMatches \in BOOLEAN
        /\ wire = <<>> /\ delivered = <<>> /\ evacuated = <<>> /\ writes = <<>>
        /\ asked = [q \in Promises |-> "nothing"]
        /\ completions = 0 /\ unclean = FALSE
        \* handlerAdded: an active channel starts the handshake at once
        /\ \/ channel = "registered" /\ stack = <<>>
           \/ channel = "active" /\ stack = <<Run("doHandshakeStep")>>

-----------------------------------------------------------------------------
(***************************************************************************)
(* Call-outs to the channel.  A removed context reaches nobody: what it is *)
(* asked to do fails.                                                      *)
(***************************************************************************)
Writable == ~removed /\ channel = "active" /\ outputOpen

\* The user's code, or the channel's, returns to the handler.
Return == /\ InCallout
          /\ stack' = Rest
          /\ UNCHANGED <<state, conn, plaintextReadBuffer, bufVars, slotVars, timerVars, removed,
                         pendingAdditional, fatal, chanVars, promise, envVars, wire, histVars>>

WriteDataToNetwork ==
    /\ Running("writeDataToNetwork")
    /\ IF conn.outbound = <<>> /\ Top.p = {}
       THEN Goto(<<>>) /\ UNCHANGED <<conn, wire, promise>>
       ELSE /\ conn' = GetDataForNetwork(conn)
            /\ wire' = IF Writable THEN wire \o conn.outbound ELSE wire
            /\ promise' = Complete(Top.p, IF Writable THEN "handed" ELSE "failed")
            /\ Goto(<<Netout>>)
    /\ UNCHANGED <<state, plaintextReadBuffer, bufVars, slotVars, timerVars, removed,
                   pendingAdditional, fatal, chanVars, envVars, histVars>>

ContextClose ==
    /\ Running("contextClose")
    /\ IF removed \/ channel = "closed"
       THEN promise' = Complete(Top.p, "failed") /\ Goto(<<Callout>>) /\ UNCHANGED chanVars
       ELSE /\ promise' = Complete(Top.p, "handed")
            /\ channel' = "closed" /\ inactiveDue' = (channel = "active")
            /\ Goto(<<Netout>>)
            /\ UNCHANGED outputOpen
    /\ UNCHANGED <<state, conn, plaintextReadBuffer, bufVars, slotVars, timerVars, removed,
                   pendingAdditional, fatal, envVars, wire, histVars>>

ContextCloseOutput ==
    /\ Running("contextCloseOutput")
    /\ IF Writable
       THEN promise' = Complete(Top.p, "handed") /\ outputOpen' = FALSE /\ Goto(<<Netout>>)
       ELSE promise' = Complete(Top.p, "failed") /\ Goto(<<Callout>>) /\ UNCHANGED outputOpen
    /\ UNCHANGED <<state, conn, plaintextReadBuffer, bufVars, slotVars, timerVars, removed,
                   pendingAdditional, fatal, channel, inactiveDue, envVars, wire, histVars>>

-----------------------------------------------------------------------------
(***************************************************************************)
(* Ends of a connection.                                                   *)
(***************************************************************************)
ChannelClose ==
    /\ Running("channelClose")
    /\ Enter("closed")
    /\ shutdownPromise' = {} /\ closePromise' = {}
    /\ promise' = Complete(shutdownPromise, "failed")
    /\ Goto((IF shutdownPromise = {} THEN <<>> ELSE <<Callout>>)
            \o <<Call("contextClose", closePromise)>>)
    /\ UNCHANGED <<conn, plaintextReadBuffer, bufVars, closeOutputPromise, removed,
                   pendingAdditional, fatal, chanVars, envVars, wire, histVars>>

ChannelCloseOutput ==
    /\ Running("channelCloseOutput")
    /\ closeOutputPromise' = {}
    /\ Goto(<<Call("contextCloseOutput", closeOutputPromise)>>)
    /\ UNCHANGED <<state, conn, plaintextReadBuffer, bufVars, closePromise, shutdownPromise,
                   timerVars, removed, pendingAdditional, fatal, chanVars, promise, envVars,
                   wire, histVars>>

\* Leaves the pipeline (handlerRemoved runs inside) and then, in the removal
\* future, drops the buffered actions, passes on the bytes after the peer's
\* close_notify and completes the promise.
ChannelUnwrap ==
    /\ Running("channelUnwrap")
    /\ IF closePromise # {}
       THEN Crash("unwrapAssert") /\ UNCHANGED <<state, conn, shutdownPromise, timerVars, removed>>
       ELSE /\ Enter("unwrapped")
            /\ shutdownPromise' = {}
            /\ removed' = TRUE /\ conn' = CloseConnection(conn)
            /\ Goto(<<Run("discard"), [Call("removalFuture", shutdownPromise) EXCEPT !.e = Top.e]>>)
            /\ UNCHANGED fatal
    /\ UNCHANGED <<plaintextReadBuffer, bufVars, closePromise, closeOutputPromise,
                   pendingAdditional, chanVars, promise, envVars, wire, histVars>>

RemovalFuture ==
    /\ Running("removalFuture")
    /\ evacuated' = conn.inbound
    /\ conn' = ExtractUnconsumedData(conn)
    /\ promise' = Complete(Top.p, IF Top.e THEN "failed" ELSE "succeeded")
    /\ Goto(<<Callout>>)
    /\ UNCHANGED <<state, plaintextReadBuffer, bufVars, slotVars, timerVars, removed,
                   pendingAdditional, fatal, chanVars, envVars, wire, delivered, asked, writes,
                   completions, unclean>>

\* The removal of all handlers from the pipeline of a closed channel.
HandlerRemoved ==
    /\ Idle /\ ~removed /\ channel = "closed" /\ ~inactiveDue
    /\ removed' = TRUE /\ conn' = CloseConnection(conn)
    /\ UNCHANGED <<state, plaintextReadBuffer, bufVars, slotVars, timerVars, pendingAdditional,
                   stack, fatal, chanVars, promise, envVars, wire, histVars>>

-----------------------------------------------------------------------------
(***************************************************************************)
(* Buffered actions.                                                       *)
(***************************************************************************)
\* Mutant of Slices: the remainder of a division is forgotten.
SlicesRoundedDown(n) == IF n < MaxWriteSize THEN 1 ELSE n \div MaxWriteSize

Slices(n) == IF n = 0 THEN 1 ELSE (n + MaxWriteSize - 1) \div MaxWriteSize

\* A write larger than maxWriteSize becomes several; the last has the promise.
SliceActions(id, n) ==
    [i \in 1..Slices(n) |-> [kind |-> "write", id |-> id, n |-> i, empty |-> n = 0,
                             p |-> IF i = Slices(n) THEN {id} ELSE {}]]

CloseOutputAction == [kind |-> "closeOutput", id |-> None, n |-> 0, empty |-> FALSE, p |-> {}]

DataRecord(id, i) == [kind |-> "data", id |-> id, n |-> i]

\* The history of a write, stated without the loop: the records it must
\* become, the fewest of at most maxWriteSize that hold it.
Parts(n) == CHOOSE k \in 0..n : n <= k * MaxWriteSize /\ k * MaxWriteSize < n + MaxWriteSize
ExpectedRecords(id, n) == [i \in 1..Parts(n) |-> DataRecord(id, i)]

BufferWrite ==
    /\ Running("write")
    /\ IF state = "outputClosed"
       THEN promise' = Complete(Top.p, "failed") /\ Goto(<<Callout>>)
            /\ UNCHANGED <<bufferedActions, writes>>
       ELSE \E id \in Top.p :
              /\ bufferedActions' = bufferedActions \o SliceActions(id, Top.n)
              /\ writes' = writes \o ExpectedRecords(id, Top.n)
              /\ Goto(<<>>) /\ UNCHANGED promise
    /\ UNCHANGED <<state, conn, plaintextReadBuffer, marked, slotVars, timerVars, removed,
                   pendingAdditional, fatal, chanVars, envVars, wire, delivered, evacuated, asked,
                   completions, unclean>>

\* Mutant of BuffersFlush: the additional verification is not waited for.
BuffersFlushInHandshake == state \in {"idle", "handshaking"}

BuffersFlush == state \in {"idle", "handshaking", "additionalVerification"}

Flush ==
    /\ Running("flush")
    /\ marked' = Len(bufferedActions)
    /\ Goto(IF BuffersFlush THEN <<>>
            ELSE <<Run("doUnbufferActions")>>)
    /\ UNCHANGED <<state, conn, plaintextReadBuffer, bufferedActions, slotVars, timerVars, removed,
                   pendingAdditional, fatal, chanVars, promise, envVars, wire, histVars>>

\* One round of discardBufferedActions: failing a promise calls out.
Discard ==
    /\ Running("discard")
    /\ IF bufferedActions = <<>>
       THEN Goto(<<>>) /\ UNCHANGED <<bufVars, promise>>
       ELSE LET a == Head(bufferedActions) IN
            /\ bufferedActions' = Tail(bufferedActions)
            /\ marked' = IF marked > 0 THEN marked - 1 ELSE 0
            /\ promise' = Complete(a.p, "failed")
            /\ Goto((IF a.p = {} THEN <<>> ELSE <<Callout>>) \o <<Top>>)
    /\ UNCHANGED <<state, conn, plaintextReadBuffer, slotVars, timerVars, removed,
                   pendingAdditional, fatal, chanVars, envVars, wire, histVars>>

\* Mutant of PopAction: the mark stays where it is.
PopUnmoved == bufferedActions' = Tail(bufferedActions) /\ UNCHANGED marked

PopAction == /\ bufferedActions' = Tail(bufferedActions)
             /\ marked' = marked - 1

\* Mutant of AfterLoop: the promises of the encoded writes are dropped.
AfterLoopUnpromised(closeNext) ==
    (IF Top.e THEN <<Run("writeDataToNetwork")>> ELSE <<>>)
    \o (IF closeNext THEN <<Run("invokeCloseOutput")>> ELSE <<>>)

\* What follows the loop: one write for all that was encoded, then closeOutput.
AfterLoop(closeNext) ==
    (IF Top.e THEN <<Call("writeDataToNetwork", Top.p)>> ELSE <<>>)
    \o (IF closeNext THEN <<Run("invokeCloseOutput")>> ELSE <<>>)

\* Mutant of EncodeSingleWrite: an error of SSL_write counts as written.
EncodeIgnoringErrors(c, a) ==
    LET w == BeforeWrite(c)
    IN  IF a.empty \/ w.res = "failed" THEN Result("complete", c)
        ELSE IF w.res = "complete" THEN Result("complete", Send(w.conn, DataRecord(a.id, a.n)))
        ELSE w

\* _encodeSingleWrite: a zero-length write never reaches BoringSSL.
EncodeSingleWrite(c, a) ==
    LET w == BeforeWrite(c)
    IN  IF a.empty THEN Result("complete", c)
        ELSE IF w.res = "complete" THEN Result("complete", Send(w.conn, DataRecord(a.id, a.n)))
        ELSE w

\* One round of the loop over the marked actions.  The frame carries the
\* loop's locals: the promises of the encoded writes, and didWrite.
DoUnbufferActions ==
    /\ Running("doUnbufferActions")
    /\ LET a == Head(bufferedActions)
           w == EncodeSingleWrite(conn, a)
       IN  \/ /\ marked = 0
              /\ Goto(AfterLoop(FALSE))
              /\ UNCHANGED <<conn, bufVars, fatal>>
           \/ /\ marked > 0 /\ a.kind = "closeOutput"
              /\ PopAction
              /\ Goto(AfterLoop(TRUE))
              /\ UNCHANGED <<conn, fatal>>
           \/ /\ marked > 0 /\ a.kind = "write"
              /\ conn' = w.conn
              /\ \/ /\ w.res = "complete"
                    /\ PopAction
                    /\ Goto(<<[Top EXCEPT !.p = @ \cup a.p, !.e = TRUE]>>)
                    /\ UNCHANGED fatal
                 \/ /\ w.res = "incomplete"   \* the loop goes round for ever
                    /\ Crash("loop")
                    /\ UNCHANGED bufVars
                 \/ /\ w.res = "failed"
                    /\ Goto(<<Run("channelClose"), Call("failEncoded", Top.p),
                              Run("failCloseOutput"), Run("discard")>>)
                    /\ UNCHANGED <<bufVars, fatal>>
    /\ UNCHANGED <<state, plaintextReadBuffer, slotVars, timerVars, removed,
                   pendingAdditional, chanVars, promise, envVars, wire, histVars>>

InvokeCloseOutput ==
    /\ Running("invokeCloseOutput")
    /\ Enter("outputClosed")
    /\ Goto(<<Run("doShutdownStep"), Run("discard")>>)
    /\ UNCHANGED <<conn, plaintextReadBuffer, bufVars, slotVars, removed, pendingAdditional,
                   fatal, chanVars, promise, envVars, wire, histVars>>

FailEncoded ==
    /\ Running("failEncoded")
    /\ promise' = Complete(Top.p, "failed")
    /\ Goto(IF Top.p = {} THEN <<>> ELSE <<Callout>>)
    /\ UNCHANGED <<state, conn, plaintextReadBuffer, bufVars, slotVars, timerVars, removed,
                   pendingAdditional, fatal, chanVars, envVars, wire, histVars>>

\* The code clears closePromise here, and leaves closeOutputPromise set.
FailCloseOutput ==
    /\ Running("failCloseOutput")
    /\ closePromise' = {}
    /\ promise' = Complete(closeOutputPromise, "failed")
    /\ Goto(IF closeOutputPromise = {} THEN <<>> ELSE <<Callout>>)
    /\ UNCHANGED <<state, conn, plaintextReadBuffer, bufVars, shutdownPromise, closeOutputPromise,
                   timerVars, removed, pendingAdditional, fatal, chanVars, envVars, wire, histVars>>

-----------------------------------------------------------------------------
(***************************************************************************)
(* Closing, as the user asks for it.                                       *)
(***************************************************************************)
CloseAll ==
    /\ Running("closeAll")
    /\ \/ /\ state \in {"closing", "unwrapping"}
          /\ closePromise' = closePromise \cup Top.p   \* cascade, or the first
          /\ Enter("closing")
          /\ Goto(<<>>)
       \/ /\ state \in {"idle", "closed", "unwrapped"}
          /\ Enter(IF state = "idle" THEN "closed" ELSE state)
          /\ Goto(<<Call("contextClose", Top.p)>>)
          /\ UNCHANGED closePromise
       \/ /\ state \in {"active", "inputClosed", "outputClosed", "handshaking",
                        "additionalVerification"}
          /\ EnterTimed("closing")
          /\ closePromise' = Top.p
          /\ Goto(<<Run("doShutdownStep")>>)
    /\ UNCHANGED <<conn, plaintextReadBuffer, bufVars, shutdownPromise, closeOutputPromise,
                   removed, pendingAdditional, fatal, chanVars, promise, envVars, wire, histVars>>

CloseOutput ==
    /\ Running("closeOutput")
    /\ \/ /\ state = "closing"
          /\ closePromise' = closePromise \cup Top.p
          /\ Goto(<<>>)
          /\ UNCHANGED <<state, timerVars, bufVars, closeOutputPromise>>
       \/ /\ state \in {"idle", "outputClosed", "closed", "unwrapping", "unwrapped"}
          /\ Goto(<<Call("contextCloseOutput", Top.p)>>)
          /\ UNCHANGED <<state, timerVars, bufVars, closePromise, closeOutputPromise>>
       \/ /\ state \in {"handshaking", "additionalVerification"}
          /\ bufferedActions' = Append(bufferedActions, CloseOutputAction)
          /\ marked' = Len(bufferedActions) + 1
          /\ closeOutputPromise' = Top.p
          /\ Goto(<<>>)
          /\ UNCHANGED <<state, timerVars, closePromise>>
       \/ /\ state = "inputClosed"
          /\ Goto(<<Call("closeAll", Top.p)>>)
          /\ UNCHANGED <<state, timerVars, bufVars, closePromise, closeOutputPromise>>
       \/ /\ state = "active"
          /\ Enter("outputClosed")
          /\ closeOutputPromise' = Top.p
          /\ Goto(<<Run("flush"), Run("doShutdownStep")>>)
          /\ UNCHANGED <<bufVars, closePromise>>
    /\ UNCHANGED <<conn, plaintextReadBuffer, shutdownPromise, removed, pendingAdditional, fatal,
                   chanVars, promise, envVars, wire, histVars>>

StopTLS ==
    /\ Running("stopTLS")
    /\ \/ /\ state \in {"unwrapping", "closing"}
          /\ shutdownPromise' = shutdownPromise \cup Top.p
          /\ Goto(<<>>)
          /\ UNCHANGED <<state, timerVars, promise>>
       \/ /\ state = "idle" /\ ~removed
          /\ Enter("unwrapped")
          /\ shutdownPromise' = Top.p
          /\ Goto(<<Run("channelUnwrap")>>)
          /\ UNCHANGED promise
       \/ /\ state \in {"handshaking", "active", "inputClosed", "outputClosed",
                        "additionalVerification"} /\ ~removed
          /\ EnterTimed("unwrapping")
          /\ shutdownPromise' = Top.p
          /\ Goto(<<Run("doShutdownStep")>>)
          /\ UNCHANGED promise
       \/ /\ \/ state \in {"unwrapped", "closed"}
             \/ removed /\ state \notin {"unwrapping", "closing"}   \* no storedContext
          /\ promise' = Complete(Top.p, IF state = "unwrapped" THEN "succeeded" ELSE "failed")
          /\ Goto(<<Callout>>)
          /\ UNCHANGED <<state, timerVars, shutdownPromise>>
    /\ UNCHANGED <<conn, plaintextReadBuffer, bufVars, closePromise, closeOutputPromise, removed,
                   pendingAdditional, fatal, chanVars, envVars, wire, histVars>>

-----------------------------------------------------------------------------
(***************************************************************************)
(* Orderly TLS shutdown.                                                   *)
(***************************************************************************)
\* Mutant of TargetComplete: a close ends as an unwrapping would.
TargetUnwrapped == IF state = "outputClosed" THEN "outputClosed" ELSE "unwrapped"

TargetComplete == CASE state = "outputClosed" -> "outputClosed"
                    [] state = "closing"      -> "closed"
                    [] state = "unwrapping"   -> "unwrapped"

ShutdownEnd == CASE TargetComplete = "outputClosed" -> "channelCloseOutput"
                 [] TargetComplete = "closed"       -> "channelClose"
                 [] TargetComplete = "unwrapped"    -> "channelUnwrap"

\* Mutants of AfterIncomplete: our close_notify is not written; the output of
\* the channel is not closed.
AfterIncompleteUnwritten == IF state = "outputClosed" THEN <<Run("shutdownIncomplete")>> ELSE <<>>
AfterIncompleteOpen == <<Run("writeDataToNetwork")>>

\* Write the close_notify, and wait for the peer's unless only the output closes.
AfterIncomplete == <<Run("writeDataToNetwork")>>
                   \o (IF state = "outputClosed" THEN <<Run("shutdownIncomplete")>> ELSE <<>>)

DoShutdownStep ==
    /\ Running("doShutdownStep")
    /\ LET r == DoShutdown(conn) IN
       \/ /\ state = "closed"
          /\ Goto(<<>>)
          /\ UNCHANGED <<state, conn, timerVars, fatal>>
       \/ /\ state \notin {"closed", "outputClosed", "closing", "unwrapping"}
          /\ conn' = r.conn
          /\ Crash("shutdownState")
          /\ UNCHANGED <<state, timerVars>>
       \/ /\ state \in {"outputClosed", "closing", "unwrapping"}
          /\ conn' = r.conn
          /\ UNCHANGED fatal
          /\ \/ /\ r.res = "incomplete"
                /\ Goto(AfterIncomplete)
                /\ UNCHANGED <<state, timerVars>>
             \/ /\ r.res = "complete"
                /\ CancelAndEnter(TargetComplete)
                /\ Goto(<<Run("writeDataToNetwork"), Callout, Run(ShutdownEnd)>>)
             \/ /\ r.res = "failed"
                /\ CancelAndEnter(state)
                /\ Goto(<<Callout, Run("channelClose")>>)
    /\ UNCHANGED <<plaintextReadBuffer, bufVars, slotVars, removed, pendingAdditional, chanVars,
                   promise, envVars, wire, histVars>>

\* Back from writing our close_notify, with only the output to close.
ShutdownIncomplete ==
    /\ Running("shutdownIncomplete")
    /\ Enter("outputClosed")
    /\ Goto(<<Run("channelCloseOutput")>>)
    /\ UNCHANGED <<conn, plaintextReadBuffer, bufVars, slotVars, removed, pendingAdditional, fatal,
                   chanVars, promise, envVars, wire, histVars>>

\* Mutant of TimedOutUnwrap: the unwrapping reports no error.
SilentUnwrap == Run("channelUnwrap")

TimedOutUnwrap == [Run("channelUnwrap") EXCEPT !.e = TRUE]

\* The task of scheduleTimedOutShutdown runs.
TimedOutShutdown ==
    /\ Idle /\ timers > 0
    /\ timers' = timers - 1 /\ scheduled' = FALSE
    /\ \/ /\ state \in {"closed", "unwrapped"}
          /\ UNCHANGED <<state, stack, fatal>>
       \/ /\ state = "closing"
          /\ state' = "closed"
          /\ stack' = <<Run("channelClose")>>
          /\ UNCHANGED fatal
       \/ /\ state = "unwrapping"
          /\ state' = "unwrapped"
          /\ stack' = <<TimedOutUnwrap>>
          /\ UNCHANGED fatal
       \/ /\ state \notin {"closed", "unwrapped", "closing", "unwrapping"}
          /\ fatal' = "timerState"
          /\ UNCHANGED <<state, stack>>
    /\ UNCHANGED <<conn, plaintextReadBuffer, bufVars, slotVars, removed, pendingAdditional,
                   chanVars, promise, envVars, wire, histVars>>

-----------------------------------------------------------------------------
(***************************************************************************)
(* The handshake.                                                          *)
(***************************************************************************)
\* Mutant of CompleteHandshake: the actions buffered so far are not caught up.
CompleteHandshakeOnly == <<Run("writeDataToNetwork"), Callout, Run("doDecodeData"),
                           Run("doFlushReadData")>>

CompleteHandshake == <<Run("writeDataToNetwork"), Callout, Run("doDecodeData"),
                       Run("doFlushReadData"), Run("doUnbufferActions")>>

\* A name was given and the certificate is valid for it, or none was.
ValidateHostname == hostnameMatches

DoHandshakeStep ==
    /\ Running("doHandshakeStep")
    /\ LET r == DoHandshake(conn) IN
       /\ conn' = r.conn
       /\ \/ /\ r.res = "incomplete"
             /\ Goto(<<Run("handshakeIncomplete")>>)
             /\ UNCHANGED <<state, timerVars, pendingAdditional, completions>>
          \/ /\ r.res = "startsCallback"   \* the user's callback runs inside SSL_do_handshake
             /\ Goto(<<Callout, Run("handshakeIncomplete")>>)
             /\ UNCHANGED <<state, timerVars, pendingAdditional, completions>>
          \/ /\ r.res = "complete" /\ ~ValidateHostname
             /\ Goto(<<Callout, Run("channelClose")>>)
             /\ UNCHANGED <<state, timerVars, pendingAdditional, completions>>
          \/ /\ r.res = "complete" /\ ValidateHostname /\ AdditionalVerify
             /\ Enter("additionalVerification")
             /\ pendingAdditional' = pendingAdditional + 1
             /\ Goto(<<Callout>>)
             /\ UNCHANGED completions
          \/ /\ r.res = "complete" /\ ValidateHostname /\ ~AdditionalVerify
             /\ Enter("active")
             /\ completions' = completions + 1
             /\ Goto(CompleteHandshake)
             /\ UNCHANGED pendingAdditional
          \/ /\ r.res = "failed"
             /\ Goto(<<Run("writeDataToNetwork"), Callout, Run("channelClose")>>)
             /\ UNCHANGED <<state, timerVars, pendingAdditional, completions>>
    /\ UNCHANGED <<plaintextReadBuffer, bufVars, slotVars, removed, fatal, chanVars, promise,
                   envVars, wire, delivered, evacuated, asked, writes, unclean>>

HandshakeIncomplete ==
    /\ Running("handshakeIncomplete")
    /\ Enter("handshaking")
    /\ Goto(<<Run("writeDataToNetwork")>>)
    /\ UNCHANGED <<conn, plaintextReadBuffer, bufVars, slotVars, removed, pendingAdditional, fatal,
                   chanVars, promise, envVars, wire, histVars>>

\* Mutant of MayResume: the handshake resumes at once, inside the callback.
MayResumeAtOnce == Idle \/ InCallout

\* eventLoop.execute: "in a separate event loop tick".
MayResume == Idle

\* The user's promise completes, and the event loop resumes the handshake if
\* the handler is still there.
ResumeHandshake ==
    /\ MayResume /\ conn.verify = "pendingResult" /\ ~removed
    /\ \E r \in {"certificateVerified", "failed"} : conn' = SetVerification(conn, r)
    /\ stack' = <<Run("doHandshakeStep")>> \o stack
    /\ UNCHANGED <<state, plaintextReadBuffer, bufVars, slotVars, timerVars, removed,
                   pendingAdditional, fatal, chanVars, promise, envVars, wire, histVars>>

CompletedAdditionalPeerCertificateVerification ==
    /\ Idle \/ InCallout
    /\ pendingAdditional > 0
    /\ pendingAdditional' = pendingAdditional - 1
    /\ \/ /\ removed \/ state \in {"unwrapping", "closing", "unwrapped", "closed"}
          /\ UNCHANGED <<state, timerVars, stack, fatal, completions>>
       \/ /\ ~removed /\ state \in {"idle", "handshaking", "active", "inputClosed", "outputClosed"}
          /\ fatal' = "additionalState"
          /\ UNCHANGED <<state, timerVars, stack, completions>>
       \/ /\ ~removed /\ state = "additionalVerification"
          /\ stack' = <<Callout, Run("channelClose")>> \o stack
          /\ UNCHANGED <<state, timerVars, fatal, completions>>
       \/ /\ ~removed /\ state = "additionalVerification"
          /\ Enter("active")
          /\ completions' = completions + 1
          /\ stack' = CompleteHandshake \o stack
          /\ UNCHANGED fatal
    /\ UNCHANGED <<conn, plaintextReadBuffer, bufVars, slotVars, removed, chanVars, promise,
                   envVars, wire, delivered, evacuated, asked, writes, unclean>>

-----------------------------------------------------------------------------
(***************************************************************************)
(* Reading.                                                                *)
(***************************************************************************)
\* A closed channel has no options left to read.
AllowRemoteHalfClosure == HalfClosure /\ channel # "closed"

DoDecodeData ==
    /\ Running("doDecodeData")
    /\ LET r == ReadData(conn)
           eof == <<Run("doFlushReadData"),
                    [Run("afterZeroReturn") EXCEPT !.e = AllowRemoteHalfClosure]>>
       IN
       /\ conn' = r.conn
       /\ plaintextReadBuffer' = plaintextReadBuffer \o ReadableData(conn)
       /\ \/ /\ r.res = "incomplete"
             /\ Goto(<<>>)
             /\ UNCHANGED <<state, timerVars, fatal>>
          \/ /\ r.res = "zeroReturn" /\ state \in {"idle", "handshaking", "additionalVerification"}
             /\ Crash("zeroReturnState")
             /\ UNCHANGED <<state, timerVars>>
          \/ /\ r.res = "zeroReturn" /\ state \in {"closed", "unwrapped"}
             /\ Goto(<<>>)
             /\ UNCHANGED <<state, timerVars, fatal>>
          \/ /\ r.res = "zeroReturn" /\ state \in {"active", "outputClosed"}
             /\ IF AllowRemoteHalfClosure THEN UNCHANGED <<state, timerVars>>
                ELSE EnterTimed("closing")
             /\ Goto(eof)
             /\ UNCHANGED fatal
          \/ /\ r.res = "zeroReturn" /\ state \in {"unwrapping", "closing", "inputClosed"}
             /\ Goto(eof)
             /\ UNCHANGED <<state, timerVars, fatal>>
          \/ /\ r.res = "failed"
             /\ Enter("closed")
             /\ Goto(<<Callout, Run("channelClose")>>)
             /\ UNCHANGED fatal
    /\ UNCHANGED <<bufVars, slotVars, removed, pendingAdditional, chanVars, promise, envVars,
                   wire, histVars>>

\* Mutant of AfterCloseNotify: our half of the shutdown is left to the timeout.
AfterCloseNotifyWait == <<Run("writeDataToNetwork")>>

AfterCloseNotify == <<Run("doShutdownStep"), Run("writeDataToNetwork")>>

AfterZeroReturn ==
    /\ Running("afterZeroReturn")
    /\ LET tail == <<Callout, Run("writeDataToNetwork")>> IN
       \/ /\ ~Top.e
          /\ Goto(AfterCloseNotify)
          /\ UNCHANGED <<state, timerVars>>
       \/ /\ Top.e /\ state \in {"active", "unwrapping"}
          /\ Enter("inputClosed")
          /\ Goto(tail)
       \/ /\ Top.e /\ state = "outputClosed"   \* escalates to a full shutdown
          /\ Goto(<<Run("closeAll")>> \o tail)
          /\ UNCHANGED <<state, timerVars>>
       \/ /\ Top.e /\ state \notin {"active", "unwrapping", "outputClosed"}
          /\ Goto(tail)
          /\ UNCHANGED <<state, timerVars>>
    /\ UNCHANGED <<conn, plaintextReadBuffer, bufVars, slotVars, removed, pendingAdditional, fatal,
                   chanVars, promise, envVars, wire, histVars>>

\* Mutant of OurNewBuffer: the indices are not moved back.
OurOldBuffer(receiveBuffer) == receiveBuffer

OurNewBuffer(receiveBuffer) == <<>>

\* Nothing to deliver: with autoRead off the code also asks the channel to read on
\* (readOnEmptyBuffer), which here may read at any time.
DoFlushReadData ==
    /\ Running("doFlushReadData")
    /\ plaintextReadBuffer' = OurNewBuffer(plaintextReadBuffer)
    /\ delivered' = IF removed THEN delivered ELSE delivered \o plaintextReadBuffer
    /\ Goto(IF plaintextReadBuffer = <<>> THEN <<>> ELSE <<Callout>>)
    /\ UNCHANGED <<state, conn, bufVars, slotVars, timerVars, removed, pendingAdditional, fatal,
                   chanVars, promise, envVars, wire, evacuated, asked, writes, completions, unclean>>

-----------------------------------------------------------------------------
(***************************************************************************)
(* Events from the channel.                                                *)
(***************************************************************************)
ChannelActive ==
    /\ Idle /\ ~removed /\ channel = "registered"
    /\ channel' = "active"
    /\ stack' = <<Callout, Run("doHandshakeStep")>>
    /\ UNCHANGED <<state, conn, plaintextReadBuffer, bufVars, slotVars, timerVars, removed,
                   pendingAdditional, fatal, outputOpen, inactiveDue, promise, envVars, wire,
                   histVars>>

\* The channel never becomes active: no channelActive, no channelInactive.
ConnectFails ==
    /\ Idle /\ channel = "registered"
    /\ channel' = "closed"
    /\ UNCHANGED <<state, conn, plaintextReadBuffer, bufVars, slotVars, timerVars, removed,
                   pendingAdditional, stack, fatal, outputOpen, inactiveDue, promise, envVars,
                   wire, histVars>>

\* The connection goes away, or the handler's own close is reported: in a
\* later tick, or before context.close (or a write that fails) returns.
ChannelInactive ==
    /\ Idle \/ InNetout
    /\ ~removed
    /\ channel = "active" \/ inactiveDue
    /\ channel' = "closed" /\ inactiveDue' = FALSE
    /\ Enter("closed")
    /\ IF state \in {"closed", "idle"}
       THEN /\ stack' = <<Run("discard"), Callout>> \o stack
            /\ UNCHANGED <<shutdownPromise, closePromise, promise, unclean>>
       ELSE /\ shutdownPromise' = {} /\ closePromise' = {}
            /\ promise' = Complete(shutdownPromise \cup closePromise, "failed")
            /\ unclean' = (unclean \/ state \notin {"handshaking", "additionalVerification"})
            /\ stack' = <<Callout, Run("discard"), Callout>> \o stack
    /\ UNCHANGED <<conn, plaintextReadBuffer, bufVars, closeOutputPromise, removed,
                   pendingAdditional, fatal, outputOpen, envVars, wire, delivered, evacuated, asked,
                   writes, completions>>

\* How many records of kind k a sequence holds.
Count(s, k) == Cardinality({i \in DOMAIN s : s[i].kind = k})

\* The peer sends a flight only in answer to ours (a server to our first).
Available(i) == script[i].kind = "hs" =>
    Count(SubSeq(script, 1, i), "hs") <= Count(wire, "hs") + (IF IsClient THEN 0 ELSE 1)

AfterFeeding == CASE state = "handshaking" -> <<Run("doHandshakeStep")>>
                  [] state \in {"active", "outputClosed"}
                       -> <<Run("doDecodeData"), Run("doUnbufferActions")>>
                  [] state = "closing" -> <<Run("doDecodeData")>>
                  [] state = "unwrapping" -> <<Run("doShutdownStep")>>
                  [] OTHER -> <<Callout, Run("channelClose")>>

\* A channel reads when its event loop tells it to, never inside a call of a
\* handler: channelRead comes between events.
ChannelRead ==
    /\ Idle /\ ~removed /\ channel = "active" /\ ~inputEnded
    /\ \E k \in (pos + 1)..Len(script) :
         /\ \A i \in (pos + 1)..k : Available(i)
         /\ pos' = k
         /\ conn' = ConsumeDataFromNetwork(conn, SubSeq(script, pos + 1, k))
    /\ readPending' = TRUE
    /\ stack' = AfterFeeding
    /\ UNCHANGED <<state, plaintextReadBuffer, bufVars, slotVars, timerVars, removed,
                   pendingAdditional, fatal, chanVars, promise, inputEnded, flushes, script,
                   hostnameMatches, wire, histVars>>

ChannelReadComplete ==
    /\ Idle /\ ~removed /\ readPending
    /\ readPending' = FALSE
    /\ stack' = <<Run("doFlushReadData"), Run("writeDataToNetwork")>>
    /\ UNCHANGED <<state, conn, plaintextReadBuffer, bufVars, slotVars, timerVars, removed,
                   pendingAdditional, fatal, chanVars, promise, inputEnded, flushes, script, pos,
                   hostnameMatches, wire, histVars>>

\* userInboundInputClosedTriggered: the peer closed its half of the TCP
\* connection.  Nothing but the event changes, and the error it reports.
InputClosedTriggered ==
    /\ Idle /\ ~removed /\ channel = "active" /\ HalfClosure /\ ~inputEnded
    /\ inputEnded' = TRUE
    /\ unclean' = (unclean \/ state \notin {"inputClosed", "closed", "idle", "handshaking",
                                            "additionalVerification"})
    /\ stack' = IF state = "inputClosed" THEN <<>> ELSE <<Callout>>
    /\ UNCHANGED <<state, conn, plaintextReadBuffer, bufVars, slotVars, timerVars, removed,
                   pendingAdditional, fatal, chanVars, promise, readPending, flushes, script, pos,
                   hostnameMatches, wire, delivered, evacuated, asked, writes, completions>>

\* The channel completes a promise it was given.
ChannelFulfills ==
    /\ Idle \/ InNetout
    /\ \E q \in Promises, s \in {"succeeded", "failed"} :
         promise[q] = "handed" /\ promise' = [promise EXCEPT ![q] = s]
    /\ UNCHANGED <<state, conn, plaintextReadBuffer, bufVars, slotVars, timerVars, removed,
                   pendingAdditional, stack, fatal, chanVars, envVars, wire, histVars>>

-----------------------------------------------------------------------------
(***************************************************************************)
(* The user calls the handler, between events or from a callback.          *)
(***************************************************************************)
UserMayCall == Idle \/ (Reentrant /\ InCallout)

UserCalls(op) ==
    /\ op \in Api /\ UserMayCall
    /\ op # "stopTLS" => ~removed    \* the others reach it through the pipeline
    /\ \E q \in Promises, n \in (IF op = "write" THEN WriteSizes ELSE {0}) :
         /\ promise[q] = "unused"
         /\ promise' = [promise EXCEPT ![q] = "pending"]
         /\ asked' = [asked EXCEPT ![q] = op]
         /\ stack' = <<[Call(op, {q}) EXCEPT !.n = n]>> \o stack
    /\ UNCHANGED <<state, conn, plaintextReadBuffer, bufVars, slotVars, timerVars, removed,
                   pendingAdditional, fatal, chanVars, envVars, wire, delivered, evacuated,
                   writes, completions, unclean>>

UserFlushes ==
    /\ "flush" \in Api /\ UserMayCall /\ ~removed /\ flushes < MaxFlush
    /\ flushes' = flushes + 1
    /\ stack' = <<Run("flush")>> \o stack
    /\ UNCHANGED <<state, conn, plaintextReadBuffer, bufVars, slotVars, timerVars, removed,
                   pendingAdditional, fatal, chanVars, promise, readPending, inputEnded, script, pos,
                   hostnameMatches, wire, histVars>>

Handler == \/ WriteDataToNetwork \/ ContextClose \/ ContextCloseOutput
           \/ ChannelClose \/ ChannelCloseOutput \/ ChannelUnwrap \/ RemovalFuture
           \/ BufferWrite \/ Flush \/ Discard \/ DoUnbufferActions
           \/ InvokeCloseOutput \/ FailEncoded \/ FailCloseOutput
           \/ CloseAll \/ CloseOutput \/ StopTLS
           \/ DoShutdownStep \/ ShutdownIncomplete
           \/ DoHandshakeStep \/ HandshakeIncomplete
           \/ DoDecodeData \/ AfterZeroReturn \/ DoFlushReadData

Channel == \/ ChannelActive \/ ConnectFails \/ ChannelInactive \/ HandlerRemoved
           \/ ChannelRead \/ ChannelReadComplete \/ InputClosedTriggered \/ ChannelFulfills

User == \/ \E op \in {"write", "closeAll", "closeOutput", "stopTLS"} : UserCalls(op)
        \/ UserFlushes
        \/ CompletedAdditionalPeerCertificateVerification

Next == Handler \/ Return \/ Channel \/ User \/ ResumeHandshake \/ TimedOutShutdown

Spec == Init /\ [][Next]_vars

-----------------------------------------------------------------------------
(***************************************************************************)
(* Fairness.  The event loop runs what it has begun, and user code that it *)
(* called returns; a scheduled task runs when its time has come; a channel *)
(* reports that it is closed and completes the promises it was given.      *)
(* Nothing is assumed of the user or of the peer.                          *)
(***************************************************************************)
Fairness == /\ WF_vars(Handler) /\ WF_vars(Return)
            /\ WF_vars(TimedOutShutdown)
            /\ WF_vars(inactiveDue /\ ChannelInactive)
            /\ WF_vars(ChannelFulfills)

FairSpec == Spec /\ Fairness

-----------------------------------------------------------------------------
(***************************************************************************)
(* Properties that hold.                                                   *)
(***************************************************************************)
\* The state of the handler keeps its type through every re-entrant call; in
\* particular the mark lies within the buffer, and a task that the state
\* refers to has not run yet.
TypeOK ==
    /\ state \in States
    /\ conn \in Connection
    /\ plaintextReadBuffer \in Seq(Record)
    /\ bufferedActions \in Seq(Action) /\ marked \in 0..Len(bufferedActions)
    /\ closePromise \subseteq Promises /\ shutdownPromise \subseteq Promises
    /\ closeOutputPromise \subseteq Promises
    /\ timers \in Nat /\ scheduled \in BOOLEAN /\ (scheduled => timers > 0)
    /\ removed \in BOOLEAN /\ pendingAdditional \in Nat
    /\ stack \in Seq(Frame) /\ fatal \in Fatals
    /\ channel \in {"registered", "active", "closed"}
    /\ outputOpen \in BOOLEAN /\ inactiveDue \in BOOLEAN
    /\ readPending \in BOOLEAN /\ inputEnded \in BOOLEAN
    /\ promise \in [Promises -> PromiseStatus]
    /\ flushes \in 0..MaxFlush
    /\ script \in Seq(Record) /\ pos \in 0..Len(script) /\ hostnameMatches \in BOOLEAN
    /\ wire \in Seq(Record) /\ delivered \in Seq(Record) /\ evacuated \in Seq(Record)
    /\ writes \in Seq(Record)
    /\ asked \in [Promises -> {"nothing", "write", "closeAll", "closeOutput", "stopTLS"}]
    /\ completions \in Nat /\ unclean \in BOOLEAN

\* SSL_shutdown and the fatal alerts end our side of the stream: whatever the
\* user flushes, closes or unwraps from its callbacks, nothing is ever queued
\* or sent behind a closing alert, and none is sent twice.
CloseNotifyIsLast ==
    LET sent == wire \o conn.outbound
    IN  \A i \in DOMAIN sent : sent[i].kind \in {"closeNotify", "alert"} => i = Len(sent)

IsData(r) == r.kind = "data"

\* doDecodeData and doFlushReadData: the next handler reads the peer's data in
\* order, without gaps or repetition (its n-th piece is the n-th piece of data
\* of the peer), whatever it writes, closes or unwraps in the call-outs before
\* which plaintextReadBuffer is swapped.  (The channel reads between events, so
\* no decoding runs inside another.)
DeliveredInOrder ==
    \A n \in DOMAIN delivered : \E j \in DOMAIN script :
        /\ IsData(script[j]) /\ delivered[n] = script[j]
        /\ n = Cardinality({i \in 1..j : IsData(script[i])})

\* bufferWrite and doUnbufferActions: the slices of the user's writes reach
\* the channel in the order of the writes, none skipped, repeated or torn.
WritesInOrder ==
    \A i \in DOMAIN wire : IsData(wire[i]) =>
        LET n == Cardinality({j \in 1..i : IsData(wire[j])})
        IN  n <= Len(writes) /\ wire[i] = writes[n]

\* flattenPromises and the promise on the last slice: a write is reported as
\* successful only when every slice of it was handed to the channel.
SuccessMeansSent ==
    \A q \in Promises : promise[q] = "succeeded" =>
        \A i \in DOMAIN writes : writes[i].id = q => \E j \in DOMAIN wire : wire[j] = writes[i]

\* Flushes are buffered until the handshake, the hostname check and the
\* additional verification have succeeded: no application data leaves before.
NoDataSentBeforeTrust == completions = 0 => \A i \in DOMAIN wire : ~IsData(wire[i])

\* However verification callbacks, reads, closes and unwraps interleave,
\* handshakeCompleted is fired at most once.
HandshakeCompletesOnce == completions <= 1

\* The promises the handler can still complete.
Held == closePromise \cup shutdownPromise \cup closeOutputPromise
        \cup UNION {bufferedActions[i].p : i \in DOMAIN bufferedActions}
        \cup UNION {stack[i].p : i \in DOMAIN stack}

\* The promise of a write that is neither completed nor handed to the channel is
\* still held by a buffered action or by a call under way: none is forgotten when
\* actions are encoded, discarded or failed, whatever is called in the call-outs
\* in between.  (For the fields for closing see CloseAllCompletes.)
NoLostWrite ==
    fatal = "none" => \A q \in Promises :
        promise[q] = "pending" /\ asked[q] = "write" => q \in Held

\* Between events, a handler in .closing has not seen both close_notifys: the
\* code finishes a shutdown in the call that can, not by its timeout. (So it is
\* without half closure: with it doDecodeData takes its default branch.)
ClosingNeverStalls ==
    Idle /\ state = "closing" =>
        ~(conn.readShutdown = "closeNotify" /\ conn.writeShutdown = "closeNotify")

\* Between events, a handler that waits for the peer's close_notify has its
\* timeout armed: every way into .closing and .unwrapping schedules it, and
\* no way out and back loses it.
ShutdownHasTimeout == Idle /\ state \in {"closing", "unwrapping"} => scheduled

\* Between events, an open handler holds no flushed action: the flushes
\* buffered in the handshake are caught up when it completes.
FlushedWritesLeave == Idle /\ state \in {"active", "inputClosed", "outputClosed"} => marked = 0

\* Between reads, no ciphertext is left behind in the BIO: each operation on
\* the connection is followed by a writeDataToNetwork.  (During the additional
\* verification the last flight waits for completeHandshake.)
OutboundDrains ==
    Idle /\ ~readPending /\ channel = "active" /\ state # "additionalVerification"
        => conn.outbound = <<>>

\* Whichever way the promise of a stopTLS succeeds, TLS never began or both
\* close_notifys have passed: no timeout, error or close reports success.  The
\* exception is the code's own, "We are already unwrapped. Succeed the promise":
\* a stopTLS that finds .unwrapped succeeds, even if the unwrapping timed out.
UnwrapIsClean ==
    [][\A q \in Promises :
         asked[q] = "stopTLS" /\ promise[q] # "succeeded" /\ promise'[q] = "succeeded"
         => \/ conn.inInit
            \/ conn.readShutdown = "closeNotify" /\ conn.writeShutdown = "closeNotify"
            \/ Running("stopTLS") /\ state = "unwrapped"]_vars

\* handlerRemoved closes the connection before the removal future extracts the
\* unconsumed bytes: still, an unwrapping ended by the peer's close_notify
\* passes on exactly what was received behind it.
UnwrapPassesOnTheRest ==
    [][Running("removalFuture") /\ conn.readShutdown = "closeNotify" =>
         \E k \in 1..pos : /\ script[k].kind = "closeNotify"
                           /\ evacuated' = SubSeq(script, k + 1, pos)]_vars

\* closeOutput, at once or buffered during the handshake: between events a
\* connection whose output is closed has sent its close_notify, closed the
\* output of the channel and no longer holds the promise.
OutputClosedIsSealed ==
    Idle /\ state = "outputClosed" /\ channel = "active" =>
        conn.writeShutdown = "closeNotify" /\ ~outputOpen /\ closeOutputPromise = {}

\* No sequence of user calls between events reaches a preconditionFailure or
\* a failing assert of a handler without an additional verification.  (With one,
\* TimeoutFindsShutdown fails; calls from callbacks are not covered either.)
NoPreconditionFailure == fatal \in {"none", "loop"}

\* The promise is completed, unless UnbufferingStops is violated first: a thread
\* that spins completes nothing.
Completed(q) == promise[q] \in {"succeeded", "failed"} \/ fatal = "loop"

\* close(.all), called between events: its promise is completed in the end, by the
\* peer's answer, by an error or by the timeout, and never overwritten.
CloseAllCompletes ==
    \A q \in Promises : asked[q] = "closeAll" /\ promise[q] = "pending" ~> Completed(q)

\* stopTLS: likewise.
StopTLSCompletes ==
    \A q \in Promises : asked[q] = "stopTLS" /\ promise[q] = "pending" ~> Completed(q)

\* A shutdown that waits for a silent peer ends, with the same exception.
ShutdownEnds ==
    state \in {"closing", "unwrapping"} ~> state \in {"closed", "unwrapped"} \/ fatal = "loop"

-----------------------------------------------------------------------------
(***************************************************************************)
(* What the source says of itself and does not keep.                       *)
(***************************************************************************)
\* _encodeSingleWrite: "Ok, we can't write. Let's stop."
UnbufferingStops == fatal # "loop"

\* scheduleTimedOutShutdown: the task never finds a handler that is not
\* shutting down.
TimeoutFindsShutdown == fatal # "timerState"

\* channelInactive: "Whatever happens, we end up in the closed state here."
InactiveIsFinal ==
    [][channel = "closed" /\ ~inactiveDue /\ state = "closed" => state' = "closed"]_vars

\* close(.output): its promise, too, is completed or still held.
NoLostCloseOutput ==
    fatal = "none" => \A q \in Promises :
        promise[q] = "pending" /\ asked[q] = "closeOutput" => q \in Held
=============================================================================
