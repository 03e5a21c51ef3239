------------------------ MODULE ByteBufferBIOProofs ------------------------
(***************************************************************************)
(* ByteBufferBIO implements ByteStreams, for every allocator, every        *)
(* capacity that is preserved and every pattern of reads and writes.       *)
(*                                                                         *)
(* The inductive invariant is TypeOK, whose part about `handed' says that  *)
(* the cells the channel holds are cells of the storage.  The argument of  *)
(* the refinement is about what a write does to the bytes the channel      *)
(* holds: either none of them is in the storage, or the write goes to      *)
(* other storage.                                                          *)
(***************************************************************************)
EXTENDS ByteBufferBIO, SequenceTheorems, TLAPS

-----------------------------------------------------------------------------
(***************************************************************************)
(* Sequences.                                                              *)
(***************************************************************************)
\* Cutting a sequence of numbers.
LEMMA Cut ==
    ASSUME NEW s \in Seq(Nat), NEW a \in Nat \ {0}, NEW b \in Nat, b <= Len(s)
    PROVE  /\ SubSeq(s, a, b) \in Seq(Nat)
           /\ Len(SubSeq(s, a, b)) = IF a <= b THEN b - a + 1 ELSE 0
           /\ \A i \in 1..(b - a + 1) : SubSeq(s, a, b)[i] = s[a + i - 1]
<1>1. \A i \in a..b : s[i] \in Nat
      BY ElementOfSeq
<1>2. QED
      BY <1>1, SubSeqProperties, a \in Int, b \in Int

\* Bytes named by their position.
LEMMA BytesType ==
    ASSUME NEW f \in Nat, NEW n \in Nat
    PROVE  /\ Bytes(f, n) \in Seq(Nat) /\ Len(Bytes(f, n)) = n
           /\ \A i \in 1..n : Bytes(f, n)[i] = f + i
BY DEF Bytes

\* Joining sequences of bytes, and of bytes that the channel holds.
LEMMA JoinHeld ==
    ASSUME NEW s \in Seq(Held), NEW t \in Seq(Held)
    PROVE  /\ s \o t \in Seq(Held) /\ Len(s \o t) = Len(s) + Len(t)
           /\ \A i \in 1..Len(s) : (s \o t)[i] = s[i]
           /\ \A i \in 1..Len(t) : (s \o t)[Len(s) + i] = t[i]
OBVIOUS

LEMMA Join ==
    ASSUME NEW s \in Seq(Nat), NEW t \in Seq(Nat)
    PROVE  /\ s \o t \in Seq(Nat) /\ Len(s \o t) = Len(s) + Len(t)
           /\ \A i \in 1..Len(s) : (s \o t)[i] = s[i]
           /\ \A i \in 1..Len(t) : (s \o t)[Len(s) + i] = t[i]
OBVIOUS

\* A segment of a sequence of numbers.
LEMMA Segment ==
    ASSUME NEW s \in Seq(Nat), NEW a \in Nat, NEW b \in Nat, a <= b, b <= Len(s)
    PROVE  /\ SubSeq(s, a + 1, b) \in Seq(Nat) /\ Len(SubSeq(s, a + 1, b)) = b - a
           /\ \A i \in 1..(b - a) : SubSeq(s, a + 1, b)[i] = s[a + i]
OBVIOUS

\* What makes a sequence the concatenation of two.
LEMMA Joined ==
    ASSUME NEW s \in Seq(Nat), NEW t \in Seq(Nat), NEW u \in Seq(Nat),
           Len(u) = Len(s) + Len(t),
           \A i \in 1..Len(s) : u[i] = s[i],
           \A i \in 1..Len(t) : u[Len(s) + i] = t[i]
    PROVE  u = s \o t
<1>1. s \o t \in Seq(Nat) /\ Len(s \o t) = Len(u)
      BY Join
<1>2. ASSUME NEW i \in 1..Len(u) PROVE u[i] = (s \o t)[i]
  <2>1. CASE i \in 1..Len(s)
        BY <2>1, Join
  <2>2. CASE i \notin 1..Len(s)
    <3>1. i - Len(s) \in 1..Len(t) /\ Len(s) + (i - Len(s)) = i
          BY <2>2
    <3>2. QED
          BY <3>1, Join, SMTT(30)
  <2>3. QED
        BY <2>1, <2>2
<1>3. QED
      BY <1>1, <1>2, SeqEqual

\* What was appended to a sequence is what follows it.
LEMMA AppendedIsRest ==
    ASSUME NEW s \in Seq(Nat), NEW t \in Seq(Nat)
    PROVE  s \o t = s \o SubSeq(s \o t, Len(s) + 1, Len(s \o t))
<1> DEFINE u == s \o t
           r == SubSeq(u, Len(s) + 1, Len(u))
<1>1. /\ u \in Seq(Nat) /\ Len(u) = Len(s) + Len(t)
      /\ \A i \in 1..Len(t) : u[Len(s) + i] = t[i]
      BY Join
<1> HIDE DEF u
<1>2. r \in Seq(Nat) /\ Len(r) = Len(t) /\ \A i \in 1..Len(t) : r[i] = u[Len(s) + i]
  <2>1. Len(s) <= Len(u) /\ Len(u) - Len(s) = Len(t) /\ Len(s) \in Nat /\ Len(u) \in Nat
        BY <1>1
  <2>2. /\ r \in Seq(Nat) /\ Len(r) = Len(u) - Len(s)
        /\ \A i \in 1..(Len(u) - Len(s)) : r[i] = u[Len(s) + i]
    <3>1. \A a \in Nat : a <= Len(u) =>
              LET v == SubSeq(u, a + 1, Len(u))
              IN  v \in Seq(Nat) /\ Len(v) = Len(u) - a /\ \A i \in 1..(Len(u) - a) : v[i] = u[a + i]
          BY <1>1, <2>1, Segment
    <3>2. QED
          BY <2>1, <3>1
  <2>3. QED
        BY <2>1, <2>2
<1> HIDE DEF r
<1>3. r = t
      BY <1>1, <1>2, SeqEqual
<1>4. QED
      BY <1>3 DEF r, u

\* Overwriting what follows the first k bytes of s.
LEMMA Overwriting ==
    ASSUME NEW s \in Seq(Nat), NEW k \in Nat, k <= Len(s), NEW bs \in Seq(Nat)
    PROVE  LET all == Overwritten(s, k, bs)
           IN  /\ all \in Seq(Nat) /\ Len(all) >= k + Len(bs) /\ Len(all) >= Len(s)
               /\ \A i \in 1..k : all[i] = s[i]
               /\ \A i \in 1..Len(bs) : all[k + i] = bs[i]
<1> DEFINE front == SubSeq(s, 1, k)
           back == SubSeq(s, k + Len(bs) + 1, Len(s))
           first == front \o bs
           all == first \o back
<1>1. all = Overwritten(s, k, bs)
      BY DEF Overwritten
<1>2. front \in Seq(Nat) /\ Len(front) = k /\ \A i \in 1..k : front[i] = s[i]
      OBVIOUS
<1>3. back \in Seq(Nat) /\ Len(back) \in Nat /\ k + Len(bs) + Len(back) >= Len(s)
  <2>1. CASE k + Len(bs) + 1 <= Len(s)
    <3>1. back \in Seq(Nat) /\ Len(back) = Len(s) - (k + Len(bs) + 1) + 1
          BY <2>1
    <3>2. QED
          BY <2>1, <3>1
  <2>2. CASE ~(k + Len(bs) + 1 <= Len(s))
        BY <2>2
  <2>3. QED
        BY <2>1, <2>2
<1> HIDE DEF front, back
<1>4. /\ first \in Seq(Nat) /\ Len(first) = Len(front) + Len(bs)
      /\ \A i \in 1..Len(front) : first[i] = front[i]
      /\ \A i \in 1..Len(bs) : first[Len(front) + i] = bs[i]
      BY <1>2, Join
<1> HIDE DEF first
<1>5. /\ all \in Seq(Nat) /\ Len(all) = Len(first) + Len(back)
      /\ \A i \in 1..Len(first) : all[i] = first[i]
      BY <1>3, <1>4, Join
<1> HIDE DEF all
<1>6. Len(all) >= k + Len(bs) /\ Len(all) >= Len(s) /\ Len(front) = k /\ Len(first) = k + Len(bs)
  <2>1. Len(s) \in Nat /\ Len(bs) \in Nat
        OBVIOUS
  <2>2. Len(front) = k /\ Len(first) = k + Len(bs)
        BY <1>2, <1>4
  <2>3. Len(all) = k + Len(bs) + Len(back)
        BY <2>2, <1>5
  <2>4. QED
        BY <2>1, <2>2, <2>3, <1>3
<1>7. ASSUME NEW i \in 1..k PROVE all[i] = s[i]
  <2>1. i \in 1..Len(front) /\ i \in 1..Len(first)
        BY <1>6
  <2>2. all[i] = first[i] /\ first[i] = front[i] /\ front[i] = s[i]
        BY <2>1, <1>2, <1>4, <1>5
  <2>3. QED
        BY <2>2
<1>8. ASSUME NEW i \in 1..Len(bs) PROVE all[k + i] = bs[i]
  <2>1. k + i \in 1..(k + Len(bs))
        OBVIOUS
  <2>2. QED
        BY <2>1, <1>4, <1>5, <1>6
<1>9. QED
      BY <1>1, <1>5, <1>6, <1>7, <1>8

\* A write leaves what is in front of the writer index alone and puts the
\* bytes behind it.
LEMMA WriteBytesPutsBehind ==
    ASSUME NEW b \in Buffer, b.writer <= Len(b.bytes), NEW bs \in Seq(Nat), NEW sh,
           b.writer + Len(bs) > b.capacity => RoundUp(b.writer + Len(bs)) \in Nat
    PROVE  LET w == WriteBytes(b, sh, bs)[1]
           IN  /\ w \in Buffer
               /\ w.reader = b.reader /\ w.writer = b.writer + Len(bs)
               /\ w.capacity = IF w.writer > b.capacity THEN RoundUp(w.writer) ELSE b.capacity
               /\ Len(w.bytes) >= w.writer /\ Len(w.bytes) >= Len(b.bytes)
               /\ \A i \in 1..b.writer : w.bytes[i] = b.bytes[i]
               /\ \A i \in 1..Len(bs) : w.bytes[b.writer + i] = bs[i]
<1> DEFINE all == Overwritten(b.bytes, b.writer, bs)
           end == b.writer + Len(bs)
           w == WriteBytes(b, sh, bs)[1]
<1>1. /\ b.bytes \in Seq(Nat) /\ b.writer \in Nat /\ b.reader \in Nat /\ b.capacity \in Nat
      /\ Len(bs) \in Nat
      BY DEF Buffer
<1>2. /\ all \in Seq(Nat) /\ Len(all) >= end /\ Len(all) >= Len(b.bytes)
      /\ \A i \in 1..b.writer : all[i] = b.bytes[i]
      /\ \A i \in 1..Len(bs) : all[b.writer + i] = bs[i]
      BY <1>1, Overwriting
<1>3. w = [b EXCEPT !.bytes = all, !.writer = end,
                    !.capacity = IF end > @ THEN RoundUp(end) ELSE @]
      BY DEF WriteBytes
<1>4. end \in Nat
      BY <1>1
<1> HIDE DEF all, end, w
<1>5. /\ w.bytes = all /\ w.reader = b.reader /\ w.writer = end
      /\ w.capacity = IF end > b.capacity THEN RoundUp(end) ELSE b.capacity
      BY <1>1, <1>3 DEF Buffer
<1>6. w \in Buffer
  <2>1. end > b.capacity => RoundUp(end) \in Nat
        BY DEF end
  <2>2. QED
        BY <1>1, <1>2, <1>3, <1>4, <2>1 DEF Buffer
<1>7. QED
      BY <1>1, <1>2, <1>5, <1>6 DEF end, w

-----------------------------------------------------------------------------
(***************************************************************************)
(* One write of BoringSSL.                                                 *)
(***************************************************************************)
\* The capacities the allocator is asked for.
LEMMA Capacities ==
    ASSUME NEW n \in Nat, n <= MaxPreserved + MaxWritten \/ n <= InitialCapacity
    PROVE  /\ RoundUp(n) \in Nat /\ RoundUp(n) >= n
           /\ \A m \in 0..n : RoundUp(m) <= RoundUp(n)
<1>1. n \in 0..(InitialCapacity + MaxPreserved + Configured + MaxWritten)
      BY BIOAssumption
<1>2. QED
      BY <1>1, BIOAssumption

LEMMA AllocateType ==
    ASSUME NEW n \in Nat, RoundUp(n) \in Nat
    PROVE  /\ Allocate(n) \in Buffer /\ Allocate(n).reader = 0 /\ Allocate(n).writer = 0
           /\ Allocate(n).capacity = RoundUp(n) /\ Len(Allocate(n).bytes) = 0
BY DEF Allocate, Buffer

\* The delayed clearing keeps the buffer, or leaves an empty one that shares no
\* storage with what the channel holds.
LEMMA ClearedBuffer ==
    ASSUME TypeOK, NEW n \in Nat, written + n <= MaxWritten
    PROVE  LET c == Cleared(n)
           IN  /\ c[1] \in Buffer /\ c[2] \in BOOLEAN
               /\ c[1].reader <= c[1].writer /\ c[1].writer <= Len(c[1].bytes)
               /\ c[1].writer <= written
               /\ \/ c[1] = out /\ ~mustClearOutboundBuffer
                  \/ /\ mustClearOutboundBuffer
                     /\ c[1].reader = 0 /\ c[1].writer = 0
                     /\ c[2] \/ ~Shared
                     /\ \/ c[1].capacity = RoundUp(Larger(n, MaxPreserved))
                        \/ c[1].capacity <= MaxPreserved
<1>1. /\ out \in Buffer /\ out.reader <= out.writer /\ out.writer <= Len(out.bytes)
      /\ written \in Nat /\ out.writer <= written /\ out.capacity \in Nat /\ out.writer \in Nat
      BY BIOAssumption DEF TypeOK, Buffer
<1>2. CASE ~mustClearOutboundBuffer
  <2>1. Cleared(n) = <<out, FALSE>>
        BY <1>2 DEF Cleared
  <2>2. QED
        BY <2>1, <1>1, <1>2
<1>3. CASE mustClearOutboundBuffer /\ out.capacity > MaxPreserved
  <2> DEFINE m == Larger(n, MaxPreserved)
  <2>1. m \in Nat /\ m <= MaxPreserved + MaxWritten
        BY <1>1, BIOAssumption DEF Larger
  <2>2. RoundUp(m) \in Nat
        BY <2>1, Capacities
  <2>3. Cleared(n) = <<Allocate(m), TRUE>>
        BY <1>3 DEF Cleared
  <2> HIDE DEF m
  <2>4. /\ Allocate(m) \in Buffer /\ Allocate(m).reader = 0 /\ Allocate(m).writer = 0
        /\ Allocate(m).capacity = RoundUp(m) /\ Len(Allocate(m).bytes) = 0
        BY <2>1, <2>2, AllocateType
  <2>5. QED
        BY <1>1, <1>3, <2>3, <2>4 DEF m
<1>4. CASE mustClearOutboundBuffer /\ ~(out.capacity > MaxPreserved)
  <2> DEFINE kept == IF Shared THEN <<>> ELSE out.bytes
             b == [out EXCEPT !.bytes = kept, !.reader = 0, !.writer = 0]
  <2>1. Cleared(n) = <<b, Shared>>
        BY <1>4 DEF Cleared, Clear
  <2>2. /\ b \in Buffer /\ b.reader = 0 /\ b.writer = 0 /\ b.capacity = out.capacity
        /\ Len(b.bytes) >= 0
    <3>1. kept \in Seq(Nat)
          BY <1>1 DEF Buffer
    <3> HIDE DEF kept
    <3>2. b.bytes = kept /\ b.reader = 0 /\ b.writer = 0 /\ b.capacity = out.capacity /\ b \in Buffer
          BY <1>1, <3>1 DEF Buffer
    <3>3. QED
          BY <3>1, <3>2
  <2>3. Shared \in BOOLEAN
        BY DEF Shared
  <2> HIDE DEF b
  <2>4. out.capacity <= MaxPreserved
        BY <1>1, <1>4, BIOAssumption
  <2>5. QED
        BY <1>1, <1>4, <2>1, <2>2, <2>3, <2>4
<1>5. QED
      BY <1>2, <1>3, <1>4

\* A write of n > 0 bytes to the open BIO appends them to what outboundCiphertext
\* will hand on, and changes nothing the channel holds.
LEMMA WriteAppends ==
    ASSUME TypeOK, NEW n \in Nat \ {0}, BIOWrite(n), open
    PROVE  /\ TypeOK'
           /\ HeldBytes' = HeldBytes
           /\ Readable' = Readable \o Bytes(written, n)
<1> DEFINE c == Cleared(n)
           bs == Bytes(written, n)
           w == WriteBytes(c[1], Shared /\ ~c[2], bs)
<1>1. /\ written \in Nat /\ written + n <= MaxWritten /\ n \in Nat
      /\ out' = w[1] /\ handed' = (IF c[2] \/ w[2] THEN Detached ELSE handed)
      /\ rc' = n /\ retryRead' = FALSE /\ written' = written + n
      /\ UNCHANGED <<inboundBuffer, inboundNil, sent, open, received>>
      BY BIOAssumption DEF TypeOK, BIOWrite, Buffer
<1>2. bs \in Seq(Nat) /\ Len(bs) = n
      BY <1>1, BytesType
<1>3. /\ c[1] \in Buffer /\ c[2] \in BOOLEAN
      /\ c[1].reader <= c[1].writer /\ c[1].writer <= Len(c[1].bytes)
      /\ c[1].writer <= written
      /\ \/ c[1] = out /\ ~mustClearOutboundBuffer
         \/ /\ mustClearOutboundBuffer
            /\ c[1].reader = 0 /\ c[1].writer = 0
            /\ c[2] \/ ~Shared
      BY <1>1, ClearedBuffer
<1>4. w[2] = (Shared /\ ~c[2])
      BY DEF WriteBytes
<1> HIDE DEF c, bs, w
<1>5. c[1].bytes \in Seq(Nat) /\ c[1].reader \in Nat /\ c[1].writer \in Nat /\ c[1].capacity \in Nat
      BY <1>3 DEF Buffer
<1>6. RoundUp(c[1].writer + n) \in Nat
  <2>1. c[1].writer + n \in Nat /\ c[1].writer + n <= MaxPreserved + MaxWritten
        BY <1>1, <1>3, <1>5, BIOAssumption, SMTT(30)
  <2>2. QED
        BY <2>1, Capacities
<1>7. /\ w[1] \in Buffer
      /\ w[1].reader = c[1].reader /\ w[1].writer = c[1].writer + n
      /\ Len(w[1].bytes) >= w[1].writer /\ Len(w[1].bytes) >= Len(c[1].bytes)
      /\ \A i \in 1..c[1].writer : w[1].bytes[i] = c[1].bytes[i]
      /\ \A i \in 1..n : w[1].bytes[c[1].writer + i] = bs[i]
  <2> DEFINE b == c[1]
  <2>1. b \in Buffer /\ b.writer <= Len(b.bytes)
        BY <1>3
  <2>2. b.writer + Len(bs) > b.capacity => RoundUp(b.writer + Len(bs)) \in Nat
        BY <1>2, <1>6
  <2>3. \A sh : LET v == WriteBytes(b, sh, bs)[1]
                IN  /\ v \in Buffer
                    /\ v.reader = b.reader /\ v.writer = b.writer + Len(bs)
                    /\ Len(v.bytes) >= v.writer /\ Len(v.bytes) >= Len(b.bytes)
                    /\ \A i \in 1..b.writer : v.bytes[i] = b.bytes[i]
                    /\ \A i \in 1..Len(bs) : v.bytes[b.writer + i] = bs[i]
    <3> HIDE DEF b
    <3>1. QED
          BY <1>2, <2>1, <2>2, WriteBytesPutsBehind
  <2>4. QED
        BY <1>2, <2>3 DEF w
<1>8. /\ out.bytes \in Seq(Nat) /\ handed \in Seq(Held) /\ Len(handed) \in Nat
      /\ \A i \in 1..Len(handed) :
            /\ handed[i] \in Held /\ Value(handed[i], out.bytes) \in Nat
            /\ handed[i].shared => handed[i].cell \in 1..Len(out.bytes)
  <2>1. out.bytes \in Seq(Nat) /\ handed \in Seq(Held) /\ Len(handed) \in Nat
        BY DEF TypeOK, Buffer
  <2>2. ASSUME NEW i \in 1..Len(handed)
        PROVE  /\ handed[i] \in Held /\ Value(handed[i], out.bytes) \in Nat
               /\ handed[i].shared => handed[i].cell \in 1..Len(out.bytes)
    <3>1. handed[i] \in Held
          BY <2>1, ElementOfSeq
    <3>2. handed[i].shared => handed[i].cell \in 1..Len(out.bytes)
          BY DEF TypeOK
    <3>3. QED
          BY <2>1, <3>1, <3>2 DEF Held, Value
  <2>3. QED
        BY <2>1, <2>2
<1>9. \/ handed' = Detached
      \/ handed' = handed /\ \A i \in 1..Len(handed) : handed[i].shared = FALSE
  <2>1. CASE c[2] \/ w[2]
        BY <1>1, <2>1
  <2>2. CASE ~(c[2] \/ w[2])
    <3>1. ~Shared /\ handed' = handed
          BY <1>1, <1>3, <1>4, <2>2
    <3>2. QED
          BY <3>1, <1>8 DEF Shared, Held
  <2>3. QED
        BY <2>1, <2>2
<1>10. /\ handed' \in Seq(Held) /\ Len(handed') = Len(handed)
       /\ \A i \in 1..Len(handed) : handed'[i].shared = FALSE /\ handed'[i].cell = Value(handed[i], out.bytes)
  <2>1. CASE handed' = Detached
    <3>1. \A i \in 1..Len(handed) : [shared |-> FALSE, cell |-> Value(handed[i], out.bytes)] \in Held
          BY <1>8 DEF Held
    <3>2. QED
          BY <1>8, <2>1, <3>1 DEF Detached
  <2>2. CASE handed' = handed /\ \A i \in 1..Len(handed) : handed[i].shared = FALSE
        BY <1>8, <2>2 DEF Value
  <2>3. QED
        BY <1>9, <2>1, <2>2
<1>11. TypeOK'
  <2>1. /\ out' \in Buffer /\ out'.reader <= out'.writer /\ out'.writer <= Len(out'.bytes)
        /\ written' \in out'.writer..MaxWritten
    <3>1. /\ out' \in Buffer /\ out'.writer = c[1].writer + n /\ out'.reader = c[1].reader
          /\ Len(out'.bytes) >= out'.writer
          BY <1>1, <1>7
    <3>2. /\ c[1].reader <= c[1].writer + n /\ written + n <= MaxWritten
          /\ c[1].writer + n <= written + n /\ written + n \in Nat /\ c[1].writer + n \in Nat
          BY <1>1, <1>3, <1>5, SMTT(30)
    <3>3. out'.writer <= Len(out'.bytes)
          BY <3>1, <3>2 DEF Buffer
    <3>4. written' \in out'.writer..MaxWritten
          BY <1>1, <3>1, <3>2, BIOAssumption
    <3>5. QED
          BY <3>1, <3>2, <3>3, <3>4
  <2>2. \A i \in 1..Len(handed') : handed'[i].shared => handed'[i].cell \in 1..Len(out'.bytes)
        BY <1>10
  <2>3. /\ inboundBuffer' \in Seq(Nat) /\ inboundNil' \in BOOLEAN /\ sent' \in Seq(Nat)
        /\ open' \in BOOLEAN /\ retryRead' \in BOOLEAN /\ received' \in Nat
        BY <1>1 DEF TypeOK
  <2>4. rc' \in Int
        BY <1>1
  <2>5. QED
        BY <1>10, <2>1, <2>2, <2>3, <2>4 DEF TypeOK
<1>12. HeldBytes' = HeldBytes
  <2>1. ASSUME NEW i \in 1..Len(handed) PROVE Value(handed'[i], out'.bytes) = Value(handed[i], out.bytes)
        BY <1>10, <2>1 DEF Value
  <2>2. QED
        BY <1>8, <1>10, <2>1 DEF HeldBytes
<1>13. Readable' = Readable \o bs
  <2> DEFINE r == out.reader
             k == out.writer
  <2>1. /\ r \in Nat /\ k \in Nat /\ r <= k /\ k <= Len(out.bytes)
        /\ out' \in Buffer /\ out'.bytes \in Seq(Nat) /\ out'.writer \in Nat /\ out'.reader \in Nat
        /\ out'.reader <= out'.writer /\ out'.writer <= Len(out'.bytes)
        BY <1>11 DEF TypeOK, Buffer
  <2> out.bytes \in Seq(Nat)
        BY DEF TypeOK, Buffer
  <2>2. /\ Readable \in Seq(Nat) /\ Len(Readable) = k - r
        /\ \A i \in 1..(k - r) : Readable[i] = out.bytes[r + i]
        BY <2>1, Segment DEF Readable
  <2>3. /\ Readable' \in Seq(Nat) /\ Len(Readable') = out'.writer - out'.reader
        /\ \A i \in 1..(out'.writer - out'.reader) : Readable'[i] = out'.bytes[out'.reader + i]
    <3> DEFINE bytes == out'.bytes
               reader == out'.reader
               writer == out'.writer
    <3>1. /\ bytes \in Seq(Nat) /\ reader \in Nat /\ writer \in Nat
          /\ reader <= writer /\ writer <= Len(bytes)
          BY <2>1
    <3>2. Readable' = SubSeq(bytes, reader + 1, writer)
          BY DEF Readable
    <3> HIDE DEF bytes, reader, writer
    <3>3. /\ SubSeq(bytes, reader + 1, writer) \in Seq(Nat)
          /\ Len(SubSeq(bytes, reader + 1, writer)) = writer - reader
          /\ \A i \in 1..(writer - reader) : SubSeq(bytes, reader + 1, writer)[i] = bytes[reader + i]
          BY <3>1, Segment
    <3>4. QED
          BY <3>2, <3>3 DEF bytes, reader, writer
  <2>4. CASE c[1] = out /\ ~mustClearOutboundBuffer
    <3>1. /\ out'.reader = r /\ out'.writer = k + n
          /\ \A i \in 1..k : out'.bytes[i] = out.bytes[i]
          /\ \A i \in 1..n : out'.bytes[k + i] = bs[i]
          BY <1>1, <1>7, <2>4
    <3> HIDE DEF r, k
    <3>2. /\ Len(Readable') = k - r + n
          /\ \A i \in 1..(k - r + n) : Readable'[i] = out'.bytes[r + i]
      <4>1. out'.writer - out'.reader = k - r + n
            BY <2>1, <3>1
      <4>2. QED
            BY <2>3, <3>1, <4>1
    <3>3. ASSUME NEW i \in 1..(k - r) PROVE Readable'[i] = Readable[i]
      <4>1. r + i \in 1..k /\ i \in 1..(k - r + n)
            BY <2>1
      <4>2. QED
            BY <4>1, <2>2, <3>1, <3>2
    <3>4. ASSUME NEW i \in 1..n PROVE Readable'[k - r + i] = bs[i]
      <4>1. r + (k - r + i) = k + i /\ k - r + i \in 1..(k - r + n)
            BY <2>1
      <4>2. QED
            BY <4>1, <3>1, <3>2
    <3>5. /\ Len(Readable') = Len(Readable) + Len(bs)
          /\ \A i \in 1..Len(Readable) : Readable'[i] = Readable[i]
          /\ \A i \in 1..Len(bs) : Readable'[Len(Readable) + i] = bs[i]
          BY <1>2, <2>2, <3>2, <3>3, <3>4
    <3>6. QED
          BY <1>2, <2>2, <2>3, <3>5, Joined
  <2>5. CASE mustClearOutboundBuffer /\ c[1].reader = 0 /\ c[1].writer = 0
    <3>1. r = k /\ Len(Readable) = 0
          BY <2>1, <2>2, <2>5 DEF mustClearOutboundBuffer
    <3>2. out'.reader = 0 /\ out'.writer = n /\ \A i \in 1..n : out'.bytes[i] = bs[i]
          BY <1>1, <1>7, <2>5
    <3>3. Len(Readable') = n /\ \A i \in 1..n : Readable'[i] = bs[i]
          BY <2>3, <3>2
    <3>4. QED
          BY <1>2, <2>2, <2>3, <3>1, <3>3, Joined
  <2>6. QED
        BY <1>3, <2>4, <2>5
<1>14. QED
       BY <1>11, <1>12, <1>13 DEF bs

-----------------------------------------------------------------------------
(***************************************************************************)
(* The other steps.                                                        *)
(***************************************************************************)
\* What the channel holds are bytes.
LEMMA HeldType ==
    ASSUME NEW hs \in Seq(Held), NEW s \in Seq(Nat),
           \A i \in 1..Len(hs) : hs[i].shared => hs[i].cell \in 1..Len(s)
    PROVE  LET bs == [i \in 1..Len(hs) |-> Value(hs[i], s)]
           IN  bs \in Seq(Nat) /\ Len(bs) = Len(hs) /\ \A i \in 1..Len(hs) : bs[i] = Value(hs[i], s)
<1>1. ASSUME NEW i \in 1..Len(hs) PROVE Value(hs[i], s) \in Nat
  <2>1. hs[i] \in Held
        BY ElementOfSeq
  <2>2. QED
        BY <2>1 DEF Held, Value
<1>2. QED
      BY <1>1

\* The two parts of the pipe, and the part of TypeOK they depend on.
PipeOK(hs, b) ==
    /\ b.bytes \in Seq(Nat) /\ b.reader \in Nat /\ b.writer \in Nat
    /\ b.reader <= b.writer /\ b.writer <= Len(b.bytes)
    /\ hs \in Seq(Held)
    /\ \A i \in 1..Len(hs) : hs[i].shared => hs[i].cell \in 1..Len(b.bytes)

LEMMA PipeType ==
    ASSUME NEW hs, NEW b, PipeOK(hs, b)
    PROVE  LET held == [i \in 1..Len(hs) |-> Value(hs[i], b.bytes)]
               rest == SubSeq(b.bytes, b.reader + 1, b.writer)
           IN  /\ held \in Seq(Nat) /\ Len(held) = Len(hs)
               /\ \A i \in 1..Len(hs) : held[i] = Value(hs[i], b.bytes)
               /\ rest \in Seq(Nat) /\ Len(rest) = b.writer - b.reader
               /\ \A i \in 1..(b.writer - b.reader) : rest[i] = b.bytes[b.reader + i]
BY HeldType, Segment DEF PipeOK

LEMMA TypedPipe ==
    ASSUME TypeOK
    PROVE  PipeOK(handed, out)
BY DEF TypeOK, PipeOK, Buffer

\* The cells of n bytes behind the first r.
LEMMA CellsType ==
    ASSUME NEW n \in Nat, NEW r \in Nat
    PROVE  LET cells == [i \in 1..n |-> [shared |-> TRUE, cell |-> r + i]]
           IN  cells \in Seq(Held) /\ Len(cells) = n
<1>1. \A i \in 1..n : [shared |-> TRUE, cell |-> r + i] \in Held
      BY DEF Held
<1>2. QED
      BY <1>1

\* outboundCiphertext moves bytes from the buffer to the channel: the pipe as a
\* whole is what it was.
LEMMA HandOverKeepsPipe ==
    ASSUME TypeOK, OutboundCiphertext
    PROVE  TypeOK' /\ (HeldBytes \o Readable)' = HeldBytes \o Readable
<1> DEFINE r == out.reader
           k == out.writer
           cells == [i \in 1..(k - r) |-> [shared |-> TRUE, cell |-> r + i]]
<1>1. /\ out \in Buffer /\ out.bytes \in Seq(Nat) /\ r \in Nat /\ k \in Nat /\ r <= k /\ k <= Len(out.bytes)
      /\ handed \in Seq(Held)
      BY DEF TypeOK, Buffer
<1>2. /\ handed' = handed \o cells /\ out' = [out EXCEPT !.reader = k]
      /\ UNCHANGED <<inboundBuffer, inboundNil, sent, open, retryRead, rc, written, received>>
      BY DEF OutboundCiphertext
<1>3. cells \in Seq(Held) /\ Len(cells) = k - r
  <2>1. k - r \in Nat
        BY <1>1
  <2>2. QED
        BY <1>1, <2>1, CellsType
<1>4. \A i \in 1..(k - r) : cells[i].shared = TRUE /\ cells[i].cell = r + i
      OBVIOUS
<1> HIDE DEF cells
<1>5. /\ handed' \in Seq(Held) /\ Len(handed') = Len(handed) + (k - r)
      /\ \A i \in 1..Len(handed) : handed'[i] = handed[i]
      /\ \A i \in 1..(k - r) : handed'[Len(handed) + i] = cells[i]
  <2>1. /\ handed' \in Seq(Held) /\ Len(handed') = Len(handed) + Len(cells)
        /\ \A i \in 1..Len(handed) : handed'[i] = handed[i]
        /\ \A i \in 1..Len(cells) : handed'[Len(handed) + i] = cells[i]
        BY <1>1, <1>2, <1>3, JoinHeld
  <2>2. QED
        BY <1>3, <2>1
<1>6. out' \in Buffer /\ out'.bytes = out.bytes /\ out'.reader = k /\ out'.writer = k
      BY <1>1, <1>2 DEF Buffer
<1>7. ASSUME NEW i \in 1..Len(handed')
      PROVE  handed'[i].shared => handed'[i].cell \in 1..Len(out.bytes)
  <2>1. CASE i \in 1..Len(handed)
    <3>1. handed[i].shared => handed[i].cell \in 1..Len(out.bytes)
          BY <2>1 DEF TypeOK
    <3>2. QED
          BY <2>1, <3>1, <1>5
  <2>2. CASE i \notin 1..Len(handed)
    <3>1. i - Len(handed) \in 1..(k - r) /\ i = Len(handed) + (i - Len(handed))
          BY <1>1, <1>5, <2>2
    <3>2. handed'[i].cell = r + (i - Len(handed))
          BY <1>4, <1>5, <3>1
    <3>3. QED
          BY <1>1, <3>1, <3>2
  <2>3. QED
        BY <2>1, <2>2
<1>8. TypeOK'
      BY <1>1, <1>2, <1>5, <1>6, <1>7, SMTT(30) DEF TypeOK
<1>9. PipeOK(handed, out) /\ PipeOK(handed', out')
      BY <1>1, <1>5, <1>6, <1>7, TypedPipe DEF PipeOK
<1>10. /\ HeldBytes \in Seq(Nat) /\ Len(HeldBytes) = Len(handed)
       /\ \A i \in 1..Len(handed) : HeldBytes[i] = Value(handed[i], out.bytes)
       /\ Readable \in Seq(Nat) /\ Len(Readable) = k - r
       /\ \A i \in 1..(k - r) : Readable[i] = out.bytes[r + i]
      BY <1>9, PipeType DEF HeldBytes, Readable
<1>11. /\ HeldBytes' \in Seq(Nat) /\ Len(HeldBytes') = Len(handed')
       /\ \A i \in 1..Len(handed') : HeldBytes'[i] = Value(handed'[i], out'.bytes)
       /\ Readable' \in Seq(Nat) /\ Len(Readable') = out'.writer - out'.reader
      BY <1>9, PipeType DEF HeldBytes, Readable
<1>12. HeldBytes' = HeldBytes \o Readable
  <2>1. Len(HeldBytes') = Len(HeldBytes) + Len(Readable)
        BY <1>5, <1>10, <1>11
  <2>2. ASSUME NEW i \in 1..Len(HeldBytes) PROVE HeldBytes'[i] = HeldBytes[i]
    <3>1. i \in 1..Len(handed) /\ i \in 1..Len(handed')
          BY <1>1, <1>5, <1>10
    <3>2. QED
          BY <3>1, <1>5, <1>6, <1>10, <1>11
  <2>3. ASSUME NEW i \in 1..Len(Readable) PROVE HeldBytes'[Len(HeldBytes) + i] = Readable[i]
    <3>1. i \in 1..(k - r) /\ Len(handed) + i \in 1..Len(handed')
          BY <1>1, <1>5, <1>10, SMTT(30)
    <3>2. handed'[Len(handed) + i] = cells[i] /\ cells[i].shared = TRUE /\ cells[i].cell = r + i
          BY <3>1, <1>4, <1>5
    <3>3. HeldBytes'[Len(handed) + i] = out.bytes[r + i]
          BY <3>1, <3>2, <1>6, <1>11 DEF Value
    <3>4. QED
          BY <3>1, <3>3, <1>10
  <2>4. QED
        BY <2>1, <2>2, <2>3, <1>10, <1>11, Joined
<1>13. Readable' = <<>>
      BY <1>6, <1>1, <1>11
<1>14. HeldBytes' \o Readable' = HeldBytes \o Readable
      BY <1>11, <1>12, <1>13, ConcatEmptySeq
<1>15. QED
      BY <1>8, <1>14

\* The socket takes the first bytes of the pipe.
LEMMA SocketTakesFirst ==
    ASSUME TypeOK, NEW n \in 1..Len(handed), SocketTakes(n)
    PROVE  /\ TypeOK'
           /\ SubSeq(HeldBytes, 1, n) = SubSeq(HeldBytes \o Readable, 1, n)
           /\ (HeldBytes \o Readable)' = SubSeq(HeldBytes \o Readable, n + 1, Len(HeldBytes \o Readable))
           /\ n \in 1..Len(HeldBytes \o Readable)
<1> DEFINE h == Len(handed)
           pipe == HeldBytes \o Readable
<1>1. PipeOK(handed, out) /\ handed \in Seq(Held) /\ h \in Nat /\ sent \in Seq(Nat)
      BY TypedPipe DEF TypeOK
<1>2. /\ HeldBytes \in Seq(Nat) /\ Len(HeldBytes) = h
      /\ \A i \in 1..h : HeldBytes[i] = Value(handed[i], out.bytes)
      /\ Readable \in Seq(Nat) /\ Len(Readable) \in Nat
      BY <1>1, PipeType DEF HeldBytes, Readable
<1>3. /\ handed' \in Seq(Held) /\ Len(handed') = h - n
      /\ \A i \in 1..(h - n) : handed'[i] = handed[n + i]
  <2>1. handed' = SubSeq(handed, n + 1, h)
        BY DEF SocketTakes
  <2>2. QED
        BY <1>1, <2>1
<1>u. UNCHANGED <<inboundBuffer, inboundNil, out, open, retryRead, rc, written, received>>
      BY DEF SocketTakes
<1>4. PipeOK(handed', out')
  <2>1. ASSUME NEW i \in 1..Len(handed')
        PROVE  handed'[i].shared => handed'[i].cell \in 1..Len(out.bytes)
    <3>1. n + i \in 1..h /\ handed'[i] = handed[n + i]
          BY <1>1, <1>3
    <3>2. QED
          BY <1>1, <3>1 DEF PipeOK
  <2>2. QED
        BY <1>1, <1>3, <1>u, <2>1 DEF PipeOK
<1>5. /\ HeldBytes' \in Seq(Nat) /\ Len(HeldBytes') = h - n
      /\ \A i \in 1..(h - n) : HeldBytes'[i] = HeldBytes[n + i]
  <2>1. /\ HeldBytes' \in Seq(Nat) /\ Len(HeldBytes') = Len(handed')
        /\ \A i \in 1..Len(handed') : HeldBytes'[i] = Value(handed'[i], out'.bytes)
        BY <1>4, PipeType DEF HeldBytes
  <2>2. ASSUME NEW i \in 1..(h - n) PROVE HeldBytes'[i] = HeldBytes[n + i]
    <3>1. n + i \in 1..h
          BY <1>1
    <3>2. QED
          BY <3>1, <2>1, <1>2, <1>3, <1>u
  <2>3. QED
        BY <1>3, <2>1, <2>2
<1>6. Readable' = Readable
      BY <1>u DEF Readable
<1>7. /\ SubSeq(HeldBytes, 1, n) \in Seq(Nat)
      BY <1>1, <1>2
<1>8. sent' \in Seq(Nat)
  <2>1. sent' = sent \o SubSeq(HeldBytes, 1, n)
        BY DEF SocketTakes
  <2>2. QED
        BY <1>1, <1>7, <2>1, Join
<1>9. TypeOK'
      BY <1>3, <1>4, <1>8, <1>u DEF TypeOK, PipeOK
<1> HIDE DEF pipe
<1>10. /\ pipe \in Seq(Nat) /\ Len(pipe) = h + Len(Readable)
       /\ \A i \in 1..h : pipe[i] = HeldBytes[i]
       /\ \A i \in 1..Len(Readable) : pipe[h + i] = Readable[i]
  <2>1. /\ pipe \in Seq(Nat) /\ Len(pipe) = Len(HeldBytes) + Len(Readable)
        /\ \A i \in 1..Len(HeldBytes) : pipe[i] = HeldBytes[i]
        /\ \A i \in 1..Len(Readable) : pipe[Len(HeldBytes) + i] = Readable[i]
        BY <1>2, Join DEF pipe
  <2>2. QED
        BY <1>2, <2>1
<1>11. SubSeq(HeldBytes, 1, n) = SubSeq(pipe, 1, n)
  <2> DEFINE s == SubSeq(HeldBytes, 1, n)
             t == SubSeq(pipe, 1, n)
  <2>1. s \in Seq(Nat) /\ Len(s) = n /\ \A i \in 1..n : s[i] = HeldBytes[i]
        BY <1>1, <1>2
  <2>2. t \in Seq(Nat) /\ Len(t) = n /\ \A i \in 1..n : t[i] = pipe[i]
    <3>1. n <= Len(pipe) /\ n \in Nat
          BY <1>1, <1>2, <1>10
    <3>2. QED
          BY <1>10, <3>1
  <2> HIDE DEF s, t
  <2>3. ASSUME NEW i \in 1..n PROVE s[i] = t[i]
    <3>1. i \in 1..h
          BY <1>1
    <3>2. QED
          BY <3>1, <1>10, <2>1, <2>2
  <2>4. s = t
        BY <2>1, <2>2, <2>3, SeqEqual
  <2>5. QED
        BY <2>4 DEF s, t
<1>12. HeldBytes' \o Readable = SubSeq(pipe, n + 1, Len(pipe))
  <2> DEFINE u == SubSeq(pipe, n + 1, Len(pipe))
  <2>1. /\ u \in Seq(Nat) /\ Len(u) = h - n + Len(Readable)
        /\ \A i \in 1..(h - n + Len(Readable)) : u[i] = pipe[n + i]
        BY <1>1, <1>2, <1>10, SMTT(30)
  <2> HIDE DEF u
  <2>2. ASSUME NEW i \in 1..(h - n) PROVE u[i] = HeldBytes'[i]
    <3>1. n + i \in 1..h /\ i \in 1..(h - n + Len(Readable))
          BY <1>1, <1>2
    <3>2. QED
          BY <3>1, <2>1, <1>5, <1>10
  <2>3. ASSUME NEW i \in 1..Len(Readable) PROVE u[h - n + i] = Readable[i]
    <3>1. h - n + i \in 1..(h - n + Len(Readable)) /\ n + (h - n + i) = h + i
          BY <1>1, <1>2
    <3>2. QED
          BY <3>1, <2>1, <1>10
  <2>4. /\ Len(u) = Len(HeldBytes') + Len(Readable)
        /\ \A i \in 1..Len(HeldBytes') : u[i] = HeldBytes'[i]
        /\ \A i \in 1..Len(Readable) : u[Len(HeldBytes') + i] = Readable[i]
        BY <1>5, <2>1, <2>2, <2>3
  <2>5. u = HeldBytes' \o Readable
        BY <1>2, <1>5, <2>1, <2>4, Joined
  <2>6. QED
        BY <2>5 DEF u
<1>13. n \in 1..Len(pipe)
      BY <1>1, <1>2, <1>10
<1>14. QED
      BY <1>6, <1>9, <1>11, <1>12, <1>13 DEF pipe

-----------------------------------------------------------------------------
(***************************************************************************)
(* The theorems.                                                           *)
(***************************************************************************)
\* The inbound side.
LEMMA ReceiveAppends ==
    ASSUME TypeOK, NEW n \in Nat, ReceiveFromNetwork(n)
    PROVE  TypeOK' /\ inboundBuffer' = inboundBuffer \o Bytes(received, n)
<1>1. Bytes(received, n) \in Seq(Nat) /\ inboundBuffer \in Seq(Nat) /\ received \in Nat
      BY BytesType DEF TypeOK
<1>2. /\ inboundBuffer' = inboundBuffer \o Bytes(received, n)
      /\ inboundNil' = FALSE /\ received' = received + n
      /\ UNCHANGED <<out, handed, sent, open, retryRead, rc, written>>
      BY DEF ReceiveFromNetwork
<1>3. inboundBuffer' \in Seq(Nat) /\ received' \in Nat
      BY <1>1, <1>2, Join
<1>4. inboundNil' \in BOOLEAN
      BY <1>2
<1>5. QED
      BY <1>2, <1>3, <1>4 DEF TypeOK

\* A read takes bytes off the front of inboundBuffer, or leaves it alone.
LEMMA ReadTakesFirst ==
    ASSUME TypeOK, NEW n \in Nat, BIORead(n)
    PROVE  /\ TypeOK' /\ UNCHANGED <<out, handed, sent>>
           /\ \/ inboundBuffer' = inboundBuffer
              \/ \E m \in 1..Len(inboundBuffer) :
                     inboundBuffer' = SubSeq(inboundBuffer, m + 1, Len(inboundBuffer))
<1>1. inboundBuffer \in Seq(Nat) /\ Len(inboundBuffer) \in Nat
      BY DEF TypeOK
<1>2. UNCHANGED <<out, handed, sent, open, written, received>>
      BY DEF BIORead
<1>3. CASE ~(open /\ n > 0 /\ ~inboundNil)
  <2>1. UNCHANGED <<inboundBuffer, inboundNil>>
        BY <1>3 DEF BIORead
  <2>2. rc' \in Int
        BY <1>3 DEF BIORead, TypeOK
  <2>3. retryRead' \in BOOLEAN
        BY <1>3 DEF BIORead, TypeOK
  <2>4. QED
        BY <1>2, <2>1, <2>2, <2>3 DEF TypeOK
<1>4. CASE open /\ n > 0 /\ ~inboundNil
  <2> DEFINE m == Smaller(n, Len(inboundBuffer))
  <2>1. m \in 0..Len(inboundBuffer)
        BY <1>1 DEF Smaller
  <2>2. /\ rc' = m /\ retryRead' = FALSE
        /\ inboundBuffer' = SubSeq(inboundBuffer, m + 1, Len(inboundBuffer))
        /\ inboundNil' = (m = Len(inboundBuffer))
        BY <1>4 DEF BIORead
  <2> HIDE DEF m
  <2>3. rc' \in Int /\ inboundBuffer' \in Seq(Nat)
        BY <1>1, <2>1, <2>2
  <2>4. retryRead' \in BOOLEAN /\ inboundNil' \in BOOLEAN
        BY <2>2
  <2>5. TypeOK'
        BY <1>2, <2>3, <2>4 DEF TypeOK
  <2>6. CASE m = 0
    <3>1. inboundBuffer' = SubSeq(inboundBuffer, 1, Len(inboundBuffer))
          BY <2>2, <2>6
    <3>2. QED
          BY <1>1, <1>2, <2>5, <3>1, SubSeqFull
  <2>7. CASE m # 0
        BY <1>2, <2>1, <2>2, <2>5, <2>7
  <2>8. QED
        BY <2>6, <2>7
<1>5. QED
      BY <1>3, <1>4

\* evacuateInboundData takes all of it.
LEMMA EvacuateTakesAll ==
    ASSUME TypeOK, EvacuateInboundData
    PROVE  /\ TypeOK' /\ UNCHANGED <<out, handed, sent>>
           /\ \/ inboundBuffer' = inboundBuffer
              \/ \E m \in 1..Len(inboundBuffer) :
                     inboundBuffer' = SubSeq(inboundBuffer, m + 1, Len(inboundBuffer))
<1>1. inboundBuffer \in Seq(Nat) /\ Len(inboundBuffer) \in Nat
      BY DEF TypeOK
<1>2. /\ inboundBuffer' = <<>> /\ inboundNil' = TRUE
      /\ UNCHANGED <<out, handed, sent, open, retryRead, rc, written, received>>
      BY DEF EvacuateInboundData
<1>3. TypeOK'
  <2>1. inboundBuffer' \in Seq(Nat)
        BY <1>2
  <2>2. inboundNil' \in BOOLEAN
        BY <1>2
  <2>3. QED
        BY <1>2, <2>1, <2>2 DEF TypeOK
<1>4. CASE Len(inboundBuffer) = 0
  <2>1. inboundBuffer = <<>>
        BY <1>1, <1>4
  <2>2. QED
        BY <1>2, <1>3, <2>1
<1>5. CASE Len(inboundBuffer) # 0
  <2>1. Len(inboundBuffer) \in 1..Len(inboundBuffer)
        BY <1>1, <1>5
  <2>2. SubSeq(inboundBuffer, Len(inboundBuffer) + 1, Len(inboundBuffer)) = <<>>
        BY <1>1, SubSeqEmpty
  <2>3. QED
        BY <1>2, <1>3, <2>1, <2>2
<1>6. QED
      BY <1>4, <1>5

LEMMA TypeInit ==
    ASSUME Init PROVE TypeOK
<1>1. RoundUp(InitialCapacity) \in Nat /\ InitialCapacity \in Nat
      BY BIOAssumption, Capacities
<1>2. /\ out \in Buffer /\ out.reader = 0 /\ out.writer = 0 /\ Len(out.bytes) = 0
      BY <1>1, AllocateType DEF Init
<1>3. handed \in Seq(Held) /\ Len(handed) = 0 /\ sent \in Seq(Nat) /\ inboundBuffer \in Seq(Nat)
      BY DEF Init
<1>4. written \in out.writer..MaxWritten /\ rc \in Int /\ received \in Nat
      BY <1>2, BIOAssumption DEF Init
<1>5. open \in BOOLEAN /\ retryRead \in BOOLEAN /\ inboundNil \in BOOLEAN
      BY DEF Init
<1>6. out.reader <= out.writer /\ out.writer <= Len(out.bytes)
      BY <1>2
<1>7. \A i \in 1..Len(handed) : handed[i].shared => handed[i].cell \in 1..Len(out.bytes)
      BY <1>3
<1>8. QED
      BY <1>2, <1>3, <1>4, <1>5, <1>6, <1>7 DEF TypeOK

\* What a write does that is not of n > 0 bytes to an open BIO.
LEMMA WriteIdle ==
    ASSUME TypeOK, NEW n \in Nat, BIOWrite(n), ~(open /\ n > 0)
    PROVE  TypeOK' /\ UNCHANGED <<inboundBuffer, out, handed, sent>>
<1>1. UNCHANGED <<out, handed, written, inboundBuffer, inboundNil, sent, open, received>>
      BY DEF BIOWrite
<1>2. rc' \in Int
      BY DEF BIOWrite
<1>3. retryRead' \in BOOLEAN
      BY DEF BIOWrite, TypeOK
<1>4. QED
      BY <1>1, <1>2, <1>3 DEF TypeOK

\* Every step keeps the types, and does one of five things to the streams.
LEMMA Steps ==
    ASSUME TypeOK, Next
    PROVE  /\ TypeOK'
           /\ \/ UNCHANGED <<inboundBuffer, HeldBytes \o Readable, sent>>
              \/ /\ inboundBuffer' = inboundBuffer \o SubSeq(inboundBuffer', Len(inboundBuffer) + 1,
                                                              Len(inboundBuffer'))
                 /\ UNCHANGED <<HeldBytes \o Readable, sent>>
              \/ /\ \E m \in 1..Len(inboundBuffer) :
                        inboundBuffer' = SubSeq(inboundBuffer, m + 1, Len(inboundBuffer))
                 /\ UNCHANGED <<HeldBytes \o Readable, sent>>
              \/ /\ \E bs \in Seq(Nat) : (HeldBytes \o Readable)' = (HeldBytes \o Readable) \o bs
                 /\ UNCHANGED <<inboundBuffer, sent>>
              \/ \E m \in 1..Len(HeldBytes \o Readable) :
                    /\ sent' = sent \o SubSeq(HeldBytes \o Readable, 1, m)
                    /\ (HeldBytes \o Readable)' = SubSeq(HeldBytes \o Readable, m + 1,
                                                         Len(HeldBytes \o Readable))
                    /\ UNCHANGED inboundBuffer
<1> DEFINE pipe == HeldBytes \o Readable
<1>1. HeldBytes \in Seq(Nat) /\ Readable \in Seq(Nat)
      BY TypedPipe, PipeType DEF HeldBytes, Readable
<1>2. UNCHANGED <<out, handed>> => UNCHANGED pipe
      BY DEF HeldBytes, Readable
<1>3. ASSUME NEW n \in WriteLens, BIOWrite(n)
      PROVE  TypeOK' /\ UNCHANGED <<inboundBuffer, sent>>
             /\ (UNCHANGED pipe \/ \E bs \in Seq(Nat) : pipe' = pipe \o bs)
  <2>1. n \in Nat
        BY BIOAssumption
  <2>2. CASE ~(open /\ n > 0)
        BY <1>2, <1>3, <2>1, <2>2, WriteIdle
  <2>3. CASE open /\ n > 0
    <3>1. n \in Nat \ {0}
          BY <2>1, <2>3
    <3>2. /\ TypeOK' /\ HeldBytes' = HeldBytes
          /\ Readable' = Readable \o Bytes(written, n)
          BY <1>3, <2>3, <3>1, WriteAppends
    <3>3. UNCHANGED <<inboundBuffer, sent>>
          BY <1>3 DEF BIOWrite
    <3>4. Bytes(written, n) \in Seq(Nat)
      <4>1. written \in Nat
            BY BIOAssumption DEF TypeOK, Buffer
      <4>2. QED
            BY <2>1, <4>1, BytesType
    <3>5. pipe' = pipe \o Bytes(written, n)
      <4>1. HeldBytes \o (Readable \o Bytes(written, n)) = (HeldBytes \o Readable) \o Bytes(written, n)
            BY <1>1, <3>4, ConcatAssociative
      <4>2. pipe' = HeldBytes' \o Readable'
            OBVIOUS
      <4>3. QED
            BY <3>2, <4>1, <4>2, Zenon
    <3>6. QED
          BY <3>2, <3>3, <3>4, <3>5
  <2>4. QED
        BY <2>2, <2>3
<1>4. ASSUME NEW n \in ReadLens, BIORead(n)
      PROVE  /\ TypeOK' /\ UNCHANGED <<pipe, sent>>
             /\ \/ inboundBuffer' = inboundBuffer
                \/ \E m \in 1..Len(inboundBuffer) :
                       inboundBuffer' = SubSeq(inboundBuffer, m + 1, Len(inboundBuffer))
      BY <1>2, <1>4, BIOAssumption, ReadTakesFirst
<1>5. CASE OutboundCiphertext
  <2>1. TypeOK' /\ UNCHANGED pipe
        BY <1>5, HandOverKeepsPipe
  <2>2. UNCHANGED <<inboundBuffer, sent>>
        BY <1>5 DEF OutboundCiphertext
  <2>3. QED
        BY <2>1, <2>2
<1>6. ASSUME NEW n \in Arrivals, ReceiveFromNetwork(n)
      PROVE  /\ TypeOK' /\ UNCHANGED <<pipe, sent>>
             /\ inboundBuffer' = inboundBuffer \o SubSeq(inboundBuffer', Len(inboundBuffer) + 1,
                                                          Len(inboundBuffer'))
  <2>1. n \in Nat
        BY BIOAssumption
  <2>2. TypeOK' /\ inboundBuffer' = inboundBuffer \o Bytes(received, n)
        BY <1>6, <2>1, ReceiveAppends
  <2>3. UNCHANGED <<out, handed, sent>>
        BY <1>6 DEF ReceiveFromNetwork
  <2>4. inboundBuffer \in Seq(Nat) /\ Bytes(received, n) \in Seq(Nat)
        BY <2>1, BytesType DEF TypeOK
  <2>5. inboundBuffer' = inboundBuffer \o SubSeq(inboundBuffer', Len(inboundBuffer) + 1,
                                                  Len(inboundBuffer'))
        BY <2>2, <2>4, AppendedIsRest
  <2>6. QED
        BY <1>2, <2>2, <2>3, <2>5
<1>7. CASE EvacuateInboundData
      BY <1>2, <1>7, EvacuateTakesAll
<1>8. CASE Close
  <2>1. open' = FALSE /\ UNCHANGED <<inboundBuffer, inboundNil, out, handed, sent, retryRead, rc, written, received>>
        BY <1>8 DEF Close
  <2>2. open' \in BOOLEAN
        BY <2>1
  <2>3. TypeOK'
        BY <2>1, <2>2 DEF TypeOK
  <2>4. QED
        BY <1>2, <2>1, <2>3
<1>9. CASE SocketWrite
  <2>1. PICK n \in 1..Len(handed) : SocketTakes(n)
        BY <1>9 DEF SocketWrite
  <2>2. /\ TypeOK' /\ n \in 1..Len(pipe)
        /\ SubSeq(HeldBytes, 1, n) = SubSeq(pipe, 1, n)
        /\ pipe' = SubSeq(pipe, n + 1, Len(pipe))
        BY <2>1, SocketTakesFirst
  <2>3. sent' = sent \o SubSeq(HeldBytes, 1, n) /\ UNCHANGED inboundBuffer
        BY <2>1 DEF SocketTakes
  <2>4. QED
        BY <2>2, <2>3
<1> HIDE DEF pipe
<1>10. \/ \E n \in WriteLens : BIOWrite(n)
       \/ \E n \in ReadLens : BIORead(n)
       \/ \E n \in Arrivals : ReceiveFromNetwork(n)
       \/ OutboundCiphertext \/ EvacuateInboundData \/ Close \/ SocketWrite
      BY DEF Next
<1>11. QED
      BY <1>3, <1>4, <1>5, <1>6, <1>7, <1>8, <1>9, <1>10 DEF pipe

\* TypeOK: the BIO's indices stay within the storage, and every byte that
\* the channel still holds is in a cell of it, whatever sslWrite, sslRead,
\* outboundCiphertext and close do.
THEOREM TypeCorrect == Spec => []TypeOK
<1>1. Init => TypeOK
      BY TypeInit
<1>2. TypeOK /\ [Next]_vars => TypeOK'
  <2>1. ASSUME TypeOK, UNCHANGED vars PROVE TypeOK'
        BY <2>1 DEF TypeOK, vars
  <2>2. QED
        BY <2>1, Steps
<1>3. QED
      BY <1>1, <1>2, PTL DEF Spec

\* IsByteStreams: whatever the allocator, the capacity that is preserved and
\* the sizes of reads and writes, sslWrite, outboundCiphertext and sslRead are
\* a pair of byte streams between BoringSSL and the channel.
THEOREM ImplementsStreams == Spec => IsByteStreams
<1> DEFINE pipe == HeldBytes \o Readable
<1>1. Init => Streams!StreamInit
  <2> SUFFICES ASSUME Init PROVE inboundBuffer = <<>> /\ pipe = <<>> /\ sent = <<>>
      BY DEF Streams!StreamInit
  <2>1. TypeOK /\ handed = <<>> /\ out.writer = 0 /\ out.reader = 0
    <3>1. RoundUp(InitialCapacity) \in Nat /\ InitialCapacity \in Nat
          BY BIOAssumption, Capacities
    <3>2. QED
          BY <3>1, TypeInit, AllocateType DEF Init
  <2>2. /\ HeldBytes \in Seq(Nat) /\ Len(HeldBytes) = Len(handed)
        /\ Readable \in Seq(Nat) /\ Len(Readable) = out.writer - out.reader
        BY <2>1, TypedPipe, PipeType DEF HeldBytes, Readable
  <2>3. HeldBytes = <<>> /\ Readable = <<>>
        BY <2>1, <2>2
  <2>4. QED
        BY <2>3 DEF Init
<1>2. TypeOK /\ [Next]_vars => [Streams!StreamNext]_Streams!streamVars
  <2>1. ASSUME UNCHANGED vars PROVE UNCHANGED Streams!streamVars
    <3>1. UNCHANGED <<inboundBuffer, out, handed, sent>>
          BY <2>1 DEF vars
    <3>2. QED
          BY <3>1 DEF Streams!streamVars, HeldBytes, Readable
  <2>2. ASSUME TypeOK, Next PROVE [Streams!StreamNext]_Streams!streamVars
    <3>1. pipe \in Seq(Nat)
          BY <2>2, TypedPipe, PipeType, Join DEF HeldBytes, Readable
    <3>2. CASE UNCHANGED <<inboundBuffer, pipe, sent>>
          BY <3>2 DEF Streams!streamVars
    <3>3. CASE /\ inboundBuffer' = inboundBuffer \o SubSeq(inboundBuffer', Len(inboundBuffer) + 1,
                                                            Len(inboundBuffer'))
               /\ UNCHANGED <<pipe, sent>>
          BY <3>3 DEF Streams!StreamNext, Streams!Deposit, Streams!After
    <3>4. CASE /\ \E m \in 1..Len(inboundBuffer) :
                      inboundBuffer' = SubSeq(inboundBuffer, m + 1, Len(inboundBuffer))
               /\ UNCHANGED <<pipe, sent>>
          BY <3>4 DEF Streams!StreamNext, Streams!Withdraw, Streams!After
    <3>5. CASE /\ \E bs \in Seq(Nat) : pipe' = pipe \o bs
               /\ UNCHANGED <<inboundBuffer, sent>>
      <4>1. PICK bs \in Seq(Nat) : pipe' = pipe \o bs
            BY <3>5
      <4>2. pipe' = pipe \o SubSeq(pipe', Len(pipe) + 1, Len(pipe'))
            BY <3>1, <4>1, AppendedIsRest
      <4>3. QED
            BY <3>5, <4>2 DEF Streams!StreamNext, Streams!Put, Streams!After
    <3>6. CASE \E m \in 1..Len(pipe) :
                  /\ sent' = sent \o SubSeq(pipe, 1, m)
                  /\ pipe' = SubSeq(pipe, m + 1, Len(pipe))
                  /\ UNCHANGED inboundBuffer
          BY <3>6 DEF Streams!StreamNext, Streams!Transmit, Streams!After, Streams!Front
    <3>7. QED
          BY <2>2, <3>2, <3>3, <3>4, <3>5, <3>6, Steps
  <2>3. QED
        BY <2>1, <2>2
<1>3. QED
      BY <1>1, <1>2, TypeCorrect, PTL DEF Spec, IsByteStreams, Streams!StreamSpec

\* PreservedCapacity: the first sslWrite after a hand-over leaves no larger
\* buffer than the limit the BIO was given, or the write, needs.
THEOREM CapacityIsBounded == Spec => PreservedCapacity
<1> DEFINE Bounded == mustClearOutboundBuffer /\ written' > written
                      => out'.capacity <= RoundUp(Larger(MaxPreserved, written' - written))
<1>1. ASSUME TypeOK, Next, mustClearOutboundBuffer, written' > written
      PROVE  out'.capacity <= RoundUp(Larger(MaxPreserved, written' - written))
  <2>1. written \in Nat
        BY <1>1, BIOAssumption DEF TypeOK, Buffer
  <2>2. \/ \E n \in WriteLens : BIOWrite(n)
        \/ written' = written
        BY <1>1 DEF Next, BIORead, OutboundCiphertext, ReceiveFromNetwork, EvacuateInboundData,
                    Close, SocketWrite, SocketTakes
  <2>3. PICK n \in WriteLens : BIOWrite(n)
        BY <1>1, <2>1, <2>2
  <2>4. n \in Nat /\ written + n <= MaxWritten
        BY <2>3, BIOAssumption DEF BIOWrite
  <2>5. open /\ n > 0
        BY <1>1, <2>1, <2>3, <2>4 DEF BIOWrite
  <2> DEFINE c == Cleared(n)
             bs == Bytes(written, n)
             w == WriteBytes(c[1], Shared /\ ~c[2], bs)
             top == Larger(n, MaxPreserved)
  <2>6. out' = w[1] /\ written' = written + n
        BY <2>3, <2>5 DEF BIOWrite
  <2>7. bs \in Seq(Nat) /\ Len(bs) = n
        BY <2>1, <2>4, BytesType
  <2>8. /\ c[1] \in Buffer /\ c[1].writer = 0 /\ c[1].writer <= Len(c[1].bytes)
        /\ c[1].capacity = RoundUp(top) \/ c[1].capacity <= MaxPreserved
        BY <1>1, <2>4, ClearedBuffer
  <2>9. /\ top \in Nat /\ MaxPreserved \in 0..top /\ n \in 0..top
        /\ top <= MaxPreserved + MaxWritten
        BY <2>1, <2>4, BIOAssumption DEF Larger
  <2>10. Larger(MaxPreserved, written' - written) = top
        BY <2>1, <2>4, <2>6, BIOAssumption DEF Larger
  <2> HIDE DEF c, bs, w, top
  <2>11. /\ RoundUp(top) \in Nat /\ RoundUp(top) >= top
         /\ RoundUp(n) <= RoundUp(top)
        BY <2>9, Capacities
  <2>12. RoundUp(n) \in Nat
    <3>1. n <= MaxPreserved + MaxWritten
          BY <2>1, <2>4, BIOAssumption
    <3>2. QED
          BY <2>4, <3>1, Capacities
  <2>13. w[1].capacity = IF n > c[1].capacity THEN RoundUp(n) ELSE c[1].capacity
    <3> DEFINE b == c[1]
    <3>1. b \in Buffer /\ b.writer <= Len(b.bytes) /\ b.writer + Len(bs) = n
          BY <2>4, <2>7, <2>8
    <3>2. b.writer + Len(bs) > b.capacity => RoundUp(b.writer + Len(bs)) \in Nat
          BY <2>12, <3>1
    <3>3. \A sh : LET v == WriteBytes(b, sh, bs)[1]
                  IN  /\ v.writer = b.writer + Len(bs)
                      /\ v.capacity = IF v.writer > b.capacity THEN RoundUp(v.writer) ELSE b.capacity
      <4> HIDE DEF b
      <4>1. QED
            BY <2>7, <3>1, <3>2, WriteBytesPutsBehind
    <3>4. QED
          BY <3>1, <3>3 DEF w
  <2>14. c[1].capacity \in Nat
        BY <2>8 DEF Buffer
  <2>15. w[1].capacity <= RoundUp(top)
        BY <2>4, <2>8, <2>9, <2>11, <2>12, <2>13, <2>14, BIOAssumption
  <2>16. QED
        BY <2>6, <2>10, <2>15
<1>2. TypeOK /\ [Next]_vars => [Bounded]_vars
      BY <1>1
<1>3. QED
      BY <1>2, TypeCorrect, PTL DEF Spec, PreservedCapacity, Keeps

=============================================================================
