------------------------------ MODULE FlowProofs ------------------------------
(***************************************************************************)
(* The two streams. What the user writes reaches the channel in order, and *)
(* a write that is reported as successful has reached it whole; what the   *)
(* peer sends reaches the next handler in order; what the connection wrote *)
(* does not stay behind.                                                   *)
(*                                                                         *)
(* The orders are compared by counting. The n-th data record that left is  *)
(* the n-th slice the user wrote (InOrder), and while more can be sent the *)
(* buffered actions stand for the slices behind those already encoded      *)
(* (Follows). For this no action may be discarded and skipped while the    *)
(* connection can still write (Guarded), and nothing of the connection may *)
(* run before the channel is active (Unconnected). Ordered is the          *)
(* inductive invariant.                                                    *)
(*                                                                         *)
(* A promise says more than its record: it has to be followed from the     *)
(* call of write to the last slice (Kept), through the loop that gathers   *)
(* the promises of what it encoded (Encoded), to the write that hands all  *)
(* of it over (Honest), and it must not get there on any other way         *)
(* (Called, Unused, Apart). Ledger is the inductive invariant.             *)
(*                                                                         *)
(* Inbound, the n-th record decrypted is the n-th data record of the peer  *)
(* (Drawn). While the connection can still read, its input is what the     *)
(* peer sent behind the records counted so far (Tracks); it stops reading  *)
(* for good when the handshake fails, the input ends or the BIO is closed  *)
(* (Dead). Inbox is the inductive invariant.                               *)
(*                                                                         *)
(* The ciphertext left in the BIO waits for a call that writes it or that  *)
(* closes the channel (WillDrain). The danger is a removal in between,     *)
(* after which nobody would: an unwrapping is called for only behind a     *)
(* writeDataToNetwork and with both streams ended, so that no operation of *)
(* the connection writes any more. Draining is the inductive invariant.    *)
(*                                                                         *)
(* A promise of stopTLS is in the field or the call that ends the          *)
(* unwrapping it asked for, in no other, and never in the channel's hands  *)
(* (Stopping). What completes it is therefore a removal future, of which   *)
(* TrustProofs says that it succeeds only if it is clean (Clean), or a     *)
(* failure, or stopTLS itself; which gives UnwrapsClean.                   *)
(***************************************************************************)
EXTENDS TrustProofs, FiniteSetTheorems, WellFoundedInduction, SequenceTheorems

\* How many of D are among the first i numbers.
Number(D, i) == Cardinality(D \cap 1..i)

\* A set of natural numbers that is not empty has a least element.
LEMMA LeastNat ==
    ASSUME NEW T, T \subseteq Nat, T # {}
    PROVE  \E x \in T : \A y \in T : x <= y
<1> DEFINE R == OpToRel(<, Nat)
<1>1. IsWellFoundedOn(R, Nat)
  BY NatLessThanWellFounded, Zenon
<1>2. \A x, y \in Nat : <<y, x>> \in R <=> y < x
  BY DEF OpToRel
<1> HIDE DEF R
<1>3. PICK x \in T : \A y \in T : ~(<<y, x>> \in R)
  BY <1>1, WFMin, Zenon
<1>4. ASSUME NEW y \in T PROVE x <= y
  <2>1. x \in Nat /\ y \in Nat /\ ~(y < x)
    BY <1>2, <1>3, Zenon
  <2> QED BY <2>1
<1> QED BY <1>4

\* Counting one number more.
LEMMA NumberStep ==
    ASSUME NEW D, NEW i \in Nat
    PROVE  /\ Number(D, i) \in Nat /\ Number(D, 0) = 0
           /\ Number(D, i + 1) = IF i + 1 \in D THEN Number(D, i) + 1 ELSE Number(D, i)
<1>1. IsFiniteSet(1..i)
  BY FS_Interval
<1>2. IsFiniteSet(D \cap 1..i)
  BY <1>1, FS_Intersection
<1>3. Number(D, i) \in Nat
  BY <1>2, FS_CardinalityType DEF Number
<1>4. D \cap 1..0 = {}
  OBVIOUS
<1>5. Number(D, 0) = 0
  BY <1>4, FS_EmptySet DEF Number
<1>6. CASE i + 1 \in D
  <2>1. D \cap 1..(i + 1) = (D \cap 1..i) \cup {i + 1} /\ i + 1 \notin D \cap 1..i
    BY <1>6
  <2>2. Cardinality((D \cap 1..i) \cup {i + 1}) = Cardinality(D \cap 1..i) + 1
    BY <1>2, <2>1, FS_AddElement
  <2> QED BY <1>3, <1>5, <1>6, <2>1, <2>2 DEF Number
<1>7. CASE i + 1 \notin D
  <2>1. D \cap 1..(i + 1) = D \cap 1..i
    BY <1>7
  <2> QED BY <1>3, <1>5, <1>7, <2>1 DEF Number
<1> QED BY <1>6, <1>7

\* Only the members up to i are counted.
LEMMA NumberSame ==
    ASSUME NEW D, NEW E, NEW i, D \cap 1..i = E \cap 1..i
    PROVE  Number(D, i) = Number(E, i)
BY DEF Number

\* Counting when the first number is dropped.
LEMMA NumberShift ==
    ASSUME NEW D, NEW E, NEW m \in Nat,
           \A j \in 1..m : j \in E <=> j + 1 \in D
    PROVE  \A i \in 0..m : Number(D, i + 1) = Number(D, 1) + Number(E, i)
<1> DEFINE T == {i \in 0..m : Number(D, i + 1) # Number(D, 1) + Number(E, i)}
<1> SUFFICES ASSUME T # {} PROVE FALSE
  OBVIOUS
<1>1. PICK x \in T : \A y \in T : x <= y
  <2>1. T \subseteq Nat
    OBVIOUS
  <2> HIDE DEF T
  <2> QED BY <2>1, LeastNat
<1>2. x # 0
  <2>1. Number(D, 1) \in Nat /\ Number(E, 0) = 0
    BY NumberStep
  <2> QED BY <2>1
<1>3. x - 1 \in 0..m /\ x - 1 \notin T
  BY <1>1, <1>2
<1>4. Number(D, x) = Number(D, 1) + Number(E, x - 1)
  BY <1>2, <1>3
<1>5. Number(D, x + 1) = IF x + 1 \in D THEN Number(D, x) + 1 ELSE Number(D, x)
  BY NumberStep
<1>6. x \in Nat /\ (x - 1) + 1 = x /\ x - 1 \in Nat /\ x \in 1..m
  BY <1>2
<1>7. Number(E, x) = IF x \in E THEN Number(E, x - 1) + 1 ELSE Number(E, x - 1)
  <2> DEFINE y == x - 1
  <2>1. y \in Nat /\ y + 1 = x
    BY <1>6
  <2> HIDE DEF y
  <2>2. Number(E, y + 1) = IF y + 1 \in E THEN Number(E, y) + 1 ELSE Number(E, y)
    BY <2>1, NumberStep
  <2> QED BY <2>1, <2>2 DEF y
<1>8. Number(E, x - 1) \in Nat /\ Number(D, 1) \in Nat
  BY <1>6, NumberStep
<1> QED BY <1>4, <1>5, <1>6, <1>7, <1>8

\* Counting over a stretch whose members are all counted, or none.
LEMMA NumberRun ==
    ASSUME NEW D, NEW l \in Nat, NEW m \in Nat
    PROVE  /\ (\A j \in 1..m : l + j \in D) => \A i \in 0..m : Number(D, l + i) = Number(D, l) + i
           /\ (\A j \in 1..m : l + j \notin D) => \A i \in 0..m : Number(D, l + i) = Number(D, l)
<1>1. ASSUME \A j \in 1..m : l + j \in D
      PROVE  \A i \in 0..m : Number(D, l + i) = Number(D, l) + i
  <2> DEFINE T == {i \in 0..m : Number(D, l + i) # Number(D, l) + i}
  <2> SUFFICES ASSUME T # {} PROVE FALSE
    OBVIOUS
  <2>1. PICK x \in T : \A y \in T : x <= y
    <3>1. T \subseteq Nat
      OBVIOUS
    <3> HIDE DEF T
    <3> QED BY <3>1, LeastNat
  <2>2. x # 0
    <3>1. Number(D, l) \in Nat /\ l + 0 = l
      BY NumberStep
    <3> QED BY <3>1
  <2>3. x - 1 \in 0..m /\ x - 1 \notin T
    BY <2>1, <2>2
  <2>4. Number(D, l + (x - 1)) = Number(D, l) + (x - 1)
    BY <2>3
  <2> DEFINE y == l + (x - 1)
  <2>5. y \in Nat /\ y + 1 = l + x /\ x \in 1..m
    BY <2>2
  <2>6. Number(D, y + 1) = IF y + 1 \in D THEN Number(D, y) + 1 ELSE Number(D, y)
    BY <2>5, NumberStep
  <2>7. Number(D, l) \in Nat
    BY NumberStep
  <2> QED BY <1>1, <2>4, <2>5, <2>6, <2>7
<1>2. ASSUME \A j \in 1..m : l + j \notin D
      PROVE  \A i \in 0..m : Number(D, l + i) = Number(D, l)
  <2> DEFINE T == {i \in 0..m : Number(D, l + i) # Number(D, l)}
  <2> SUFFICES ASSUME T # {} PROVE FALSE
    OBVIOUS
  <2>1. PICK x \in T : \A y \in T : x <= y
    <3>1. T \subseteq Nat
      OBVIOUS
    <3> HIDE DEF T
    <3> QED BY <3>1, LeastNat
  <2>2. x # 0
    BY DEF T
  <2>3. x - 1 \in 0..m /\ x - 1 \notin T
    BY <2>1, <2>2
  <2>4. Number(D, l + (x - 1)) = Number(D, l)
    BY <2>3
  <2> DEFINE y == l + (x - 1)
  <2>5. y \in Nat /\ y + 1 = l + x /\ x \in 1..m
    BY <2>2
  <2>6. Number(D, y + 1) = IF y + 1 \in D THEN Number(D, y) + 1 ELSE Number(D, y)
    BY <2>5, NumberStep
  <2> QED BY <1>2, <2>4, <2>5, <2>6
<1> QED BY <1>1, <1>2

\* The count grows, and strictly at a member.
LEMMA NumberGrows ==
    ASSUME NEW D, NEW i \in Nat, NEW j \in 0..i
    PROVE  Number(D, j) <= Number(D, i) /\ (i \in D /\ j < i => Number(D, j) < Number(D, i))
<1>1. IsFiniteSet(1..i)
  BY FS_Interval
<1>2. IsFiniteSet(D \cap 1..i) /\ D \cap 1..j \subseteq D \cap 1..i
  BY <1>1, FS_Intersection
<1>3. Number(D, j) <= Number(D, i) /\ (Number(D, j) = Number(D, i) => D \cap 1..j = D \cap 1..i)
  BY <1>2, FS_Subset DEF Number
<1>4. i \in D /\ j < i => D \cap 1..j # D \cap 1..i
  <2> SUFFICES ASSUME i \in D, j < i PROVE i \in D \cap 1..i /\ i \notin D \cap 1..j
    OBVIOUS
  <2> QED OBVIOUS
<1>5. Number(D, i) \in Nat /\ Number(D, j) \in Nat
  BY NumberStep
<1> QED BY <1>3, <1>4, <1>5

DataAt(s) == {j \in 1..Len(s) : IsData(s[j])}
Total(s) == Number(DataAt(s), Len(s))

\* The n-th data record of s is the n-th slice of w.
InOrder(s, w) == \A i \in DataAt(s) : /\ Number(DataAt(s), i) <= Len(w)
                                      /\ s[i] = w[Number(DataAt(s), i)]
AllOut(s, w) == \A k \in 1..Total(s) : \E j \in 1..Len(s) : s[j] = w[k]

\* Buffered actions that will be sent, and the slices they stand for when t
\* slices of w have been sent.
CarriesAt(b) == {j \in 1..Len(b) : b[j].kind = "write" /\ ~b[j].empty}
Follows(b, t, w) ==
    /\ t + Number(CarriesAt(b), Len(b)) = Len(w)
    /\ \A i \in CarriesAt(b) : DataRecord(b[i].id, b[i].n) = w[t + Number(CarriesAt(b), i)]
\* A buffered promise comes behind all slices of its write.
Owns(b, t, w) ==
    \A i \in 1..Len(b) : \A q \in b[i].p : \A k \in 1..Len(w) :
        w[k].id = q => k <= t + Number(CarriesAt(b), i)

\* The counts are natural numbers.
LEMMA TotalType ==
    ASSUME NEW s \in Seq(Record)
    PROVE  Total(s) \in Nat /\ \A i \in 1..Len(s) : Number(DataAt(s), i) \in Nat
BY NumberStep DEF Total

\* Records that carry no data change neither the order nor the count.
LEMMA PlainGrows ==
    ASSUME NEW s \in Seq(Record), NEW t \in Seq(Record), NoData(t), NEW w \in Seq(Record)
    PROVE  /\ Total(s \o t) = Total(s)
           /\ InOrder(s, w) => InOrder(s \o t, w)
           /\ AllOut(s, w) => AllOut(s \o t, w)
<1> DEFINE u == s \o t
<1>1. /\ u \in Seq(Record) /\ Len(u) = Len(s) + Len(t) /\ Len(s) \in Nat /\ Len(t) \in Nat
      /\ \A i \in 1..Len(s) : u[i] = s[i]
      /\ \A i \in 1..Len(t) : u[Len(s) + i] = t[i]
  OBVIOUS
<1> HIDE DEF u
<1>2. \A i \in 1..Len(t) : Len(s) + i \notin DataAt(u)
  BY <1>1 DEF DataAt, NoData
<1>3. DataAt(u) = DataAt(s)
  <2>1. ASSUME NEW j \in DataAt(u) PROVE j \in DataAt(s)
    <3>1. CASE j <= Len(s)
      BY <1>1, <3>1 DEF DataAt
    <3>2. CASE ~(j <= Len(s))
      <4>1. j - Len(s) \in 1..Len(t) /\ Len(s) + (j - Len(s)) = j
        BY <1>1, <3>2 DEF DataAt
      <4> QED BY <1>2, <4>1
    <3> QED BY <3>1, <3>2
  <2>2. ASSUME NEW j \in DataAt(s) PROVE j \in DataAt(u)
    BY <1>1 DEF DataAt
  <2> QED BY <2>1, <2>2
<1>4. Total(u) = Total(s)
  <2>1. \A i \in 0..Len(t) : Number(DataAt(u), Len(s) + i) = Number(DataAt(u), Len(s))
    BY <1>1, <1>2, NumberRun
  <2> QED BY <1>1, <1>3, <2>1 DEF Total
<1>5. InOrder(s, w) => InOrder(u, w)
  BY <1>1, <1>3 DEF InOrder, DataAt
<1>6. AllOut(s, w) => AllOut(u, w)
  <2>1. 1..Len(s) \subseteq 1..Len(u)
    BY <1>1
  <2> QED BY <1>1, <1>4, <2>1 DEF AllOut
<1> QED BY <1>4, <1>5, <1>6 DEF u

\* The next slice is appended.
LEMMA DataGrows ==
    ASSUME NEW s \in Seq(Record), NEW r \in Record, IsData(r), NEW w \in Seq(Record),
           Total(s) + 1 <= Len(w), w[Total(s) + 1] = r
    PROVE  /\ Total(Append(s, r)) = Total(s) + 1
           /\ InOrder(s, w) => InOrder(Append(s, r), w)
           /\ AllOut(s, w) => AllOut(Append(s, r), w)
<1> DEFINE u == Append(s, r)
<1>1. /\ u \in Seq(Record) /\ Len(u) = Len(s) + 1 /\ Len(s) \in Nat
      /\ \A i \in 1..Len(s) : u[i] = s[i]
      /\ u[Len(s) + 1] = r
  OBVIOUS
<1> HIDE DEF u
<1>2. DataAt(u) = DataAt(s) \cup {Len(s) + 1}
  BY <1>1 DEF DataAt
<1>3. \A i \in 0..Len(s) : DataAt(u) \cap 1..i = DataAt(s) \cap 1..i
  BY <1>1, <1>2
<1>4. \A i \in 0..Len(s) : Number(DataAt(u), i) = Number(DataAt(s), i)
  BY <1>3, NumberSame
<1>5. Number(DataAt(u), Len(s) + 1) = Number(DataAt(u), Len(s)) + 1
  BY <1>1, <1>2, NumberStep
<1>6. Number(DataAt(u), Len(s)) = Total(s)
  BY <1>1, <1>4 DEF Total
<1>7. Total(u) = Total(s) + 1
  BY <1>1, <1>5, <1>6 DEF Total
<1>8. ASSUME InOrder(s, w), NEW i \in DataAt(u)
      PROVE  Number(DataAt(u), i) <= Len(w) /\ u[i] = w[Number(DataAt(u), i)]
  <2>1. CASE i = Len(s) + 1
    BY <1>1, <1>5, <1>6, <2>1
  <2>2. CASE i # Len(s) + 1
    <3>1. i \in DataAt(s) /\ i \in 1..Len(s)
      BY <1>2, <2>2 DEF DataAt
    <3>2. Number(DataAt(u), i) = Number(DataAt(s), i)
      BY <1>4, <3>1
    <3> QED BY <1>1, <1>8, <3>1, <3>2 DEF InOrder
  <2> QED BY <2>1, <2>2
<1>9. ASSUME AllOut(s, w), NEW k \in 1..Total(u)
      PROVE  \E j \in 1..Len(u) : u[j] = w[k]
  <2>1. Total(s) \in Nat
    BY TotalType
  <2>2. CASE k = Total(s) + 1
    BY <1>1, <2>2
  <2>3. CASE k # Total(s) + 1
    <3>1. k \in 1..Total(s)
      BY <1>7, <2>1, <2>3
    <3>2. PICK j \in 1..Len(s) : s[j] = w[k]
      BY <1>9, <3>1 DEF AllOut
    <3> QED BY <1>1, <3>2
  <2> QED BY <2>2, <2>3
<1> QED BY <1>7, <1>8, <1>9 DEF InOrder, AllOut, u

\* The user writes more.
LEMMA WritesGrow ==
    ASSUME NEW s \in Seq(Record), NEW w \in Seq(Record), NEW v \in Seq(Record)
    PROVE  /\ InOrder(s, w) => InOrder(s, w \o v)
           /\ AllOut(s, w) /\ Total(s) <= Len(w) => AllOut(s, w \o v)
<1> DEFINE x == w \o v
<1>1. Len(x) = Len(w) + Len(v) /\ Len(w) \in Nat /\ Len(v) \in Nat
      /\ \A i \in 1..Len(w) : x[i] = w[i]
  OBVIOUS
<1> HIDE DEF x
<1>2. ASSUME InOrder(s, w), NEW i \in DataAt(s)
      PROVE  Number(DataAt(s), i) <= Len(x) /\ s[i] = x[Number(DataAt(s), i)]
  <2> DEFINE n == Number(DataAt(s), i)
  <2>1. n <= Len(w) /\ s[i] = w[n]
    BY <1>2 DEF InOrder
  <2>2. n \in Nat /\ n # 0
    <3>1. i \in Nat /\ 0 \in 0..i /\ i > 0
      BY DEF DataAt
    <3>2. Number(DataAt(s), 0) = 0 /\ Number(DataAt(s), i) \in Nat
      BY <3>1, NumberStep
    <3>3. Number(DataAt(s), 0) < Number(DataAt(s), i)
      BY <3>1, NumberGrows
    <3> QED BY <3>2, <3>3
  <2> HIDE DEF n
  <2> QED BY <1>1, <2>1, <2>2 DEF n
<1>3. ASSUME AllOut(s, w), Total(s) <= Len(w), NEW k \in 1..Total(s)
      PROVE  \E j \in 1..Len(s) : s[j] = x[k]
  <2>1. PICK j \in 1..Len(s) : s[j] = w[k]
    BY <1>3 DEF AllOut
  <2>2. Total(s) \in Nat
    BY TotalType
  <2>3. x[k] = w[k]
    BY <1>1, <1>3, <2>2
  <2> QED BY <2>1, <2>3
<1> QED BY <1>2, <1>3 DEF InOrder, AllOut, x

\* The first action is taken out of the buffer.
LEMMA BufferPops ==
    ASSUME NEW b \in Seq(Action), b # <<>>, NEW t \in Nat, NEW w \in Seq(Record)
    PROVE  LET n == t + (IF b[1].kind = "write" /\ ~b[1].empty THEN 1 ELSE 0)
           IN  /\ Follows(b, t, w) => Follows(Tail(b), n, w)
               /\ Owns(b, t, w) => Owns(Tail(b), n, w)
               /\ n = t + Number(CarriesAt(b), 1)
               /\ Follows(b, t, w) => n <= Len(w)
<1> DEFINE C == CarriesAt(b)
           a == Tail(b)
           E == CarriesAt(a)
           n == t + (IF b[1].kind = "write" /\ ~b[1].empty THEN 1 ELSE 0)
<1>1. /\ Len(b) \in Nat /\ Len(b) >= 1 /\ Len(a) = Len(b) - 1 /\ a \in Seq(Action)
      /\ \A i \in 1..Len(a) : a[i] = b[i + 1] /\ i + 1 \in 1..Len(b)
  OBVIOUS
<1> HIDE DEF a
<1>2. \A i \in 1..Len(a) : i \in E <=> i + 1 \in C
  BY <1>1 DEF CarriesAt
<1>3. \A i \in 0..Len(a) : Number(C, i + 1) = Number(C, 1) + Number(E, i)
  <2>1. Len(a) \in Nat
    BY <1>1
  <2> HIDE DEF C, E
  <2> QED BY <1>2, <2>1, NumberShift
<1>4. 1 \in C <=> b[1].kind = "write" /\ ~b[1].empty
  BY <1>1 DEF CarriesAt
<1>5. Number(C, 1) = IF 1 \in C THEN 1 ELSE 0
  <2>1. /\ Number(C, 0) = 0
        /\ Number(C, 0 + 1) = IF 0 + 1 \in C THEN Number(C, 0) + 1 ELSE Number(C, 0)
    BY NumberStep
  <2> QED BY <2>1
<1>6. n = t + Number(C, 1) /\ n \in Nat
  BY <1>4, <1>5
<1>7. \A i \in 0..Len(a) : Number(E, i) \in Nat
  BY NumberStep
<1> HIDE DEF C, E, n
<1>8. \A i \in 0..Len(a) : n + Number(E, i) = t + Number(C, i + 1)
  BY <1>3, <1>5, <1>6, <1>7
<1>9. ASSUME Follows(b, t, w) PROVE Follows(a, n, w) /\ n <= Len(w)
  <2>1. t + Number(C, Len(b)) = Len(w)
    BY <1>9 DEF Follows, C
  <2>2. n + Number(E, Len(a)) = Len(w)
    <3>1. Len(a) \in 0..Len(a) /\ Len(a) + 1 = Len(b)
      BY <1>1
    <3> QED BY <1>8, <2>1, <3>1
  <2>3. ASSUME NEW i \in E PROVE DataRecord(a[i].id, a[i].n) = w[n + Number(E, i)]
    <3>1. i \in 1..Len(a)
      BY DEF E, CarriesAt
    <3>2. i + 1 \in C /\ a[i] = b[i + 1] /\ n + Number(E, i) = t + Number(C, i + 1)
      BY <1>1, <1>2, <1>8, <3>1
    <3> QED BY <1>9, <3>2 DEF Follows, C
  <2>4. n <= Len(w)
    <3>1. Len(a) \in 0..Len(a)
      BY <1>1
    <3> QED BY <1>6, <1>7, <2>2, <3>1
  <2> QED BY <2>2, <2>3, <2>4 DEF Follows, E
<1>10. ASSUME Owns(b, t, w) PROVE Owns(a, n, w)
  <2> SUFFICES ASSUME NEW i \in 1..Len(a), NEW q \in a[i].p, NEW k \in 1..Len(w), w[k].id = q
               PROVE  k <= n + Number(E, i)
    BY DEF Owns, E
  <2>1. i + 1 \in 1..Len(b) /\ q \in b[i + 1].p /\ n + Number(E, i) = t + Number(C, i + 1)
    BY <1>1, <1>8
  <2>2. k <= t + Number(C, i + 1)
    BY <1>10, <2>1 DEF Owns, C
  <2> QED BY <2>1, <2>2
<1> QED BY <1>6, <1>9, <1>10 DEF n, a, C

\* For the arithmetic of BufferGrows.
LEMMA AddAssoc == \A t, n, m \in Nat : \A l : t + n = l => t + (n + m) = l + m
OBVIOUS

\* Actions are appended to the buffer, all or none of which carry data.
LEMMA BufferGrows ==
    ASSUME NEW b \in Seq(Action), NEW d \in Seq(Action), NEW t \in Nat,
           NEW w \in Seq(Record), NEW v \in Seq(Record),
           \/ Len(v) = 0 /\ CarriesAt(d) = {}
           \/ Len(v) = Len(d) /\ CarriesAt(d) = 1..Len(d),
           \A i \in CarriesAt(d) : v[i] = DataRecord(d[i].id, d[i].n)
    PROVE  /\ Follows(b, t, w) => Follows(b \o d, t, w \o v)
           /\ /\ Follows(b, t, w) /\ Owns(b, t, w)
              /\ \A i \in 1..Len(b), k \in 1..Len(v) : v[k].id \notin b[i].p
              /\ \A i \in 1..Len(d) : \A q \in d[i].p : i = Len(d)
              => Owns(b \o d, t, w \o v)
<1> DEFINE a == b \o d
           x == w \o v
           C == CarriesAt(b)
           E == CarriesAt(a)
<1>1. /\ a \in Seq(Action) /\ Len(a) = Len(b) + Len(d) /\ Len(b) \in Nat /\ Len(d) \in Nat
      /\ \A i \in 1..Len(b) : a[i] = b[i]
      /\ \A i \in 1..Len(d) : a[Len(b) + i] = d[i]
  OBVIOUS
<1>2. /\ Len(x) = Len(w) + Len(v) /\ Len(w) \in Nat /\ Len(v) \in Nat
      /\ \A i \in 1..Len(w) : x[i] = w[i]
      /\ \A i \in 1..Len(v) : x[Len(w) + i] = v[i]
  OBVIOUS
<1> HIDE DEF a, x
<1>3. /\ \A i \in 1..Len(b) : i \in E <=> i \in C
      /\ \A i \in 1..Len(d) : Len(b) + i \in E <=> i \in CarriesAt(d)
  BY <1>1 DEF CarriesAt
<1>4. \A i \in 0..Len(b) : Number(E, i) = Number(C, i)
  <2> SUFFICES ASSUME NEW i \in 0..Len(b) PROVE E \cap 1..i = C \cap 1..i
    BY NumberSame
  <2> HIDE DEF E, C
  <2> QED BY <1>1, <1>3
<1>5. \A i \in 0..Len(d) : Number(E, Len(b) + i) = Number(C, Len(b)) + IF Len(v) = 0 THEN 0 ELSE i
  <2> HIDE DEF E, C
  <2>0. Number(E, Len(b)) = Number(C, Len(b)) /\ Number(C, Len(b)) \in Nat
    <3>1. Len(b) \in 0..Len(b)
      BY <1>1
    <3> QED BY <1>1, <1>4, <3>1, NumberStep
  <2>1. CASE Len(v) = 0 /\ CarriesAt(d) = {}
    <3>1. \A i \in 0..Len(d) : Number(E, Len(b) + i) = Number(E, Len(b))
      <4>1. \A j \in 1..Len(d) : Len(b) + j \notin E
        BY <1>3, <2>1
      <4> QED BY <1>1, <4>1, NumberRun
    <3> QED BY <2>0, <2>1, <3>1
  <2>2. CASE Len(v) = Len(d) /\ CarriesAt(d) = 1..Len(d)
    <3>1. \A i \in 0..Len(d) : Number(E, Len(b) + i) = Number(E, Len(b)) + i
      <4>1. \A j \in 1..Len(d) : Len(b) + j \in E
        BY <1>3, <2>2
      <4> QED BY <1>1, <4>1, NumberRun
    <3> QED BY <2>0, <2>2, <3>1
  <2> QED BY <2>1, <2>2
<1>6. \A i \in 0..Len(b) : Number(C, i) \in Nat
  BY NumberStep
<1>7. E \subseteq 1..Len(a) /\ C \subseteq 1..Len(b)
  BY DEF CarriesAt
<1> HIDE DEF E, C
<1>8. ASSUME NEW i \in 1..Len(a), ~(i <= Len(b))
      PROVE  i - Len(b) \in 1..Len(d) /\ Len(b) + (i - Len(b)) = i
  BY <1>1, <1>8
<1>9. ASSUME Follows(b, t, w) PROVE Follows(a, t, x)
  <2>1. t + Number(C, Len(b)) = Len(w)
    BY <1>9 DEF Follows, C
  <2>2. t + Number(E, Len(a)) = Len(x)
    <3>1. Len(d) \in 0..Len(d) /\ Len(b) \in 0..Len(b)
      BY <1>1
    <3>2. Number(E, Len(b) + Len(d)) = Number(C, Len(b)) + IF Len(v) = 0 THEN 0 ELSE Len(d)
      BY <1>5, <3>1
    <3>3. Number(C, Len(b)) \in Nat
      BY <1>6, <3>1
    <3>4. Len(v) = 0 \/ Len(v) = Len(d)
      OBVIOUS
    <3>5. Number(E, Len(a)) = Number(C, Len(b)) + Len(v)
      BY <1>1, <1>2, <3>2, <3>3, <3>4
    <3> DEFINE n == Number(C, Len(b))
    <3>6. n \in Nat /\ Number(E, Len(a)) = n + Len(v) /\ t + n = Len(w)
      BY <2>1, <3>3, <3>5
    <3> HIDE DEF n
    <3>7. t + n = Len(w)
      BY <3>6
    <3>8. t \in Nat /\ Len(v) \in Nat /\ n \in Nat
      BY <1>2, <3>6
    <3>9. \A l : t + n = l => t + (n + Len(v)) = l + Len(v)
      BY <3>8, AddAssoc, Zenon
    <3>10. t + (n + Len(v)) = Len(w) + Len(v)
      BY <3>7, <3>9, Zenon
    <3> QED BY <1>2, <3>6, <3>10, Zenon
  <2>3. ASSUME NEW i \in E PROVE DataRecord(a[i].id, a[i].n) = x[t + Number(E, i)]
    <3>1. CASE i <= Len(b)
      <4>1. i \in 1..Len(b) /\ i \in C /\ Number(E, i) = Number(C, i)
        BY <1>1, <1>3, <1>4, <1>7, <3>1
      <4>2. DataRecord(a[i].id, a[i].n) = w[t + Number(C, i)]
        BY <1>1, <1>9, <4>1 DEF Follows, C
      <4>3. t + Number(C, i) \in 1..Len(w)
        <5>1. /\ Number(C, i) \in Nat
              /\ Number(C, i) <= Number(C, Len(b))
              /\ Number(C, Len(b)) \in Nat
          <6>1. i \in Nat /\ i \in 0..Len(b)
            BY <1>1, <4>1
          <6> QED BY <1>1, <6>1, NumberStep, NumberGrows
        <5>2. Number(C, 0) = 0 /\ Number(C, 0) < Number(C, i)
          <6>1. i \in Nat /\ 0 \in 0..i /\ 0 < i
            BY <1>1, <4>1
          <6> QED BY <4>1, <6>1, NumberStep, NumberGrows
        <5> QED BY <2>1, <5>1, <5>2
      <4> QED BY <1>2, <4>1, <4>2, <4>3
    <3>2. CASE ~(i <= Len(b))
      <4> DEFINE j == i - Len(b)
      <4>1. j \in 1..Len(d) /\ Len(b) + j = i
        BY <1>7, <1>8, <3>2
      <4> HIDE DEF j
      <4>2. j \in CarriesAt(d) /\ a[i] = d[j]
        BY <1>1, <1>3, <4>1
      <4>3. v[j] = DataRecord(d[j].id, d[j].n) /\ j \in 1..Len(v) /\ Len(v) # 0
        BY <4>1, <4>2
      <4>4. Number(E, i) = Number(C, Len(b)) + j
        BY <1>5, <4>1, <4>3
      <4>5. t + Number(E, i) = Len(w) + j
        <5>1. Number(C, Len(b)) \in Nat /\ j \in Nat
          BY <1>1, <1>6, <4>1
        <5> DEFINE n == Number(C, Len(b))
        <5>2. n \in Nat /\ Number(E, i) = n + j /\ t + n = Len(w)
          BY <2>1, <4>4, <5>1
        <5> HIDE DEF n
        <5>3. t \in Nat /\ n \in Nat /\ j \in Nat /\ t + n = Len(w)
          BY <5>1, <5>2
        <5>4. \A l : t + n = l => t + (n + j) = l + j
          BY <5>3, AddAssoc, Zenon
        <5>5. t + (n + j) = Len(w) + j
          BY <5>3, <5>4, Zenon
        <5> QED BY <5>2, <5>5, Zenon
      <4> QED BY <1>2, <4>2, <4>3, <4>5
    <3> QED BY <3>1, <3>2
  <2> QED BY <2>2, <2>3 DEF Follows, E
<1>10. ASSUME Follows(b, t, w), Owns(b, t, w),
              \A i \in 1..Len(b), k \in 1..Len(v) : v[k].id \notin b[i].p,
              \A i \in 1..Len(d) : \A q \in d[i].p : i = Len(d)
       PROVE  Owns(a, t, x)
  <2> SUFFICES ASSUME NEW i \in 1..Len(a), NEW q \in a[i].p, NEW k \in 1..Len(x), x[k].id = q
               PROVE  k <= t + Number(E, i)
    BY DEF Owns, E
  <2>1. CASE i <= Len(b)
    <3>1. i \in 1..Len(b) /\ a[i] = b[i] /\ Number(E, i) = Number(C, i)
      BY <1>1, <1>4, <2>1
    <3>2. k <= Len(w)
      <4> SUFFICES ASSUME k > Len(w) PROVE FALSE
        BY <1>2
      <4> DEFINE j == k - Len(w)
      <4>1. j \in 1..Len(v) /\ Len(w) + j = k
        BY <1>2
      <4> HIDE DEF j
      <4>2. v[j].id = q
        BY <1>2, <4>1
      <4> QED BY <1>10, <3>1, <4>1, <4>2
    <3>3. k \in 1..Len(w) /\ w[k].id = q
      <4>1. k \in 1..Len(w)
        BY <1>2, <3>2
      <4> QED BY <1>2, <4>1
    <3> QED BY <1>10, <3>1, <3>3 DEF Owns, C
  <2>2. CASE ~(i <= Len(b))
    <3>1. i = Len(a)
      <4> DEFINE j == i - Len(b)
      <4>1. j \in 1..Len(d) /\ Len(b) + j = i
        BY <1>8, <2>2
      <4> HIDE DEF j
      <4>2. q \in d[j].p
        BY <1>1, <4>1
      <4> QED BY <1>1, <1>10, <4>1, <4>2
    <3>2. t + Number(E, i) = Len(x)
      BY <1>9, <1>10, <3>1 DEF Follows, E
    <3> QED BY <1>2, <3>2
  <2> QED BY <2>1, <2>2
<1> QED BY <1>9, <1>10 DEF a, x

-----------------------------------------------------------------------------
\* An operation of the connection wrote records, none of them data.
Plain(c, d) == \E t \in Seq(Record) : NoData(t) /\ d.outbound = c.outbound \o t

\* Plain is reflexive and transitive, and holds of one record.
LEMMA PlainRules ==
    ASSUME NEW c, c.outbound \in Seq(Record)
    PROVE  /\ \A d : d.outbound = c.outbound => Plain(c, d)
           /\ \A d, r : r \in Record /\ ~IsData(r) /\ d.outbound = Append(c.outbound, r)
                => Plain(c, d)
           /\ \A d, e : Plain(c, d) /\ Plain(d, e) => Plain(c, e)
           /\ \A d : Plain(c, d) => d.outbound \in Seq(Record)
<1>1. ASSUME NEW d, d.outbound = c.outbound PROVE Plain(c, d)
  <2>1. NoData(<<>>) /\ <<>> \in Seq(Record) /\ c.outbound \o <<>> = c.outbound
    BY DEF NoData
  <2> QED BY <1>1, <2>1 DEF Plain
<1>2. ASSUME NEW d, NEW r \in Record, ~IsData(r), d.outbound = Append(c.outbound,
               r) PROVE Plain(c, d)
  <2>1. NoData(<<r>>) /\ <<r>> \in Seq(Record) /\ c.outbound \o <<r>> = Append(c.outbound, r)
    BY <1>2 DEF NoData
  <2> QED BY <1>2, <2>1 DEF Plain
<1>3. ASSUME NEW d, NEW e, Plain(c, d), Plain(d, e) PROVE Plain(c, e)
  <2>1. PICK t \in Seq(Record) : NoData(t) /\ d.outbound = c.outbound \o t
    BY <1>3 DEF Plain
  <2>2. PICK u \in Seq(Record) : NoData(u) /\ e.outbound = d.outbound \o u
    BY <1>3 DEF Plain
  <2>3. NoData(t \o u) /\ t \o u \in Seq(Record)
    BY <2>1, <2>2, NoDataGrows
  <2>4. e.outbound = c.outbound \o (t \o u)
    <3> DEFINE o == c.outbound
    <3>1. o \in Seq(Record) /\ e.outbound = (o \o t) \o u
      BY <2>1, <2>2
    <3> HIDE DEF o
    <3>2. (o \o t) \o u = o \o (t \o u)
      BY <3>1, ConcatAssociative
    <3> QED BY <3>1, <3>2 DEF o
  <2> QED BY <2>3, <2>4 DEF Plain
<1>4. ASSUME NEW d, Plain(c, d) PROVE d.outbound \in Seq(Record)
  BY <1>4 DEF Plain
<1> QED BY <1>1, <1>2, <1>3, <1>4

\* The outbound records of a connection.
LEMMA OutboundType == \A c \in Connection : c.outbound \in Seq(Record)
BY ConnectionOpsType

\* One record is read, and answered by an alert at most.
LEMMA RefusePlain ==
    ASSUME NEW c \in Connection
    PROVE  /\ Plain(c, FatalAlert(c))
           /\ c.inbound # <<>> => /\ Plain(c, Consume(c)) /\ Plain(c, Refuse(c))
                                  /\ Plain(c, RefuseInHandshake(c).conn)
<1> USE OutboundType
<1>1. ASSUME NEW e \in Connection PROVE Plain(e, FatalAlert(e))
  <2> DEFINE x == Rec("alert")
             d == [Send(e, x) EXCEPT !.writeShutdown = "error"]
  <2>1. x \in Record /\ ~IsData(x)
    BY RecType DEF Kinds, IsData
  <2>2. Send(e, x) \in Connection /\ Send(e, x).outbound = Append(e.outbound, x)
    BY <2>1, SendType, SendTrust
  <2> HIDE DEF x
  <2>3. d.outbound = Append(e.outbound, x)
    BY <2>2 DEF Connection
  <2>4. FatalAlert(e) \in {e, d}
    BY DEF FatalAlert, x
  <2> HIDE DEF d
  <2> QED BY <2>1, <2>3, <2>4, PlainRules
<1>2. ASSUME c.inbound # <<>>
      PROVE  /\ Plain(c, Consume(c)) /\ Plain(c, Refuse(c))
             /\ Plain(c, RefuseInHandshake(c).conn)
  <2>1. Consume(c) \in Connection /\ Refuse(c) \in Connection /\ Plain(c, Consume(c))
    BY <1>2, ConsumeType, RefuseType, ConsumeTrust, PlainRules
  <2>2. Plain(c, Refuse(c))
    BY <1>1, <2>1, PlainRules DEF Refuse
  <2>3. \A e \in Connection : /\ [e EXCEPT !.readShutdown = "closeNotify"].outbound = e.outbound
                              /\ [e EXCEPT !.hsError = TRUE].outbound = e.outbound
    BY DEF Connection
  <2>4. RefuseInHandshake(c).conn \in {[Consume(c) EXCEPT !.readShutdown = "closeNotify"],
                                       [Refuse(c) EXCEPT !.hsError = TRUE]}
    BY DEF RefuseInHandshake, Result
  <2>5. \/ RefuseInHandshake(c).conn.outbound = Consume(c).outbound
        \/ RefuseInHandshake(c).conn.outbound = Refuse(c).outbound
    BY <2>1, <2>3, <2>4
  <2> QED BY <2>1, <2>2, <2>5 DEF Plain
<1> QED BY <1>1, <1>2

\* The last flight of the handshake carries no data.
LEMMA FinishFlightPlain ==
    ASSUME NEW c \in Connection PROVE Plain(c, FinishFlight(c).conn)
<1> USE OutboundType
<1> DEFINE x == Rec("hs")
           s == Send(c, x)
           t == [s EXCEPT !.flights = @ + 1]
           u == [t EXCEPT !.inInit = FALSE]
<1>1. x \in Record /\ ~IsData(x)
  BY RecType DEF Kinds, IsData
<1>2. s \in Connection /\ s.outbound = Append(c.outbound, x)
  BY <1>1, SendType, SendTrust
<1> HIDE DEF x, s
<1>3. t \in Connection /\ t.outbound = s.outbound
  <2>1. s.flights + 1 \in Nat
    BY <1>2 DEF Connection
  <2> QED BY <1>2, <2>1 DEF Connection
<1> HIDE DEF t
<1>4. u.outbound = t.outbound /\ RetryRead(t, TRUE).outbound = t.outbound
  BY <1>3, RetryReadTrust DEF Connection
<1> HIDE DEF u
<1>5. \/ FinishFlight(c).conn \in {u, RetryRead(t, TRUE)}
      \/ t.inbound # <<>> /\ FinishFlight(c).conn = RefuseInHandshake(t).conn
  BY DEF FinishFlight, WantRead, Result, t, u, s, x
<1>6. Plain(c, t) /\ Plain(c, u) /\ Plain(c, RetryRead(t, TRUE))
  BY <1>1, <1>2, <1>3, <1>4, PlainRules
<1>7. t.inbound # <<>> => Plain(t, RefuseInHandshake(t).conn)
  BY <1>3, RefusePlain
<1> QED BY <1>5, <1>6, <1>7, PlainRules

\* SSL_do_handshake writes no application data.
LEMMA DoHandshakePlain ==
    ASSUME NEW c \in Connection PROVE Plain(c, DoHandshake(c).conn)
<1> USE OutboundType
<1> DEFINE x == Rec("hs")
           d == StartHandshake(c)
           e == Consume(d)
           g == [e EXCEPT !.verify = "pendingResult"]
<1>1. x \in Record /\ ~IsData(x)
  BY RecType DEF Kinds, IsData
<1>2. Send(c, x) \in Connection /\ Send(c, x).outbound = Append(c.outbound, x)
  BY <1>1, SendType, SendTrust
<1>3. d \in Connection /\ Plain(c, d)
  <2>1. \A y \in Connection : LET z == [y EXCEPT !.started = TRUE] IN
          z \in Connection /\ z.outbound = y.outbound
    BY DEF Connection
  <2>2. d \in {[c EXCEPT !.started = TRUE], [Send(c, x) EXCEPT !.started = TRUE]}
    BY DEF StartHandshake
  <2>3. d \in Connection /\ (d.outbound = c.outbound \/ d.outbound = Send(c, x).outbound)
    BY <1>2, <2>1, <2>2
  <2> HIDE DEF d, x
  <2> QED BY <1>1, <1>2, <2>3, PlainRules
<1>4. HandshakeError(c).outbound = FatalAlert(c).outbound
  <2>1. FatalAlert(c) \in Connection
    BY FatalAlertType
  <2> QED BY <2>1 DEF HandshakeError, Connection
<1>5. Plain(c, HandshakeError(c))
  BY <1>4, RefusePlain DEF Plain
<1> HIDE DEF d, x
<1>6. d.inbound # <<>> => e \in Connection /\ Plain(c, e) /\ Plain(c, RefuseInHandshake(d).conn)
  BY <1>3, ConsumeType, RefusePlain, PlainRules
<1> HIDE DEF e
<1>7. d.inbound # <<>> => Plain(c, g) /\ Plain(c, FinishFlight(e).conn)
  <2>1. d.inbound # <<>> => g.outbound = e.outbound /\ Plain(e, FinishFlight(e).conn)
    BY <1>6, FinishFlightPlain DEF Connection
  <2> HIDE DEF g
  <2> QED BY <1>6, <2>1, PlainRules
<1>8. \/ ReadFlight(d).conn = RetryRead(d, TRUE)
      \/ d.inbound # <<>> /\ ReadFlight(d).conn \in {RefuseInHandshake(d).conn, g,
           FinishFlight(e).conn}
  BY DEF ReadFlight, WantRead, Result, e
<1>9. Plain(c, RetryRead(d, TRUE))
  BY <1>3, RetryReadTrust, PlainRules DEF Plain
<1> HIDE DEF g
<1>10. Plain(c, ReadFlight(d).conn)
  BY <1>6, <1>7, <1>8, <1>9
<1>11. DoHandshake(c).conn \in {c, HandshakeError(c), FinishFlight(c).conn, ReadFlight(d).conn}
  <2>1. c.verify \in Verify
    BY DEF Connection
  <2> QED BY <2>1 DEF DoHandshake, BIOClosed, Result, Verify, d
<1> QED BY <1>5, <1>10, <1>11, FinishFlightPlain, PlainRules

\* SSL_shutdown writes no application data.
LEMMA DoShutdownPlain ==
    ASSUME NEW c \in Connection PROVE Plain(c, DoShutdown(c).conn)
<1> USE OutboundType
<1> DEFINE x == Rec("closeNotify")
           s == Send(c, x)
           f == Refuse(c)
           e == Consume(c)
           k == RetryRead(c, TRUE)
           l == RetryRead(c, FALSE)
<1>1. x \in Record /\ ~IsData(x)
  BY RecType DEF Kinds, IsData
<1>2. s \in Connection /\ s.outbound = Append(c.outbound, x)
  BY <1>1, SendType, SendTrust
<1>3. \/ DoShutdown(c).conn \in {c, k, l, [c EXCEPT !.writeShutdown = "closeNotify"],
                                 [s EXCEPT !.writeShutdown = "closeNotify"]}
      \/ /\ c.inbound # <<>>
         /\ DoShutdown(c).conn \in {[e EXCEPT !.readShutdown = "closeNotify"],
                                    [f EXCEPT !.readShutdown = "error"]}
  BY DEF DoShutdown, SendCloseNotify, AwaitCloseNotify, BIOClosed, WantRead, Result
<1>4. k.outbound = c.outbound /\ l.outbound = c.outbound
  BY RetryReadTrust
<1>5. c.inbound # <<>> => e \in Connection /\ f \in Connection /\ Plain(c, e) /\ Plain(c, f)
  BY ConsumeType, RefuseType, RefusePlain
<1> HIDE DEF x, s, e, f, k, l
<1>6. \A y \in Connection : /\ [y EXCEPT !.writeShutdown = "closeNotify"].outbound = y.outbound
                            /\ [y EXCEPT !.readShutdown = "closeNotify"].outbound = y.outbound
                            /\ [y EXCEPT !.readShutdown = "error"].outbound = y.outbound
  BY DEF Connection
<1> DEFINE r == DoShutdown(c).conn
<1>7. \/ r.outbound = c.outbound \/ r.outbound = s.outbound
      \/ c.inbound # <<>> /\ (r.outbound = e.outbound \/ r.outbound = f.outbound)
  BY <1>2, <1>3, <1>4, <1>5, <1>6
<1> HIDE DEF r
<1>8. \A y : Plain(c, y) /\ r.outbound = y.outbound => Plain(c, r)
  BY DEF Plain
<1>9. Plain(c, c) /\ Plain(c, s)
  BY <1>1, <1>2, PlainRules
<1>10. Plain(c, r)
  BY <1>5, <1>7, <1>8, <1>9, Zenon
<1> QED BY <1>10 DEF r

\* SSL_read writes no application data.
LEMMA ReadDataPlain ==
    ASSUME NEW c \in Connection PROVE Plain(c, ReadData(c).conn)
<1> USE OutboundType
<1> DEFINE rest == SubSeq(c.inbound, DataPrefix(c.inbound) + 1, Len(c.inbound))
           t == [c EXCEPT !.inbound = rest]
<1>1. rest \in Seq(Record)
  <2>1. c.inbound \in Seq(Record) /\ DataPrefix(c.inbound) \in 0..Len(c.inbound)
    BY ConnectionOpsType, DataPrefixType
  <2> QED BY <2>1
<1>2. \/ ReadData(c).conn \in {c, RetryRead(t, TRUE)}
      \/ /\ t.inbound # <<>>
         /\ ReadData(c).conn \in {[Consume(t) EXCEPT !.readShutdown = "closeNotify"],
                                  [Refuse(t) EXCEPT !.readShutdown = "error"]}
  BY DEF ReadData, BIOClosed, WantRead, Result
<1> HIDE DEF rest
<1>3. t \in Connection /\ t.outbound = c.outbound
  BY <1>1 DEF Connection
<1> HIDE DEF t
<1> DEFINE e == Consume(t)
           f == Refuse(t)
           k == RetryRead(t, TRUE)
           r == ReadData(c).conn
<1>4. k.outbound = t.outbound
  BY <1>3, RetryReadTrust
<1>5. t.inbound # <<>> => e \in Connection /\ f \in Connection /\ Plain(t, e) /\ Plain(t, f)
  BY <1>3, ConsumeType, RefuseType, RefusePlain
<1>6. \A y \in Connection : /\ [y EXCEPT !.readShutdown = "closeNotify"].outbound = y.outbound
                            /\ [y EXCEPT !.readShutdown = "error"].outbound = y.outbound
  BY DEF Connection
<1> HIDE DEF e, f, k
<1>7. \/ r.outbound = c.outbound \/ r.outbound = k.outbound
      \/ t.inbound # <<>> /\ (r.outbound = e.outbound \/ r.outbound = f.outbound)
  BY <1>2, <1>5, <1>6 DEF e, f, k
<1> HIDE DEF r
<1>8. \A y : Plain(c, y) /\ r.outbound = y.outbound => Plain(c, r)
  BY DEF Plain
<1>9. Plain(c, c) /\ Plain(c, k) /\ (Plain(t, e) => Plain(c, e)) /\ (Plain(t, f) => Plain(c, f))
  <2>1. c.outbound \in Seq(Record)
    BY OutboundType
  <2>2. Plain(c, c) /\ Plain(c, t) /\ Plain(c, k)
    BY <1>3, <1>4, <2>1, PlainRules, Zenon
  <2> QED BY <2>1, <2>2, PlainRules, Zenon
<1>10. Plain(c, r)
  BY <1>5, <1>7, <1>8, <1>9, Zenon
<1> QED BY <1>10 DEF r

\* _encodeSingleWrite writes the slice when it reports success, behind what
\* the handshake wrote, and only on a side of the stream that is open.
LEMMA EncodeFlow ==
    ASSUME NEW c \in Connection, NEW a \in Action
    PROVE  LET w == EncodeSingleWrite(c, a)
               x == DataRecord(a.id, a.n)
           IN  \/ /\ Plain(c, w.conn) /\ (w.res = "complete" => a.empty)
               \/ /\ w.res = "complete" /\ ~a.empty /\ x \in Record /\ IsData(x)
                  /\ w.conn.writeShutdown = "none"
                  /\ \E d \in Connection : Plain(c, d) /\ w.conn.outbound = Append(d.outbound, x)
<1> USE OutboundType
<1> DEFINE h == DoHandshake(c)
           x == DataRecord(a.id, a.n)
           w == EncodeSingleWrite(c, a)
           b == BeforeWrite(c)
<1>1. h.conn \in Connection /\ Plain(c, h.conn)
  BY DoHandshakeType, DoHandshakePlain
<1>2. x \in Record /\ IsData(x)
  BY DEF DataRecord, Record, Action, Kinds, IsData
<1>3. b.conn = h.conn /\ (b.res = "complete" => h.conn.writeShutdown = "none")
  BY DEF BeforeWrite, BIOClosed, Result
<1>4. /\ Send(h.conn, x).outbound = Append(h.conn.outbound, x)
      /\ Send(h.conn, x).writeShutdown = h.conn.writeShutdown
  BY <1>1, <1>2, SendTrust
<1>5. \/ a.empty /\ w.conn = c
      \/ ~a.empty /\ b.res = "complete" /\ w.res = "complete" /\ w.conn = Send(b.conn, x)
      \/ ~a.empty /\ b.res # "complete" /\ w = b
  BY DEF EncodeSingleWrite, Result
<1>6. Plain(c, c)
  BY PlainRules
<1> HIDE DEF h, x, w, b
<1>7. CASE a.empty /\ w.conn = c
  BY <1>6, <1>7 DEF w
<1>8. CASE ~a.empty /\ b.res = "complete" /\ w.res = "complete" /\ w.conn = Send(b.conn, x)
  BY <1>1, <1>2, <1>3, <1>4, <1>8 DEF w, x
<1>9. CASE ~a.empty /\ b.res # "complete" /\ w = b
  BY <1>1, <1>3, <1>9 DEF w
<1> QED BY <1>5, <1>7, <1>8, <1>9

-----------------------------------------------------------------------------
\* Before the channel is active the handler has nothing to run but what the
\* user calls.
EarlyOps == {"callout", "netout", "write", "flush", "closeAll", "closeOutput", "stopTLS",
             "contextClose", "contextCloseOutput", "channelUnwrap"}
Unconnected ==
    channel = "registered" /\ ~removed =>
        /\ Pending(stack) \subseteq EarlyOps /\ ~readPending
        /\ state = "idle" \/ TopOp(stack) \in {"contextClose", "channelUnwrap"}

\* Every action keeps Unconnected.
LEMMA NextUnconnected ==
    ASSUME TypeOK, TrustInv, Unconnected, Next, fatal' = "none"
    PROVE  Unconnected'
<1> SUFFICES ASSUME channel' = "registered", ~removed'
             PROVE  /\ Pending(stack') \subseteq EarlyOps /\ ~readPending'
                    /\ state' = "idle" \/ TopOp(stack') \in {"contextClose", "channelUnwrap"}
  BY DEF Unconnected
<1>1. channel = "registered" /\ ~removed
  <2> USE DEF chanVars
  <2>1. CASE Handler
    <3>1. CASE ContextClose \/ ContextCloseOutput
      BY <3>1 DEF ContextClose, ContextCloseOutput
    <3>2. CASE ChannelUnwrap
      BY <3>2 DEF ChannelUnwrap
    <3>3. CASE \/ WriteDataToNetwork \/ ChannelClose \/ ChannelCloseOutput \/ RemovalFuture
               \/ BufferWrite \/ Flush \/ Discard \/ InvokeCloseOutput \/ FailEncoded
               \/ FailCloseOutput \/ CloseAll \/ CloseOutput \/ StopTLS
      BY <3>3 DEF WriteDataToNetwork, ChannelClose, ChannelCloseOutput, RemovalFuture,
         BufferWrite, Flush, Discard, InvokeCloseOutput, FailEncoded, FailCloseOutput, CloseAll,
         CloseOutput, StopTLS
    <3>4. CASE DoUnbufferActions
      BY <3>4 DEF DoUnbufferActions
    <3>5. CASE DoHandshakeStep \/ DoShutdownStep
      BY <3>5 DEF DoHandshakeStep, DoShutdownStep
    <3>6. CASE DoDecodeData \/ AfterZeroReturn
      BY <3>6 DEF DoDecodeData, AfterZeroReturn
    <3>7. CASE ShutdownIncomplete \/ HandshakeIncomplete \/ DoFlushReadData
      BY <3>7 DEF ShutdownIncomplete, HandshakeIncomplete, DoFlushReadData
    <3> QED BY <2>1, <3>1, <3>2, <3>3, <3>4, <3>5, <3>6, <3>7 DEF Handler
  <2>2. CASE Channel
    BY <2>2 DEF Channel, ChannelActive, ConnectFails, ChannelInactive, HandlerRemoved,
       ChannelRead, ChannelReadComplete, InputClosedTriggered, ChannelFulfills
  <2>3. CASE Return \/ User \/ ResumeHandshake \/ TimedOutShutdown
    BY <2>3 DEF User, Return, UserCalls, UserFlushes, ResumeHandshake, TimedOutShutdown,
       CompletedAdditionalPeerCertificateVerification
  <2> QED BY <2>1, <2>2, <2>3 DEF Next
<1>2. /\ Pending(stack) \subseteq EarlyOps /\ ~readPending
      /\ state = "idle" \/ TopOp(stack) \in {"contextClose", "channelUnwrap"}
  BY <1>1 DEF Unconnected
<1>3. conn.inInit /\ conn.verify = "notStarted" /\ pendingAdditional = 0
  BY <1>1 DEF TrustInv, StackAgrees, Counts
<1> USE DEF EarlyOps, Pops, Goes, Drops, Starts, Pushes, envVars
<1>4. CASE Return
  BY <1>2, <1>4, NetworkStack DEF Return
<1>5. CASE ContextClose
  BY <1>1, <1>5 DEF ContextClose
<1>6. CASE ContextCloseOutput
  BY <1>2, <1>6, NetworkStack DEF ContextCloseOutput
<1>7. CASE BufferWrite
  BY <1>2, <1>7, BufferStack DEF BufferWrite
<1>8. CASE Flush
  BY <1>2, <1>8, BufferStack DEF Flush, BuffersFlush
<1>9. CASE CloseAll
  BY <1>2, <1>9, CloseStack DEF CloseAll
<1>10. CASE CloseOutput
  BY <1>2, <1>10, CloseStack DEF CloseOutput
<1>11. CASE StopTLS
  BY <1>1, <1>2, <1>11, CloseStack DEF StopTLS
<1>12. CASE ChannelUnwrap
  BY <1>12 DEF ChannelUnwrap, Crash, Fatals
<1>13. CASE UserFlushes
  BY <1>2, <1>13, UserStack DEF UserFlushes, CallsOut
<1>14. CASE \E op \in {"write", "closeAll", "closeOutput", "stopTLS"} : UserCalls(op)
  <2>1. PICK op \in {"write", "closeAll", "closeOutput", "stopTLS"} : UserCalls(op)
    BY <1>14
  <2>2. CallsOut /\ Pushes({op}, op)
    BY <2>1, UserStack
  <2> QED BY <1>2, <2>1, <2>2 DEF UserCalls, CallsOut
<1>15. CASE CompletedAdditionalPeerCertificateVerification \/ ResumeHandshake
  BY <1>3, <1>15 DEF CompletedAdditionalPeerCertificateVerification, ResumeHandshake
<1>16. CASE TimedOutShutdown
  BY <1>2, <1>16, UserStack DEF TimedOutShutdown
<1>17. CASE ChannelFulfills
  BY <1>2, <1>17 DEF ChannelFulfills
<1>18. CASE ChannelActive \/ ConnectFails \/ ChannelInactive \/ HandlerRemoved
            \/ ChannelRead \/ ChannelReadComplete \/ InputClosedTriggered
  BY <1>1, <1>2, <1>18 DEF ChannelActive, ConnectFails, ChannelInactive, HandlerRemoved,
     ChannelRead, ChannelReadComplete, InputClosedTriggered
<1>19. TopOp(stack) \notin EarlyOps => ~Handler
  <2> SUFFICES ASSUME Handler, TopOp(stack) \notin EarlyOps PROVE FALSE
    OBVIOUS
  <2>1. stack # <<>>
    BY DEF Handler, Running, WriteDataToNetwork, ContextClose, ContextCloseOutput, ChannelClose,
       ChannelCloseOutput, ChannelUnwrap, RemovalFuture, BufferWrite, Flush, Discard,
       DoUnbufferActions, InvokeCloseOutput, FailEncoded, FailCloseOutput, CloseAll, CloseOutput,
       StopTLS, DoShutdownStep, ShutdownIncomplete, DoHandshakeStep, HandshakeIncomplete,
       DoDecodeData, AfterZeroReturn, DoFlushReadData
  <2>2. TopOp(stack) \in Pending(stack)
    BY <2>1, PendingTop DEF TypeOK, TopOp, Top, Pops
  <2> QED BY <1>2, <2>2
<1>20. CASE Handler
  <2>1. TopOp(stack) \in EarlyOps
    BY <1>19, <1>20
  <2> QED BY <1>5, <1>6, <1>7, <1>9, <1>10, <1>11, <1>12, <1>20, <1>8, <2>1, NetworkStack,
             EndStack, BufferStack, UnbufferStack, ShutdownStack, HandshakeStack,
             ReadStack DEF Handler
<1> QED BY <1>4, <1>13, <1>14, <1>15, <1>16, <1>17, <1>18, <1>20 DEF Next, Channel, User

\* Nothing more can be sent: the channel or its output is closed, or the
\* connection has ended our side of the stream.
Ended == ~Open \/ conn.writeShutdown # "none"

\* Actions are discarded when nothing more can be sent, or not before the
\* calls that see to it.
Guarded == Ended \/ Covered(stack) \/ (TopOp(stack) = "doShutdownStep" /\ state = "outputClosed")

\* What has ended does not open again.
LEMMA NextEnded ==
    ASSUME TypeOK, TrustInv, Next
    PROVE  (Open' => Open) /\ (Ended => Ended')
<1>1. Open' => Open
  BY DEF Open, Next, Handler, Channel, User, Return, WriteDataToNetwork, ContextClose,
     ContextCloseOutput, ChannelClose, ChannelCloseOutput, ChannelUnwrap, RemovalFuture,
     BufferWrite, Flush, Discard, DoUnbufferActions, InvokeCloseOutput, FailEncoded,
     FailCloseOutput, CloseAll, CloseOutput, StopTLS, DoShutdownStep, ShutdownIncomplete,
     DoHandshakeStep, HandshakeIncomplete, DoDecodeData, AfterZeroReturn, DoFlushReadData,
     ChannelActive, ConnectFails, ChannelInactive, HandlerRemoved, ChannelRead,
     ChannelReadComplete, InputClosedTriggered, ChannelFulfills, UserCalls, UserFlushes,
     CompletedAdditionalPeerCertificateVerification, ResumeHandshake, TimedOutShutdown, chanVars
<1>2. conn \in Connection
  BY DEF TypeOK
<1> USE DEF Advances
<1>3. CASE WriteDataToNetwork \/ RemovalFuture \/ HandlerRemoved \/ ChannelUnwrap
           \/ ChannelRead \/ ResumeHandshake
  <2>1. conn'.writeShutdown = "none" => conn.writeShutdown = "none"
    BY <1>2, <1>3, ConnectionOpsTrust DEF WriteDataToNetwork, RemovalFuture, HandlerRemoved,
       ChannelUnwrap, ChannelRead, ResumeHandshake
  <2> QED BY <1>1, <2>1 DEF Ended
<1>4. CASE DoUnbufferActions
  <2> DEFINE a == Head(bufferedActions)
             d == EncodeSingleWrite(conn, a).conn
  <2>1. Pops("doUnbufferActions") /\ (UNCHANGED conn \/ (marked > 0 /\ conn' = d))
    BY <1>4, UnbufferStack DEF DoUnbufferActions
  <2>2. LastFlight(conn) /\ (conn.inInit => Quiet(conn))
    BY <2>1 DEF Pops, TrustInv, Waits
  <2>3. CASE marked > 0 /\ conn' = d
    <3>1. a \in Action
      BY <2>3 DEF TypeOK
    <3> HIDE DEF a
    <3>2. d.writeShutdown = "none" => conn.writeShutdown = "none"
      BY <1>2, <2>2, <3>1, EncodeTrust
    <3> HIDE DEF d
    <3> QED BY <1>1, <2>3, <3>2 DEF Ended
  <2> QED BY <1>1, <2>1, <2>3 DEF Ended
<1>5. CASE DoShutdownStep \/ DoDecodeData
  <2>1. conn'.writeShutdown = "none" => conn.writeShutdown = "none"
    BY <1>2, <1>5, DoShutdownTrust, ReadDataTrust DEF DoShutdownStep, DoDecodeData
  <2> QED BY <1>1, <2>1 DEF Ended
<1>6. CASE DoHandshakeStep
  <2>1. conn' = DoHandshake(conn).conn /\ LastFlight(conn)
    BY <1>6 DEF DoHandshakeStep, TrustInv
  <2>2. conn'.writeShutdown = "none" => conn.writeShutdown = "none"
    BY <1>2, <2>1, DoHandshakeTrust
  <2> QED BY <1>1, <2>2 DEF Ended
<1>7. CASE UNCHANGED conn
  BY <1>1, <1>7 DEF Ended
<1> QED BY ConnSteps, <1>1, <1>3, <1>4, <1>5, <1>6, <1>7

\* Every action keeps Guarded.
LEMMA NextGuarded ==
    ASSUME TypeOK, TypeOK', TrustInv, Unconnected, Guarded, Next, fatal' = "none"
    PROVE  Guarded'
<1> SUFFICES ASSUME ~Ended, ~Ended' PROVE Guarded'
  BY NextEnded DEF Guarded
<1>1. Open /\ conn.writeShutdown = "none" /\ Open' /\ conn'.writeShutdown = "none"
  BY DEF Ended
<1>2. stack' \in Seq(Frame) /\ conn \in Connection /\ stack \in Seq(Frame)
  BY DEF TypeOK
<1>3. /\ TopOp(stack') \in SealOps => Guarded'
      /\ "discard" \notin Pending(stack') => Guarded'
      /\ Covered(stack') => Guarded'
  BY <1>2, CoveredTop DEF Guarded
<1>4. CASE TopOp(stack) = "doShutdownStep" /\ state = "outputClosed"
  <2>1. Running("doShutdownStep")
    BY <1>4, NextRuns DEF TopOp, Top, Running
  <2>2. DoShutdownStep
    BY <2>1, Dispatch DEF Ops, Handler, WriteDataToNetwork, ContextClose, ContextCloseOutput,
       ChannelClose, RemovalFuture, ChannelCloseOutput, ChannelUnwrap, BufferWrite, FailEncoded,
       FailCloseOutput, CloseAll, StopTLS, DoUnbufferActions, Flush, ShutdownIncomplete,
       DoHandshakeStep, HandshakeIncomplete, DoDecodeData, AfterZeroReturn, DoFlushReadData,
       Discard, InvokeCloseOutput, CloseOutput
  <2>3. conn' = DoShutdown(conn).conn
    BY <1>4, <2>2 DEF DoShutdownStep
  <2>4. conn.inInit
    BY <1>1, <1>2, <2>3, DoShutdownTrust
  <2>5. DoShutdown(conn).res = "complete"
    BY <1>2, <2>4, DoShutdownTrust
  <2>6. Goes({"writeDataToNetwork", "callout", "channelCloseOutput"}, "writeDataToNetwork")
    BY <1>4, <2>2, <2>5, ShutdownStack DEF ShutdownEnd, TargetComplete, Fatals
  <2> QED BY <1>3, <2>6 DEF Goes, SealOps
<1>5. CASE Covered(stack)
  <2> USE <1>3, <1>5 DEF Pops, Goes, Drops, Starts, Pushes, SealOps
  <2>1. CASE WriteDataToNetwork
    BY <2>1, NetworkStack
  <2>2. CASE Return
    BY <2>2, NetworkStack
  <2>3. CASE ContextClose
    BY <1>1, <2>3 DEF ContextClose, Open
  <2>4. CASE ContextCloseOutput
    <3>1. ~Writable /\ channel = "registered" /\ ~removed
      BY <1>1, <2>4 DEF ContextCloseOutput, Open, Writable, TypeOK
    <3>2. Pending(stack) \subseteq EarlyOps
      BY <3>1 DEF Unconnected
    <3> QED BY <2>4, <3>2, NetworkStack DEF EarlyOps
  <2>5. CASE ChannelClose \/ ChannelCloseOutput
    BY <2>5, EndStack
  <2>6. CASE RemovalFuture
    BY <2>6, EndStack
  <2>7. CASE ChannelUnwrap
    BY <1>1, <2>7 DEF ChannelUnwrap, Crash, Open
  <2>8. CASE BufferWrite \/ Flush \/ Discard \/ FailEncoded \/ FailCloseOutput
    BY <2>8, BufferStack
  <2>9. CASE InvokeCloseOutput
    BY <2>9, BufferStack DEF InvokeCloseOutput, Enter, Guarded
  <2>10. CASE CloseAll \/ CloseOutput \/ StopTLS
    BY <2>10, CloseStack
  <2>11. CASE DoUnbufferActions
    BY <2>11, UnbufferStack
  <2>12. CASE DoShutdownStep
    BY <2>12, ShutdownStack DEF ShutdownEnd, TargetComplete, Fatals
  <2>13. CASE DoHandshakeStep
    BY <2>13, HandshakeStack
  <2>14. CASE DoDecodeData \/ AfterZeroReturn \/ DoFlushReadData \/ HandshakeIncomplete
              \/ ShutdownIncomplete
    BY <2>14, ReadStack
  <2>15. CASE Channel
    <3>1. ~ChannelInactive
      BY <1>1 DEF ChannelInactive, Open
    <3> QED BY <2>15, <3>1, ChannelStack DEF Channel
  <2>16. CASE User \/ ResumeHandshake \/ TimedOutShutdown
    <3>1. CASE \E op \in {"write", "closeAll", "closeOutput", "stopTLS"} : UserCalls(op)
      BY <3>1, UserStack
    <3> QED BY <2>16, <3>1, UserStack DEF User
  <2> QED BY <2>1, <2>2, <2>3, <2>4, <2>5, <2>6, <2>7, <2>8, <2>9, <2>10, <2>11, <2>12, <2>13,
              <2>14, <2>15, <2>16 DEF Next, Handler
<1> QED BY <1>4, <1>5 DEF Guarded

\* While something can be sent no action is discarded.
LEMMA NoDiscard ==
    ASSUME TypeOK, Guarded, ~Ended PROVE ~Discard
<1> SUFFICES ASSUME Discard PROVE FALSE
  OBVIOUS
<1>1. Pops("discard")
  BY BufferStack
<1> QED BY <1>1 DEF Pops, Guarded

-----------------------------------------------------------------------------
\* What was handed to the channel, and what waits to be.
Sent == wire \o conn.outbound

\* A step writes records, none of them data.
AddsPlain == \E t \in Seq(Record) : NoData(t) /\ Sent' = Sent \o t

\* The action at the head of the buffer is a slice that will be sent.
Carries(a) == a.kind = "write" /\ ~a.empty

\* A step writes the slice at the head of the buffer, and takes it out.
AddsSlice ==
    LET a == Head(bufferedActions)
        x == DataRecord(a.id, a.n)
    IN  /\ Carries(a) /\ x \in Record /\ IsData(x) /\ conn'.writeShutdown = "none"
        /\ \E t \in Seq(Record) : NoData(t) /\ Sent' = Append(Sent \o t, x)
PopsBuffer == bufferedActions # <<>> /\ bufferedActions' = Tail(bufferedActions)
  /\ UNCHANGED writes

\* One round of the loop in doUnbufferActions: nothing is taken out, an action
\* that carries no data, or the next slice, which is then written.
LEMMA UnbufferFlow ==
    ASSUME TypeOK, DoUnbufferActions
    PROVE  LET a == Head(bufferedActions)
               x == DataRecord(a.id, a.n)
           IN  \/ UNCHANGED <<bufferedActions, writes, wire>> /\ Plain(conn, conn')
               \/ PopsBuffer /\ ~Carries(a) /\ UNCHANGED wire /\ Plain(conn, conn')
               \/ /\ PopsBuffer /\ Carries(a) /\ UNCHANGED wire
                  /\ x \in Record /\ IsData(x) /\ conn'.writeShutdown = "none"
                  /\ \E d \in Connection : Plain(conn, d) /\ conn'.outbound = Append(d.outbound, x)
<1> DEFINE a == Head(bufferedActions)
           x == DataRecord(a.id, a.n)
           w == EncodeSingleWrite(conn, a)
<1>1. conn \in Connection /\ UNCHANGED <<writes, wire>>
  BY DEF TypeOK, DoUnbufferActions, histVars
<1>2. marked > 0 => bufferedActions # <<>> /\ a \in Action
  BY DEF TypeOK
<1>3. conn' = conn => Plain(conn, conn')
  BY <1>1, OutboundType, PlainRules
<1>4. \/ UNCHANGED <<bufferedActions, conn>>
      \/ marked > 0 /\ PopsBuffer /\ a.kind = "closeOutput" /\ UNCHANGED conn
      \/ marked > 0 /\ PopsBuffer /\ a.kind = "write" /\ w.res = "complete" /\ conn' = w.conn
      \/ /\ marked > 0 /\ UNCHANGED bufferedActions /\ w.res # "complete" /\ conn' = w.conn
  BY <1>1, <1>2 DEF DoUnbufferActions, PopAction, PopsBuffer, bufVars
<1>5. marked > 0 =>
        \/ Plain(conn, w.conn) /\ (w.res = "complete" => a.empty)
        \/ /\ w.res = "complete" /\ ~a.empty /\ x \in Record /\ IsData(x)
           /\ w.conn.writeShutdown = "none"
           /\ \E d \in Connection : Plain(conn, d) /\ w.conn.outbound = Append(d.outbound, x)
  <2> HIDE DEF a
  <2> QED BY <1>1, <1>2, EncodeFlow
<1> HIDE DEF a, x, w
<1>6. SUFFICES \/ UNCHANGED <<bufferedActions, writes, wire>> /\ Plain(conn, conn')
               \/ PopsBuffer /\ ~Carries(a) /\ UNCHANGED wire /\ Plain(conn, conn')
               \/ /\ PopsBuffer /\ Carries(a) /\ UNCHANGED wire
                  /\ x \in Record /\ IsData(x) /\ conn'.writeShutdown = "none"
                  /\ \E d \in Connection : Plain(conn, d) /\ conn'.outbound = Append(d.outbound, x)
  BY DEF a, x
<1> QED BY <1>1, <1>3, <1>4, <1>5 DEF Carries

\* Concatenation is associative.
LEMMA RecordsConcat ==
    \A a, b, c \in Seq(Record) : (a \o b) \o c = a \o (b \o c)
BY ConcatAssociative

\* What the connection writes comes behind all it wrote before.
LEMMA PlainSent ==
    ASSUME TypeOK, UNCHANGED wire
    PROVE  /\ Plain(conn, conn') => AddsPlain
           /\ \A x \in Record, d \in Connection :
                Plain(conn, d) /\ conn'.outbound = Append(d.outbound, x)
                  => \E t \in Seq(Record) : NoData(t) /\ Sent' = Append(Sent \o t, x)
<1>1. wire \in Seq(Record) /\ conn.outbound \in Seq(Record)
  BY OutboundType DEF TypeOK
<1> DEFINE o == conn.outbound
<1>2. o \in Seq(Record) /\ Sent = wire \o o /\ Sent' = wire \o conn'.outbound
  BY <1>1 DEF Sent
<1>3. ASSUME Plain(conn, conn') PROVE AddsPlain
  <2>1. PICK t \in Seq(Record) : NoData(t) /\ conn'.outbound = o \o t
    BY <1>3 DEF Plain
  <2> HIDE DEF o
  <2>2. (wire \o o) \o t = wire \o (o \o t)
    BY <1>1, <1>2, RecordsConcat, Zenon
  <2> QED BY <1>2, <2>1, <2>2 DEF AddsPlain
<1>4. ASSUME NEW x \in Record, NEW d \in Connection, Plain(conn, d),
             conn'.outbound = Append(d.outbound, x)
      PROVE  \E t \in Seq(Record) : NoData(t) /\ Sent' = Append(Sent \o t, x)
  <2>1. PICK t \in Seq(Record) : NoData(t) /\ d.outbound = o \o t
    BY <1>4 DEF Plain
  <2>2. conn'.outbound = Append(o \o t, x)
    BY <1>4, <2>1
  <2> HIDE DEF o
  <2>3. wire \o (o \o t) = (wire \o o) \o t /\ o \o t \in Seq(Record)
    <3>1. (wire \o o) \o t = wire \o (o \o t)
      BY <1>1, <1>2, RecordsConcat, Zenon
    <3>2. o \o t \in Seq(Record)
      BY <1>2
    <3> QED BY <3>1, <3>2
  <2>4. \A u \in Seq(Record) : wire \o Append(u, x) = Append(wire \o u, x)
    BY <1>1
  <2>5. wire \o Append(o \o t, x) = Append((wire \o o) \o t, x)
    BY <2>3, <2>4
  <2> QED BY <1>2, <2>1, <2>2, <2>5
<1> QED BY <1>3, <1>4

\* Only the loop writes data, and what leaves is all that is ready.
LEMMA SentSteps ==
    ASSUME TypeOK, TrustInv, Unconnected, Next
    PROVE  /\ UNCHANGED wire \/ (Open /\ wire' = Sent)
           /\ Open' /\ ~DoUnbufferActions => AddsPlain
           /\ DoUnbufferActions =>
                \/ UNCHANGED <<bufferedActions, writes>> /\ AddsPlain
                \/ PopsBuffer /\ ~Carries(Head(bufferedActions)) /\ AddsPlain
                \/ PopsBuffer /\ AddsSlice
<1>1. wire \in Seq(Record) /\ conn \in Connection /\ conn.outbound \in Seq(Record)
  BY OutboundType DEF TypeOK
<1>2. conn' = conn => Plain(conn, conn')
  BY <1>1, PlainRules
<1>3. ASSUME Sent' = Sent PROVE AddsPlain
  <2>1. NoData(<<>>) /\ <<>> \in Seq(Record) /\ Sent \o <<>> = Sent
    BY <1>1 DEF NoData, Sent
  <2> QED BY <1>3, <2>1 DEF AddsPlain
<1>4. CASE WriteDataToNetwork
  <2>1. ~DoUnbufferActions
    BY <1>4 DEF WriteDataToNetwork, DoUnbufferActions, Running
  <2>2. CASE UNCHANGED <<conn, wire>>
    BY <1>3, <2>1, <2>2 DEF Sent
  <2>3. CASE conn' = GetDataForNetwork(conn)
          /\ wire' = IF Writable THEN wire \o conn.outbound ELSE wire
    <3>1. conn'.outbound = <<>>
      BY <1>1, <2>3, ConnectionOpsTrust
    <3>2. UNCHANGED chanVars /\ UNCHANGED removed
      BY <1>4 DEF WriteDataToNetwork
    <3>3. Open => channel = "active"
      <4>1. "writeDataToNetwork" \in Pending(stack)
        BY <1>4, NetworkStack DEF Pops
      <4> QED BY <4>1 DEF Open, Unconnected, EarlyOps, TypeOK
    <3>4. Open <=> Writable
      BY <3>3 DEF Open, Writable
    <3>5. Writable => Sent' = Sent /\ wire' = Sent
      BY <1>1, <2>3, <3>1 DEF Sent
    <3>6. Open' => Open
      BY <3>2 DEF Open, chanVars
    <3> QED BY <1>3, <2>1, <2>3, <3>4, <3>5, <3>6
  <2> QED BY <1>4, <2>2, <2>3 DEF WriteDataToNetwork
<1>5. CASE DoUnbufferActions
  <2> DEFINE a == Head(bufferedActions)
             x == DataRecord(a.id, a.n)
  <2>1. UNCHANGED wire
    BY <1>5 DEF DoUnbufferActions
  <2>2. \/ UNCHANGED <<bufferedActions, writes>> /\ Plain(conn, conn')
        \/ PopsBuffer /\ ~Carries(a) /\ Plain(conn, conn')
        \/ /\ PopsBuffer /\ Carries(a)
           /\ x \in Record /\ IsData(x) /\ conn'.writeShutdown = "none"
           /\ \E d \in Connection : Plain(conn, d) /\ conn'.outbound = Append(d.outbound, x)
    BY <1>5, UnbufferFlow
  <2>3. AddsSlice <=> /\ Carries(a) /\ x \in Record /\ IsData(x) /\ conn'.writeShutdown = "none"
                      /\ \E t \in Seq(Record) : NoData(t) /\ Sent' = Append(Sent \o t, x)
    BY DEF AddsSlice
  <2> HIDE DEF x
  <2>4. /\ Plain(conn, conn') => AddsPlain
        /\ (\E d \in Connection : Plain(conn, d) /\ conn'.outbound = Append(d.outbound, x))
                /\ x \in Record =>
                \E t \in Seq(Record) : NoData(t) /\ Sent' = Append(Sent \o t, x)
    BY <2>1, PlainSent
  <2> HIDE DEF a
  <2>5. \/ UNCHANGED <<bufferedActions, writes>> /\ AddsPlain
        \/ PopsBuffer /\ ~Carries(a) /\ AddsPlain
        \/ PopsBuffer /\ AddsSlice
    BY <2>2, <2>3, <2>4
  <2> QED BY <1>5, <2>1, <2>5 DEF a
<1>6. ASSUME UNCHANGED wire, Plain(conn, conn'), ~DoUnbufferActions
      PROVE  AddsPlain
  BY <1>6, PlainSent
<1>7. CASE UNCHANGED conn /\ ~WriteDataToNetwork /\ ~DoUnbufferActions
  <2>1. UNCHANGED wire
    BY <1>7 DEF Next, Handler, Channel, User, Return, ContextClose, ContextCloseOutput,
       ChannelClose, ChannelCloseOutput, ChannelUnwrap, RemovalFuture, BufferWrite, Flush,
       Discard, InvokeCloseOutput, FailEncoded, FailCloseOutput, CloseAll, CloseOutput, StopTLS,
       DoShutdownStep, ShutdownIncomplete, DoHandshakeStep, HandshakeIncomplete, DoDecodeData,
       AfterZeroReturn, DoFlushReadData, ChannelActive, ConnectFails, ChannelInactive,
       HandlerRemoved, ChannelRead, ChannelReadComplete, InputClosedTriggered, ChannelFulfills,
       UserCalls, UserFlushes, CompletedAdditionalPeerCertificateVerification, ResumeHandshake,
       TimedOutShutdown
  <2> QED BY <1>3, <1>7, <2>1 DEF Sent
<1>8. CASE RemovalFuture \/ HandlerRemoved \/ ChannelUnwrap \/ ChannelRead \/ ResumeHandshake
  <2>1. UNCHANGED wire /\ ~DoUnbufferActions
    BY <1>8 DEF RemovalFuture, HandlerRemoved, ChannelUnwrap, ChannelRead, ResumeHandshake,
       MayResume, DoUnbufferActions, Running, Idle
  <2>2. conn'.outbound = conn.outbound
    BY <1>1, <1>8 DEF RemovalFuture, HandlerRemoved, ChannelUnwrap, ChannelRead, ResumeHandshake,
       ExtractUnconsumedData, CloseConnection, ConsumeDataFromNetwork, SetVerification, Connection
  <2> QED BY <1>3, <2>1, <2>2 DEF Sent
<1>9. CASE DoShutdownStep \/ DoDecodeData \/ DoHandshakeStep
  <2>1. UNCHANGED wire /\ ~DoUnbufferActions
    BY <1>9 DEF DoShutdownStep, DoDecodeData, DoHandshakeStep, DoUnbufferActions, Running
  <2>2. CASE DoShutdownStep
    <3>1. conn' = conn \/ conn' = DoShutdown(conn).conn
      BY <2>2 DEF DoShutdownStep
    <3>2. Plain(conn, conn')
      BY <1>1, <1>2, <3>1, DoShutdownPlain
    <3> QED BY <1>6, <2>1, <3>2
  <2>3. CASE DoDecodeData
    <3>1. conn' = ReadData(conn).conn
      BY <2>3 DEF DoDecodeData
    <3>2. Plain(conn, conn')
      BY <1>1, <3>1, ReadDataPlain
    <3> QED BY <1>6, <2>1, <3>2
  <2>4. CASE DoHandshakeStep
    <3>1. conn' = DoHandshake(conn).conn
      BY <2>4 DEF DoHandshakeStep
    <3>2. Plain(conn, conn')
      BY <1>1, <3>1, DoHandshakePlain
    <3> QED BY <1>6, <2>1, <3>2
  <2> QED BY <1>9, <2>2, <2>3, <2>4
<1> QED BY ConnSteps, <1>4, <1>5, <1>7, <1>8, <1>9

-----------------------------------------------------------------------------
\* The buffer grows by d and the history of the writes by v, the records that
\* the actions of d become: none, or one for each.
Grows(d, v) ==
    /\ bufferedActions' = bufferedActions \o d /\ writes' = writes \o v
    /\ \/ Len(v) = 0 /\ CarriesAt(d) = {}
       \/ Len(v) = Len(d) /\ CarriesAt(d) = 1..Len(d)
    /\ \A i \in CarriesAt(d) : v[i] = DataRecord(d[i].id, d[i].n)

\* The actions of one write stand for its records, and the last has its promise.
LEMMA WriteGrows ==
    ASSUME NEW n \in Nat, NEW id \in Promises
    PROVE  LET d == SliceActions(id, n)
               v == ExpectedRecords(id, n)
           IN  /\ d \in Seq(Action) /\ v \in Seq(Record)
               /\ \/ n = 0 /\ Len(v) = 0 /\ CarriesAt(d) = {}
                  \/ n # 0 /\ Len(v) = Len(d) /\ CarriesAt(d) = 1..Len(d)
               /\ \A i \in CarriesAt(d) : v[i] = DataRecord(d[i].id, d[i].n)
               /\ \A i \in 1..Len(d) : d[i].p = {} \/ (i = Len(d) /\ d[i].p = {id})
               /\ \A i \in 1..Len(v) : v[i].id = id
<1> DEFINE d == SliceActions(id, n)
           v == ExpectedRecords(id, n)
<1>1. d \in Seq(Action) /\ v \in Seq(Record)
  BY SliceActionsType, ExpectedRecordsType
<1>2. /\ Len(d) = Slices(n)
      /\ \A i \in 1..Slices(n) :
           d[i] = [kind |-> "write", id |-> id, n |-> i, empty |-> n = 0,
                   p |-> IF i = Slices(n) THEN {id} ELSE {}]
  <2>1. Slices(n) \in Nat
    BY SlicesType
  <2> HIDE DEF Slices
  <2> QED BY <2>1 DEF SliceActions
<1>3. Len(v) = Parts(n) /\ Parts(n) \in Nat /\ \A i \in 1..Parts(n) : v[i] = DataRecord(id, i)
  <2>1. Parts(n) \in Nat
    BY PartsAre, SlicesType
  <2> HIDE DEF Parts, DataRecord
  <2> QED BY <2>1 DEF ExpectedRecords
<1> HIDE DEF d, v
<1>4. \A i \in 1..Len(d) : /\ d[i].kind = "write" /\ d[i].id = id /\ d[i].n = i
                           /\ d[i].empty = (n = 0)
                           /\ d[i].p = {} \/ (i = Len(d) /\ d[i].p = {id})
  BY <1>2
<1>5. \/ n = 0 /\ Len(v) = 0 /\ CarriesAt(d) = {}
      \/ n # 0 /\ Len(v) = Len(d) /\ CarriesAt(d) = 1..Len(d)
  <2>1. CASE n = 0
    BY <1>3, <1>4, <2>1, PartsAre DEF CarriesAt
  <2>2. CASE n # 0
    <3>1. Len(v) = Len(d)
      BY <1>2, <1>3, <2>2, PartsAre
    <3> QED BY <1>4, <2>2, <3>1 DEF CarriesAt
  <2> QED BY <2>1, <2>2
<1>6. \A i \in CarriesAt(d) : v[i] = DataRecord(d[i].id, d[i].n)
  <2> SUFFICES ASSUME NEW i \in CarriesAt(d) PROVE v[i] = DataRecord(d[i].id, d[i].n)
    OBVIOUS
  <2>1. i \in 1..Len(d)
    BY DEF CarriesAt
  <2> QED BY <1>3, <1>4, <1>5, <2>1
<1>7. \A i \in 1..Len(v) : v[i].id = id
  BY <1>3 DEF DataRecord
<1> QED BY <1>1, <1>4, <1>5, <1>6, <1>7 DEF d, v

\* What a write adds, for its promise: slices that are behind what was there,
\* the promise with the last of them, and nothing else.
LEMMA WriteAdds ==
    ASSUME TypeOK, BufferWrite
    PROVE  \/ UNCHANGED <<bufferedActions, writes>>
           \/ \E id \in Top.p, d \in Seq(Action), v \in Seq(Record) :
                /\ Grows(d, v)
                /\ \A i \in 1..Len(d) : /\ d[i].p = {} \/ (i = Len(d) /\ d[i].p = {id})
                                        /\ d[i].empty => Len(v) = 0
                /\ \A k \in 1..Len(v) : v[k].id = id
<1>1. CASE state = "outputClosed"
  BY <1>1 DEF BufferWrite
<1>2. CASE state # "outputClosed"
  <2>1. PICK id \in Top.p : /\ bufferedActions' = bufferedActions \o SliceActions(id, Top.n)
                            /\ writes' = writes \o ExpectedRecords(id, Top.n)
    BY <1>2 DEF BufferWrite
  <2>2. id \in Promises /\ Top.n \in Nat
    BY TopType DEF BufferWrite, Running, TypeOK, Frame
  <2> DEFINE d == SliceActions(id, Top.n)
             v == ExpectedRecords(id, Top.n)
  <2>3. /\ d \in Seq(Action) /\ v \in Seq(Record)
        /\ \/ Len(v) = 0 /\ CarriesAt(d) = {}
           \/ Len(v) = Len(d) /\ CarriesAt(d) = 1..Len(d)
        /\ \A i \in CarriesAt(d) : v[i] = DataRecord(d[i].id, d[i].n)
        /\ \A i \in 1..Len(d) : d[i].p = {} \/ (i = Len(d) /\ d[i].p = {id})
        /\ \A k \in 1..Len(v) : v[k].id = id
    BY <2>2, WriteGrows
  <2>4. bufferedActions' = bufferedActions \o d /\ writes' = writes \o v
    BY <2>1
  <2> HIDE DEF d, v
  <2>5. Grows(d, v)
    BY <2>3, <2>4 DEF Grows
  <2>6. \A i \in 1..Len(d) : d[i].empty => Len(v) = 0
    BY <2>3 DEF CarriesAt
  <2> QED BY <2>3, <2>5, <2>6
<1> QED BY <1>1, <1>2

\* Every other step takes the first action out of the buffer, or adds one that
\* has no promise.
LEMMA OthersBuffer ==
    ASSUME TypeOK, Next, ~BufferWrite
    PROVE  /\ UNCHANGED writes
           /\ \/ UNCHANGED bufferedActions
              \/ /\ DoUnbufferActions \/ Discard
                 /\ bufferedActions # <<>> /\ bufferedActions' = Tail(bufferedActions)
              \/ bufferedActions' = Append(bufferedActions, CloseOutputAction)
<1>1. CASE DoUnbufferActions
  BY <1>1, UnbufferFlow DEF PopsBuffer
<1>2. CASE CloseOutput \/ Discard
  BY <1>2 DEF CloseOutput, Discard, bufVars, histVars
<1>3. CASE \/ WriteDataToNetwork \/ ContextClose \/ ContextCloseOutput \/ ChannelClose
           \/ ChannelCloseOutput \/ ChannelUnwrap \/ RemovalFuture \/ Flush \/ InvokeCloseOutput
           \/ FailEncoded \/ FailCloseOutput \/ CloseAll \/ StopTLS \/ ShutdownIncomplete
           \/ HandshakeIncomplete \/ AfterZeroReturn \/ DoFlushReadData
  BY <1>3 DEF bufVars, histVars, WriteDataToNetwork, ContextClose, ContextCloseOutput,
     ChannelClose, ChannelCloseOutput, ChannelUnwrap, RemovalFuture, Flush, InvokeCloseOutput,
     FailEncoded, FailCloseOutput, CloseAll, StopTLS, ShutdownIncomplete, HandshakeIncomplete,
     AfterZeroReturn, DoFlushReadData
<1>4. CASE DoShutdownStep \/ DoHandshakeStep \/ DoDecodeData
  BY <1>4 DEF bufVars, histVars, DoShutdownStep, DoHandshakeStep, DoDecodeData
<1>5. CASE Return \/ Channel \/ User \/ ResumeHandshake \/ TimedOutShutdown
  BY <1>5 DEF bufVars, histVars, Return, Channel, User, ChannelActive, ConnectFails,
     ChannelInactive, HandlerRemoved, ChannelRead, ChannelReadComplete, InputClosedTriggered,
     ChannelFulfills, UserCalls, UserFlushes, CompletedAdditionalPeerCertificateVerification,
     ResumeHandshake, TimedOutShutdown
<1> QED BY <1>1, <1>2, <1>3, <1>4, <1>5 DEF Next, Handler

\* closeOutput, buffered during the handshake: it carries neither data nor a
\* promise.
LEMMA CloseOutputBuffered ==
    ASSUME NEW b \in Seq(Action), NEW w \in Seq(Record)
    PROVE  LET d == <<CloseOutputAction>>
           IN  /\ d \in Seq(Action) /\ Len(d) = 1 /\ d[1].p = {} /\ CarriesAt(d) = {}
               /\ Append(b, CloseOutputAction) = b \o d
               /\ <<>> \in Seq(Record) /\ Len(<<>>) = 0 /\ w \o <<>> = w
<1>1. CloseOutputAction \in Action /\ CloseOutputAction.kind = "closeOutput"
      /\ CloseOutputAction.p = {}
  BY DEF CloseOutputAction, Action
<1> HIDE DEF CloseOutputAction
<1> DEFINE d == <<CloseOutputAction>>
<1>2. d \in Seq(Action) /\ Len(d) = 1 /\ d[1] = CloseOutputAction
  BY <1>1
<1>3. Append(b, CloseOutputAction) = b \o d
  BY <1>1
<1>4. <<>> \in Seq(Record) /\ Len(<<>>) = 0 /\ w \o <<>> = w
  OBVIOUS
<1> HIDE DEF d
<1>5. CarriesAt(d) = {}
  BY <1>1, <1>2 DEF CarriesAt
<1> QED BY <1>1, <1>2, <1>3, <1>4, <1>5 DEF d

\* What a step does to the buffer.
LEMMA BufferSteps ==
    ASSUME TypeOK, Next
    PROVE  \/ UNCHANGED <<bufferedActions, writes>>
           \/ DoUnbufferActions
           \/ Discard /\ UNCHANGED writes
           \/ ~DoUnbufferActions /\ \E d \in Seq(Action), v \in Seq(Record) : Grows(d, v)
<1>1. CASE BufferWrite
  <2>1. ~DoUnbufferActions
    BY <1>1 DEF BufferWrite, DoUnbufferActions, Running
  <2> QED BY <1>1, <2>1, WriteAdds
<1>2. CASE UNCHANGED writes /\ bufferedActions' = Append(bufferedActions, CloseOutputAction)
  <2> DEFINE d == <<CloseOutputAction>>
             v == <<>>
  <2>1. bufferedActions \in Seq(Action) /\ writes \in Seq(Record)
    BY DEF TypeOK
  <2>2. /\ d \in Seq(Action) /\ CarriesAt(d) = {} /\ v \in Seq(Record) /\ Len(v) = 0
        /\ bufferedActions' = bufferedActions \o d /\ writes' = writes \o v
    BY <1>2, <2>1, CloseOutputBuffered
  <2> HIDE DEF d, v
  <2>3. Grows(d, v)
    BY <2>2 DEF Grows
  <2> QED BY <2>2, <2>3
<1> QED BY <1>1, <1>2, OthersBuffer

\* What left, and what the connection has ready while it can leave, is the
\* beginning of the writes; while more can be sent the buffer has the rest.
Flow == /\ InOrder(wire, writes)
        /\ fatal = "none" =>
             /\ Open => /\ InOrder(Sent, writes) /\ AllOut(Sent, writes)
                        /\ Total(Sent) <= Len(writes)
             /\ ~Ended => Follows(bufferedActions, Total(Sent), writes)

\* The slice at the head of the buffer is the next one.
LEMMA NextSlice ==
    ASSUME NEW b \in Seq(Action), b # <<>>, NEW t \in Nat, NEW w \in Seq(Record),
           Follows(b, t, w), Carries(Head(b))
    PROVE  t + 1 <= Len(w) /\ w[t + 1] = DataRecord(Head(b).id, Head(b).n)
<1>1. Head(b) = b[1] /\ 1 \in 1..Len(b)
  OBVIOUS
<1>2. 1 \in CarriesAt(b)
  BY <1>1 DEF Carries, CarriesAt
<1>3. DataRecord(b[1].id, b[1].n) = w[t + Number(CarriesAt(b), 1)]
  BY <1>2 DEF Follows
<1>4. t + 1 = t + Number(CarriesAt(b), 1) /\ t + 1 <= Len(w)
  BY <1>1, BufferPops DEF Carries
<1> QED BY <1>1, <1>3, <1>4

\* The types of what is compared.
LEMMA SentType ==
    ASSUME TypeOK PROVE /\ wire \in Seq(Record) /\ Sent \in Seq(Record) /\ Total(Sent) \in Nat
                        /\ writes \in Seq(Record) /\ bufferedActions \in Seq(Action)
<1>1. wire \in Seq(Record) /\ Sent \in Seq(Record)
  BY OutboundType DEF TypeOK, Sent
<1> QED BY <1>1, TotalType DEF TypeOK

\* Records that are not data leave the count of the slices alone.
LEMMA PlainTotal ==
    ASSUME TypeOK, AddsPlain
    PROVE  /\ Sent' \in Seq(Record) /\ Total(Sent') = Total(Sent)
           /\ InOrder(Sent, writes) => InOrder(Sent', writes)
           /\ AllOut(Sent, writes) => AllOut(Sent', writes)
<1>1. PICK t \in Seq(Record) : NoData(t) /\ Sent' = Sent \o t
  BY DEF AddsPlain
<1> QED BY <1>1, SentType, PlainGrows

\* A slice that is written is the next one of the writes.
LEMMA SliceTotal ==
    ASSUME TypeOK, TrustInv, Flow, Next, Open', PopsBuffer, AddsSlice
    PROVE  /\ ~Ended
           /\ Sent' \in Seq(Record) /\ Total(Sent') = Total(Sent) + 1
           /\ InOrder(Sent', writes) /\ AllOut(Sent', writes)
           /\ Total(Sent') <= Len(writes)
<1> DEFINE a == Head(bufferedActions)
           x == DataRecord(a.id, a.n)
<1>1. /\ Carries(a) /\ x \in Record /\ IsData(x) /\ conn'.writeShutdown = "none"
      /\ \E t \in Seq(Record) : NoData(t) /\ Sent' = Append(Sent \o t, x)
  BY DEF AddsSlice
<1>2. Open /\ ~Ended
  BY <1>1, NextEnded DEF Ended
<1>3. /\ Sent \in Seq(Record) /\ Total(Sent) \in Nat
      /\ writes \in Seq(Record) /\ bufferedActions \in Seq(Action)
  BY SentType
<1>4. /\ InOrder(Sent, writes) /\ AllOut(Sent, writes)
      /\ Follows(bufferedActions, Total(Sent), writes)
  BY <1>2, NextRuns DEF Flow
<1>5. Total(Sent) + 1 <= Len(writes) /\ writes[Total(Sent) + 1] = x
  BY <1>1, <1>3, <1>4, NextSlice DEF PopsBuffer
<1>6. PICK t \in Seq(Record) : NoData(t) /\ Sent' = Append(Sent \o t, x)
  BY <1>1
<1> DEFINE s == Sent \o t
<1>7. /\ s \in Seq(Record) /\ Total(s) = Total(Sent)
      /\ InOrder(s, writes) /\ AllOut(s, writes)
  BY <1>3, <1>4, <1>6, PlainGrows
<1>8. Sent' = Append(s, x)
  BY <1>6
<1> HIDE DEF a, x, s
<1>9. /\ Total(Append(s, x)) = Total(s) + 1
      /\ InOrder(s, writes) => InOrder(Append(s, x), writes)
      /\ AllOut(s, writes) => AllOut(Append(s, x), writes)
  BY <1>1, <1>3, <1>5, <1>7, DataGrows
<1>10. Sent' \in Seq(Record)
  BY <1>1, <1>7, <1>8
<1> QED BY <1>2, <1>5, <1>7, <1>8, <1>9, <1>10

\* Every action keeps Flow.
LEMMA NextFlow ==
    ASSUME TypeOK, TrustInv, Unconnected, Guarded, Flow, Next
    PROVE  Flow'
<1>1. /\ wire \in Seq(Record) /\ Sent \in Seq(Record) /\ Total(Sent) \in Nat
      /\ writes \in Seq(Record) /\ bufferedActions \in Seq(Action)
  BY SentType
<1>2. fatal = "none"
  BY NextRuns
<1>3. /\ InOrder(wire, writes)
      /\ Open => InOrder(Sent, writes) /\ AllOut(Sent, writes) /\ Total(Sent) <= Len(writes)
      /\ ~Ended => Follows(bufferedActions, Total(Sent), writes)
  BY <1>2 DEF Flow
<1>4. PICK v \in Seq(Record) : writes' = writes \o v
  <2>1. writes \o <<>> = writes /\ <<>> \in Seq(Record)
    BY <1>1
  <2>2. DoUnbufferActions => UNCHANGED writes
    BY DEF DoUnbufferActions, histVars
  <2>3. (\E d \in Seq(Action), v \in Seq(Record) : Grows(d, v))
          => \E v \in Seq(Record) : writes' = writes \o v
    BY DEF Grows
  <2> QED BY <2>1, <2>2, <2>3, BufferSteps
<1>5. (Open' => Open) /\ (Ended => Ended')
  BY NextEnded
<1>6. InOrder(wire', writes')
  <2>1. InOrder(wire', writes) /\ wire' \in Seq(Record)
    BY <1>1, <1>3, SentSteps
  <2> QED BY <1>1, <1>4, <2>1, WritesGrow
<1>7. ASSUME AddsPlain
      PROVE  /\ Sent' \in Seq(Record) /\ Total(Sent') = Total(Sent)
             /\ InOrder(Sent, writes) => InOrder(Sent', writes)
             /\ AllOut(Sent, writes) => AllOut(Sent', writes)
  BY <1>7, PlainTotal
<1>8. ASSUME Open', PopsBuffer, AddsSlice
      PROVE  /\ ~Ended
             /\ Sent' \in Seq(Record) /\ Total(Sent') = Total(Sent) + 1
             /\ InOrder(Sent', writes) /\ AllOut(Sent', writes)
             /\ Total(Sent') <= Len(writes)
  BY <1>8, SliceTotal
<1>9. ASSUME fatal' = "none", Open'
      PROVE  InOrder(Sent', writes') /\ AllOut(Sent', writes') /\ Total(Sent') <= Len(writes')
  <2>1. /\ Sent' \in Seq(Record) /\ InOrder(Sent', writes) /\ AllOut(Sent', writes)
        /\ Total(Sent') <= Len(writes)
    BY <1>3, <1>5, <1>7, <1>8, <1>9, SentSteps
  <2>2. Len(writes') = Len(writes) + Len(v) /\ Len(writes) \in Nat /\ Len(v) \in Nat
    BY <1>1, <1>4
  <2>3. Total(Sent') \in Nat
    BY <2>1, TotalType
  <2>4. Total(Sent') <= Len(writes')
    BY <2>1, <2>2, <2>3
  <2>5. \A s \in Seq(Record) : /\ InOrder(s, writes) => InOrder(s, writes \o v)
                               /\ AllOut(s, writes) /\ Total(s) <= Len(writes)
                                    => AllOut(s, writes \o v)
    BY <1>1, <1>4, WritesGrow
  <2> QED BY <1>4, <2>1, <2>4, <2>5
<1>10. ASSUME fatal' = "none", ~Ended' PROVE Follows(bufferedActions', Total(Sent'), writes')
  <2> DEFINE b == bufferedActions
             n == Total(Sent) + IF b[1].kind = "write" /\ ~b[1].empty THEN 1 ELSE 0
  <2>1. Open' /\ ~Ended /\ ~Discard /\ Follows(b, Total(Sent), writes)
    BY <1>3, <1>5, <1>10, NoDiscard DEF Ended
  <2>2. b # <<>> => Follows(Tail(b), n, writes) /\ b[1] = Head(b)
    BY <1>1, <2>1, BufferPops
  <2>3. CASE DoUnbufferActions
    <3>1. CASE UNCHANGED <<bufferedActions, writes>> /\ AddsPlain
      BY <1>7, <2>1, <3>1
    <3>2. CASE PopsBuffer /\ ~Carries(Head(bufferedActions)) /\ AddsPlain
      <4>1. n = Total(Sent)
        BY <1>1, <2>2, <3>2 DEF PopsBuffer, Carries
      <4> HIDE DEF n
      <4> QED BY <1>7, <2>2, <3>2, <4>1 DEF PopsBuffer
    <3>3. CASE PopsBuffer /\ AddsSlice
      <4>1. n = Total(Sent) + 1
        BY <2>2, <3>3 DEF PopsBuffer, AddsSlice, Carries
      <4> HIDE DEF n
      <4> QED BY <1>8, <2>1, <2>2, <3>3, <4>1 DEF PopsBuffer
    <3> QED BY <2>3, <3>1, <3>2, <3>3, SentSteps
  <2>4. CASE ~DoUnbufferActions
    <3>1. AddsPlain /\ Total(Sent') = Total(Sent)
      BY <1>7, <2>1, <2>4, SentSteps
    <3>2. CASE UNCHANGED <<bufferedActions, writes>>
      BY <2>1, <3>1, <3>2
    <3>3. ASSUME NEW d \in Seq(Action), NEW u \in Seq(Record), Grows(d, u)
          PROVE  Follows(b \o d, Total(Sent), writes \o u)
      BY <1>1, <2>1, <3>3, BufferGrows DEF Grows
    <3>4. CASE \E d \in Seq(Action), u \in Seq(Record) : Grows(d, u)
      BY <3>1, <3>3, <3>4 DEF Grows
    <3> QED BY <2>1, <2>4, <3>2, <3>4, BufferSteps
  <2> QED BY <2>3, <2>4
<1> QED BY <1>6, <1>9, <1>10 DEF Flow

Ordered == (fatal = "none" => Unconnected /\ Guarded) /\ Flow

\* The invariant holds at first.
LEMMA InitOrdered == Init => Ordered
<1> SUFFICES ASSUME Init PROVE Ordered
  OBVIOUS
<1> DEFINE f == Run("doHandshakeStep")
<1>1. f.op = "doHandshakeStep" /\ f \in Frame /\ \/ stack = <<>> /\ channel = "registered"
                                                 \/ stack = <<f>> /\ channel = "active"
  BY CallOps, CallType DEF Init, Ops, Run
<1>2. /\ conn.outbound = <<>> /\ wire = <<>> /\ writes = <<>> /\ bufferedActions = <<>>
      /\ state = "idle" /\ readPending = FALSE
  BY DEF Init, NewConnection
<1> HIDE DEF f
<1>3. Pending(stack) \subseteq {"doHandshakeStep"} /\ stack \in Seq(Frame)
      /\ (channel = "registered" => Pending(stack) = {})
  <2>1. Pending(<<f>>) = {f.op}
    BY PendingOne, Zenon
  <2>2. <<>> \in Seq(Frame) /\ <<f>> \in Seq(Frame)
    BY <1>1
  <2>3. CASE stack = <<>> /\ channel = "registered"
    BY <2>2, <2>3, PendingEmpty
  <2>4. CASE stack = <<f>> /\ channel = "active"
    BY <1>1, <2>1, <2>2, <2>4
  <2> QED BY <1>1, <2>3, <2>4
<1>4. Unconnected
  BY <1>2, <1>3 DEF Unconnected
<1>5. Guarded
  BY <1>3, CoveredTop DEF Guarded
<1>6. Sent = <<>> /\ DataAt(<<>>) = {} /\ CarriesAt(<<>>) = {}
  BY <1>2 DEF Sent, DataAt, CarriesAt
<1>7. Number({}, 0) = 0
  BY NumberStep
<1>8. Total(<<>>) = 0
  BY <1>6, <1>7 DEF Total
<1>9. InOrder(<<>>, <<>>) /\ AllOut(<<>>, <<>>) /\ Follows(<<>>, 0, <<>>)
  <2>1. InOrder(<<>>, <<>>)
    BY <1>6 DEF InOrder
  <2>2. 1..Total(<<>>) = {}
    BY <1>8
  <2>3. AllOut(<<>>, <<>>)
    BY <2>2 DEF AllOut
  <2>4. Number(CarriesAt(<<>>), Len(<<>>)) = 0 /\ Len(<<>>) = 0
    BY <1>6, <1>7
  <2>5. Follows(<<>>, 0, <<>>)
    BY <1>6, <2>4 DEF Follows
  <2> QED BY <2>1, <2>3, <2>5
<1> QED BY <1>2, <1>4, <1>5, <1>6, <1>8, <1>9 DEF Ordered, Flow

\* Every step keeps it.
LEMMA NextOrdered ==
    ASSUME TypeOK, TypeOK', Trusted, Ordered, [Next]_vars
    PROVE  Ordered'
<1>1. CASE UNCHANGED vars
  <2>1. UNCHANGED <<state, conn, stack, fatal, wire, removed, channel, outputOpen, readPending,
                    bufferedActions, writes>>
    BY <1>1 DEF vars, chanVars, envVars, bufVars, histVars
  <2>2. (Open' <=> Open) /\ (Ended' <=> Ended) /\ Sent' = Sent
    BY <2>1 DEF Open, Ended, Sent
  <2>3. (Unconnected => Unconnected') /\ (Guarded => Guarded')
    BY <2>1, <2>2 DEF Unconnected, Guarded
  <2> QED BY <2>1, <2>2, <2>3 DEF Ordered, Flow
<1>2. CASE Next
  <2>1. TrustInv /\ Unconnected /\ Guarded /\ Flow
    BY <1>2, NextRuns DEF Trusted, Ordered
  <2>2. fatal' = "none" => Unconnected' /\ Guarded'
    BY <1>2, <2>1, NextUnconnected, NextGuarded
  <2>3. Flow'
    BY <1>2, <2>1, NextFlow
  <2> QED BY <2>2, <2>3 DEF Ordered
<1> QED BY <1>1, <1>2

\* It holds in every behaviour.
LEMMA AlwaysOrdered == Spec => []Ordered
<1>1. Init => Ordered
  BY InitOrdered
<1>2. TypeOK /\ TypeOK' /\ Trusted /\ Ordered /\ [Next]_vars => Ordered'
  BY NextOrdered
<1> QED BY <1>1, <1>2, TypeCorrect, AlwaysTrusted, PTL DEF Spec

\* The slices of the user's writes reach the channel in the order of the
\* writes, none skipped, repeated or torn, whatever the user flushes, closes or
\* unwraps from its callbacks (bufferWrite, doUnbufferActions,
\* writeDataToNetwork, discardBufferedActions).
THEOREM WritesLeaveInOrder == Spec => []WritesInOrder
<1>1. TypeOK /\ Ordered => WritesInOrder
  <2> SUFFICES ASSUME TypeOK, InOrder(wire, writes), NEW i \in DOMAIN wire, IsData(wire[i])
               PROVE  LET n == Cardinality({j \in 1..i : IsData(wire[j])})
                      IN  n <= Len(writes) /\ wire[i] = writes[n]
    BY DEF Ordered, Flow, WritesInOrder
  <2>1. wire \in Seq(Record) /\ i \in 1..Len(wire) /\ Len(wire) \in Nat
    BY DEF TypeOK
  <2>2. DataAt(wire) \cap 1..i = {j \in 1..i : IsData(wire[j])}
    BY <2>1 DEF DataAt
  <2>3. i \in DataAt(wire)
    BY <2>1 DEF DataAt
  <2> QED BY <2>2, <2>3 DEF InOrder, Number
<1> QED BY <1>1, AlwaysOrdered, TypeCorrect, PTL

-----------------------------------------------------------------------------
\* A call that holds no promise, and is not a write.
Bare == {f \in Frame : f.p = {} /\ f.op # "write"}

\* What a step calls is in S.
Puts(S) == \A f \in Frames(stack') : f \in S \/ f \in Frames(stack)

\* Calls without a promise.
LEMMA BareRuns ==
    /\ \A op \in Ops : op # "write" => Run(op) \in Bare
    /\ Callout \in Bare /\ Netout \in Bare /\ TimedOutUnwrap \in Bare
    /\ \A e \in BOOLEAN : [Run("afterZeroReturn") EXCEPT !.e = e] \in Bare
<1>1. \A op \in Ops : op # "write" => Run(op) \in Bare
  BY DEF Run, Call, Frame, Bare
<1>2. Callout \in Bare /\ Netout \in Bare
  BY <1>1 DEF Callout, Netout, Ops
<1>3. TimedOutUnwrap \in Bare
  BY DEF TimedOutUnwrap, Run, Call, Frame, Bare, Ops
<1>4. \A e \in BOOLEAN : [Run("afterZeroReturn") EXCEPT !.e = e] \in Bare
  BY DEF Run, Call, Frame, Bare, Ops
<1> QED BY <1>1, <1>2, <1>3, <1>4

\* The calls of a stack that is put on another.
LEMMA FramesConcat ==
    ASSUME NEW S, NEW s \in Seq(S), NEW T, NEW t \in Seq(T)
    PROVE  \A f \in Frames(s \o t) : f \in S \/ f \in Frames(t)
<1> SUFFICES ASSUME NEW f \in Frames(s \o t) PROVE f \in S \/ f \in Frames(t)
  OBVIOUS
<1>1. PICK i \in 1..Len(s \o t) : f = (s \o t)[i]
  BY DEF Frames
<1>2. /\ Len(s \o t) = Len(s) + Len(t) /\ Len(s) \in Nat /\ Len(t) \in Nat
      /\ (s \o t)[i] = IF i <= Len(s) THEN s[i] ELSE t[i - Len(s)]
  <2>1. s \in Seq(S \cup T) /\ t \in Seq(S \cup T)
    OBVIOUS
  <2> QED BY <2>1
<1>3. CASE i <= Len(s)
  BY <1>1, <1>2, <1>3
<1>4. CASE ~(i <= Len(s))
  <2>1. i - Len(s) \in 1..Len(t) /\ f = t[i - Len(s)]
    BY <1>1, <1>2, <1>4
  <2> QED BY <2>1 DEF Frames
<1> QED BY <1>3, <1>4

\* What a step calls that replaces its own call.
LEMMA GotoPuts ==
    ASSUME stack \in Seq(Frame), stack # <<>>, NEW S
    PROVE  /\ \A frames \in Seq(S) : Goto(frames) => Puts(S)
           /\ stack' = Rest => Puts(S)
           /\ \A why : Crash(why) => Puts(S)
           /\ Goto(<<>>) => Puts(S)
           /\ \A f \in S : Goto(<<f>>) => Puts(S)
           /\ \A f, g \in S : Goto(<<f, g>>) => Puts(S)
           /\ \A f, g, h \in S : Goto(<<f, g, h>>) => Puts(S)
<1>1. Rest \in Seq(Frame) /\ Frames(Rest) \subseteq Frames(stack)
  BY PendingTop DEF Pops
<1> HIDE DEF Rest
<1>2. ASSUME NEW frames \in Seq(S), Goto(frames) PROVE Puts(S)
  BY <1>1, <1>2, FramesConcat DEF Goto, Puts
<1>3. stack' = Rest => Puts(S)
  BY <1>1 DEF Puts
<1>4. <<>> \in Seq(S) /\ \A f, g, h \in S : <<f>> \in Seq(S) /\ <<f, g>> \in Seq(S)
        /\ <<f, g, h>> \in Seq(S)
  OBVIOUS
<1>5. Goto(<<>>) => Puts(S)
  BY <1>2, <1>4
<1>6. \A f \in S : Goto(<<f>>) => Puts(S)
  BY <1>2, <1>4
<1>7. \A f, g \in S : Goto(<<f, g>>) => Puts(S)
  BY <1>2, <1>4
<1>8. \A f, g, h \in S : Goto(<<f, g, h>>) => Puts(S)
  BY <1>2, <1>4
<1> QED BY <1>2, <1>3, <1>5, <1>6, <1>7, <1>8 DEF Crash

\* What an event calls.
LEMMA PushPuts ==
    ASSUME stack \in Seq(Frame), NEW S
    PROVE  /\ \A frames \in Seq(S) : stack' = frames \o stack => Puts(S)
           /\ stack' \in Seq(S) => Puts(S)
           /\ UNCHANGED stack => Puts(S)
           /\ \A f \in S : stack' = <<f>> \o stack => Puts(S)
<1>1. ASSUME NEW frames \in Seq(S), stack' = frames \o stack PROVE Puts(S)
  BY <1>1, FramesConcat DEF Puts
<1>2. ASSUME stack' \in Seq(S) PROVE Puts(S)
  BY <1>2 DEF Puts, Frames
<1>3. UNCHANGED stack => Puts(S)
  BY DEF Puts, Frames
<1>4. ASSUME NEW f \in S, stack' = <<f>> \o stack PROVE Puts(S)
  <2>1. <<f>> \in Seq(S)
    OBVIOUS
  <2> QED BY <1>1, <1>4, <2>1
<1> QED BY <1>1, <1>2, <1>3, <1>4

\* Most steps call nothing that holds a promise.
LEMMA BareSteps ==
    ASSUME TypeOK, Next, ~DoUnbufferActions, ~ChannelClose, ~ChannelCloseOutput, ~ChannelUnwrap,
           ~CloseAll, ~CloseOutput,
           ~(\E op \in {"write", "closeAll", "closeOutput", "stopTLS"} : UserCalls(op))
    PROVE  Puts(Bare)
<1>1. stack \in Seq(Frame)
  BY DEF TypeOK
<1>2. \A op : Running(op) =>
        /\ \A frames \in Seq(Bare) : Goto(frames) => Puts(Bare)
        /\ \A why : Crash(why) => Puts(Bare)
        /\ Goto(<<>>) => Puts(Bare)
        /\ \A f \in Bare : Goto(<<f>>) => Puts(Bare)
        /\ \A f, g \in Bare : Goto(<<f, g>>) => Puts(Bare)
        /\ \A f, g, h \in Bare : Goto(<<f, g, h>>) => Puts(Bare)
  BY <1>1, GotoPuts DEF Running
<1> USE BareRuns DEF Ops
<1>3. CASE \/ WriteDataToNetwork \/ ContextClose \/ ContextCloseOutput \/ RemovalFuture
  BY <1>2, <1>3 DEF WriteDataToNetwork, ContextClose, ContextCloseOutput, RemovalFuture
<1>4. CASE BufferWrite \/ Flush \/ InvokeCloseOutput \/ FailEncoded \/ FailCloseOutput
  BY <1>2, <1>4 DEF BufferWrite, Flush, InvokeCloseOutput, FailEncoded, FailCloseOutput
<1>5. CASE Discard
  <2>1. Top \in Frames(stack) /\ stack # <<>>
    BY <1>1, <1>5, PendingTop DEF Discard, Running, Pops
  <2> DEFINE S == Bare \cup {Top}
  <2>2. (\A frames \in Seq(S) : Goto(frames) => Puts(S)) /\ (Puts(S) => Puts(Bare))
    BY <1>1, <2>1, GotoPuts DEF Puts
  <2>3. Top \in S /\ Callout \in S
    OBVIOUS
  <2> HIDE DEF S
  <2>4. <<>> \in Seq(S) /\ <<Callout>> \in Seq(S) /\ <<Top>> \in Seq(S)
    BY <2>3
  <2>5. \E s \in Seq(S) : Goto(s)
    <3>1. CASE bufferedActions = <<>>
      BY <1>5, <2>4, <3>1 DEF Discard
    <3>2. CASE bufferedActions # <<>>
      <4>1. PICK s \in {<<>>, <<Callout>>} : Goto(s \o <<Top>>)
        BY <1>5, <3>2 DEF Discard
      <4>2. s \in Seq(S)
        BY <2>4
      <4>3. s \o <<Top>> \in Seq(S)
        BY <2>4, <4>2
      <4> QED BY <4>1, <4>3
    <3> QED BY <3>1, <3>2
  <2> QED BY <2>2, <2>5
<1>6. CASE StopTLS
  BY <1>2, <1>6 DEF StopTLS
<1>7. CASE DoShutdownStep
  <2>1. AfterIncomplete \in Seq(Bare)
    <3>1. /\ <<Run("writeDataToNetwork")>> \in Seq(Bare)
          /\ <<Run("shutdownIncomplete")>> \in Seq(Bare)
          /\ <<>> \in Seq(Bare)
      OBVIOUS
    <3> QED BY <3>1 DEF AfterIncomplete
  <2>2. state \in {"outputClosed", "closing", "unwrapping"} => Run(ShutdownEnd) \in Bare
    BY DEF ShutdownEnd, TargetComplete
  <2> HIDE DEF AfterIncomplete, ShutdownEnd
  <2> QED BY <1>2, <1>7, <2>1, <2>2 DEF DoShutdownStep
<1>8. CASE ShutdownIncomplete \/ HandshakeIncomplete \/ DoFlushReadData
  BY <1>2, <1>8 DEF ShutdownIncomplete, HandshakeIncomplete, DoFlushReadData
<1>9. CompleteHandshake \in Seq(Bare)
  BY DEF CompleteHandshake
<1>10. CASE DoHandshakeStep
  BY <1>2, <1>9, <1>10 DEF DoHandshakeStep
<1>11. CASE DoDecodeData
  <2>1. AllowRemoteHalfClosure \in BOOLEAN
    BY HandlerAssumption DEF AllowRemoteHalfClosure
  <2> DEFINE g == [Run("afterZeroReturn") EXCEPT !.e = AllowRemoteHalfClosure]
  <2>2. g \in Bare
    BY <2>1
  <2> HIDE DEF g
  <2>3. Running("doDecodeData")
    BY <1>11 DEF DoDecodeData
  <2>4. \/ Goto(<<>>) \/ Crash("zeroReturnState") \/ Goto(<<Run("doFlushReadData"), g>>)
        \/ Goto(<<Callout, Run("channelClose")>>)
    BY <1>11 DEF DoDecodeData, g
  <2>5. <<>> \in Seq(Bare) /\ <<Run("doFlushReadData"), g>> \in Seq(Bare)
        /\ <<Callout, Run("channelClose")>> \in Seq(Bare)
    BY <2>2
  <2> QED BY <1>2, <2>3, <2>4, <2>5
<1>12. CASE AfterZeroReturn
  <2> DEFINE s == <<Callout, Run("writeDataToNetwork")>>
  <2>1. s \in Seq(Bare) /\ AfterCloseNotify \in Seq(Bare) /\ <<Run("closeAll")>> \in Seq(Bare)
    BY DEF AfterCloseNotify
  <2>2. Running("afterZeroReturn")
    BY <1>12 DEF AfterZeroReturn
  <2>3. Goto(AfterCloseNotify) \/ Goto(s) \/ Goto(<<Run("closeAll")>> \o s)
    BY <1>12 DEF AfterZeroReturn
  <2> HIDE DEF s
  <2>4. <<Run("closeAll")>> \o s \in Seq(Bare)
    BY <2>1
  <2> QED BY <1>2, <2>1, <2>2, <2>3, <2>4
<1>13. /\ \A frames \in Seq(Bare) : stack' = frames \o stack => Puts(Bare)
       /\ stack' \in Seq(Bare) => Puts(Bare)
       /\ UNCHANGED stack => Puts(Bare)
       /\ \A f \in Bare : stack' = <<f>> \o stack => Puts(Bare)
  BY <1>1, PushPuts
<1>14. CASE Return
  BY <1>1, <1>14, GotoPuts DEF Return, InCallout
<1>15. CASE Channel
  <2>1. AfterFeeding \in Seq(Bare)
    BY DEF AfterFeeding
  <2>2. CASE ChannelInactive
    <3>1. /\ <<Run("discard"), Callout>> \in Seq(Bare)
          /\ <<Callout, Run("discard"), Callout>> \in Seq(Bare)
      OBVIOUS
    <3>2. \/ stack' = <<Run("discard"), Callout>> \o stack
          \/ stack' = <<Callout, Run("discard"), Callout>> \o stack
      BY <2>2 DEF ChannelInactive
    <3> QED BY <1>13, <3>1, <3>2, Zenon
  <2>3. CASE ConnectFails \/ HandlerRemoved \/ ChannelFulfills
    BY <1>13, <2>3 DEF ConnectFails, HandlerRemoved, ChannelFulfills
  <2>4. CASE ChannelActive \/ ChannelRead \/ ChannelReadComplete \/ InputClosedTriggered
    <3>1. /\ <<Callout, Run("doHandshakeStep")>> \in Seq(Bare) /\ <<>> \in Seq(Bare)
          /\ <<Callout>> \in Seq(Bare)
          /\ <<Run("doFlushReadData"), Run("writeDataToNetwork")>> \in Seq(Bare)
      OBVIOUS
    <3>2. stack' \in {<<>>, <<Callout>>, <<Callout, Run("doHandshakeStep")>>,
                     <<Run("doFlushReadData"), Run("writeDataToNetwork")>>, AfterFeeding}
      <4> HIDE DEF AfterFeeding
      <4> QED BY <2>4 DEF ChannelActive, ChannelRead, ChannelReadComplete, InputClosedTriggered
    <3> QED BY <1>13, <2>1, <3>1, <3>2
  <2> QED BY <1>15, <2>2, <2>3, <2>4 DEF Channel
<1>16. CASE UserFlushes \/ ResumeHandshake
  BY <1>13, <1>16 DEF UserFlushes, ResumeHandshake
<1>17. CASE CompletedAdditionalPeerCertificateVerification
  <2>1. <<Callout, Run("channelClose")>> \in Seq(Bare)
    OBVIOUS
  <2> QED BY <1>9, <1>13, <1>17, <2>1 DEF CompletedAdditionalPeerCertificateVerification
<1>18. CASE TimedOutShutdown
  <2>1. <<Run("channelClose")>> \in Seq(Bare) /\ <<TimedOutUnwrap>> \in Seq(Bare)
    OBVIOUS
  <2> QED BY <1>13, <1>18, <2>1 DEF TimedOutShutdown
<1> QED BY <1>3, <1>4, <1>5, <1>6, <1>7, <1>8, <1>10, <1>11, <1>12, <1>14, <1>15, <1>16, <1>17,
           <1>18 DEF Next, Handler, User

\* The promises that wait for the end of the connection.
Slots == closePromise \cup shutdownPromise \cup closeOutputPromise

\* The calls that hold the promises of writes.
WriteOps == {"write", "doUnbufferActions", "writeDataToNetwork", "failEncoded"}

\* A call that is given the promises of a field, those of stopTLS only for the
\* end of the unwrapping, or of the close that it carries out.
ClosingOps == {"closeAll", "closeOutput"}
Passed == {f \in Frame : /\ f.op \notin WriteOps
                         /\ \/ f.p \subseteq closePromise \cup closeOutputPromise
                            \/ f.op = "removalFuture" /\ f.p \subseteq shutdownPromise
                            \/ Top.op \in ClosingOps /\ f.p \subseteq Top.p}

\* The calls that end a connection are given the promises of the fields.
LEMMA CloseFrames ==
    ASSUME TypeOK, ChannelClose \/ ChannelCloseOutput \/ ChannelUnwrap \/ CloseAll \/ CloseOutput
    PROVE  Puts(Passed)
<1>1. stack \in Seq(Frame) /\ stack # <<>>
  BY DEF TypeOK, ChannelClose, ChannelCloseOutput, ChannelUnwrap, CloseAll, CloseOutput, Running
<1>2. /\ \A frames \in Seq(Passed) : Goto(frames) => Puts(Passed)
      /\ \A why : Crash(why) => Puts(Passed)
      /\ Goto(<<>>) => Puts(Passed)
      /\ \A f \in Passed : Goto(<<f>>) => Puts(Passed)
      /\ \A f, g \in Passed : Goto(<<f, g>>) => Puts(Passed)
  BY <1>1, GotoPuts
<1>3. Top \in Frame /\ Top.e \in BOOLEAN /\ Top.p \subseteq Promises
  <2>1. Top \in Frame
    BY <1>1 DEF Top
  <2> QED BY <2>1 DEF Frame
<1>4. /\ closePromise \subseteq Promises /\ shutdownPromise \subseteq Promises
      /\ closeOutputPromise \subseteq Promises
  BY DEF TypeOK
<1>5. /\ Callout \in Passed /\ Run("discard") \in Passed
      /\ Run("doShutdownStep") \in Passed /\ Run("flush") \in Passed
  BY DEF Callout, Run, Call, Passed, Frame, Ops, WriteOps
<1>6. \A op \in Ops \ WriteOps, p \in SUBSET Promises :
        p \subseteq closePromise \cup closeOutputPromise => Call(op, p) \in Passed
  BY DEF Call, Passed, Frame
<1>7. Top.op \in ClosingOps => \A op \in Ops \ WriteOps : Call(op, Top.p) \in Passed
  BY <1>3 DEF Call, Passed, Frame
<1>8. CASE ChannelClose
  <2> DEFINE g == Call("contextClose", closePromise)
  <2>1. g \in Passed
    BY <1>4, <1>6 DEF Ops, WriteOps
  <2> HIDE DEF g
  <2>2. <<>> \in Seq(Passed) /\ <<Callout>> \in Seq(Passed) /\ <<g>> \in Seq(Passed)
    BY <1>5, <2>1
  <2>3. PICK s \in {<<>>, <<Callout>>} : Goto(s \o <<g>>)
    BY <1>8 DEF ChannelClose, g
  <2>4. s \in Seq(Passed)
    BY <2>2
  <2>5. s \o <<g>> \in Seq(Passed)
    BY <2>2, <2>4
  <2> QED BY <1>2, <2>3, <2>5
<1>9. CASE ChannelCloseOutput
  <2>1. Call("contextCloseOutput", closeOutputPromise) \in Passed
    BY <1>4, <1>6 DEF Ops, WriteOps
  <2> QED BY <1>2, <1>9, <2>1 DEF ChannelCloseOutput
<1>10. CASE ChannelUnwrap
  <2> DEFINE g == [Call("removalFuture", shutdownPromise) EXCEPT !.e = Top.e]
  <2>1. g \in Passed
    BY <1>3, <1>4 DEF Call, Passed, Frame, Ops, WriteOps
  <2> HIDE DEF g
  <2>2. Crash("unwrapAssert") \/ Goto(<<Run("discard"), g>>)
    BY <1>10 DEF ChannelUnwrap, g
  <2> QED BY <1>2, <1>5, <2>1, <2>2
<1>11. CASE CloseAll
  <2>1. Top.op \in ClosingOps
    BY <1>11 DEF CloseAll, Running, ClosingOps
  <2>2. Call("contextClose", Top.p) \in Passed
    BY <1>7, <2>1 DEF Ops, WriteOps
  <2> QED BY <1>2, <1>5, <1>11, <2>2 DEF CloseAll
<1>12. CASE CloseOutput
  <2>1. Top.op \in ClosingOps
    BY <1>12 DEF CloseOutput, Running, ClosingOps
  <2>2. Call("contextCloseOutput", Top.p) \in Passed /\ Call("closeAll", Top.p) \in Passed
    BY <1>7, <2>1 DEF Ops, WriteOps
  <2> QED BY <1>2, <1>5, <1>12, <2>2 DEF CloseOutput
<1> QED BY <1>8, <1>9, <1>10, <1>11, <1>12

\* The loop is over: its promises go to the write of what was encoded, or are
\* failed.
LoopEnds == {f \in Frame : f.op \in {"writeDataToNetwork", "failEncoded"} /\ f.p = Top.p}

\* The loop goes on, with the promise of one action more.
LoopGoesOn == {f \in Frame : /\ f.op = "doUnbufferActions"
                             /\ f.p = Top.p \cup Head(bufferedActions).p}

\* What a round of the loop calls.
LEMMA UnbufferFrames ==
    ASSUME TypeOK, DoUnbufferActions
    PROVE  \/ Puts(Bare \cup LoopEnds)
           \/ /\ bufferedActions # <<>> /\ PopAction /\ Head(bufferedActions).kind = "write"
              /\ Puts(LoopGoesOn)
<1> DEFINE a == Head(bufferedActions)
           S == Bare \cup LoopEnds
<1>1. stack \in Seq(Frame) /\ stack # <<>> /\ Top.op = "doUnbufferActions"
  BY DEF TypeOK, DoUnbufferActions, Running
<1>2. Top \in Frame /\ Top.p \subseteq Promises
  <2>1. Top \in Frame
    BY <1>1 DEF Top
  <2> QED BY <2>1 DEF Frame
<1>3. /\ \A frames \in Seq(S) : Goto(frames) => Puts(S)
      /\ \A why : Crash(why) => Puts(S)
  BY <1>1, GotoPuts
<1>4. /\ Call("writeDataToNetwork", Top.p) \in S /\ Call("failEncoded", Top.p) \in S
      /\ Run("invokeCloseOutput") \in S
      /\ Run("channelClose") \in S /\ Run("failCloseOutput") \in S /\ Run("discard") \in S
  <2>1. Call("writeDataToNetwork", Top.p) \in S /\ Call("failEncoded", Top.p) \in S
    BY <1>2 DEF Call, LoopEnds, Frame, Ops
  <2> QED BY <2>1, BareRuns DEF Ops
<1>5. \A c \in BOOLEAN : AfterLoop(c) \in Seq(S)
  <2> HIDE DEF S
  <2>1. /\ <<>> \in Seq(S) /\ <<Call("writeDataToNetwork", Top.p)>> \in Seq(S)
        /\ <<Run("invokeCloseOutput")>> \in Seq(S)
    BY <1>4
  <2>2. \A c \in BOOLEAN :
          \E x \in {<<>>, <<Call("writeDataToNetwork", Top.p)>>},
             y \in {<<>>, <<Run("invokeCloseOutput")>>} : AfterLoop(c) = x \o y
    BY DEF AfterLoop
  <2>3. \A x, y \in Seq(S) : x \o y \in Seq(S)
    OBVIOUS
  <2> SUFFICES ASSUME NEW c \in BOOLEAN PROVE AfterLoop(c) \in Seq(S)
    OBVIOUS
  <2>4. PICK x \in {<<>>, <<Call("writeDataToNetwork", Top.p)>>},
             y \in {<<>>, <<Run("invokeCloseOutput")>>} : AfterLoop(c) = x \o y
    BY <2>2
  <2>5. x \in Seq(S) /\ y \in Seq(S)
    BY <2>1
  <2> QED BY <2>3, <2>4, <2>5
<1>6. <<Run("channelClose"), Call("failEncoded", Top.p), Run("failCloseOutput"), Run("discard")>>
        \in Seq(S)
  <2> HIDE DEF S
  <2> QED BY <1>4
<1>7. \/ \E c \in BOOLEAN : Goto(AfterLoop(c))
      \/ \E why : Crash(why)
      \/ Goto(<<Run("channelClose"), Call("failEncoded", Top.p), Run("failCloseOutput"),
                Run("discard")>>)
      \/ /\ marked > 0 /\ PopAction /\ a.kind = "write"
         /\ Goto(<<[Top EXCEPT !.p = @ \cup a.p, !.e = TRUE]>>)
  BY DEF DoUnbufferActions
<1>8. ASSUME marked > 0, Goto(<<[Top EXCEPT !.p = @ \cup a.p, !.e = TRUE]>>)
      PROVE  bufferedActions # <<>> /\ Puts(LoopGoesOn)
  <2>1. bufferedActions # <<>> /\ a \in Action
    BY <1>8 DEF TypeOK
  <2> DEFINE g == [Top EXCEPT !.p = @ \cup a.p, !.e = TRUE]
  <2>2. g \in LoopGoesOn
    <3> HIDE DEF a
    <3>1. a.p \subseteq Promises
      BY <2>1 DEF Action
    <3>2. g \in Frame /\ g.op = "doUnbufferActions" /\ g.p = Top.p \cup a.p
      BY <1>1, <1>2, <3>1 DEF Frame
    <3> QED BY <3>2 DEF LoopGoesOn, a
  <2> HIDE DEF g
  <2>3. \A f \in LoopGoesOn : Goto(<<f>>) => Puts(LoopGoesOn)
    BY <1>1, GotoPuts
  <2> QED BY <1>8, <2>1, <2>2, <2>3 DEF g
<1> HIDE DEF S
<1> QED BY <1>3, <1>5, <1>6, <1>7, <1>8 DEF S

\* What the user calls is given a promise nobody else has.
LEMMA UserFrames ==
    ASSUME TypeOK, NEW op \in {"write", "closeAll", "closeOutput", "stopTLS"}, UserCalls(op)
    PROVE  \E q \in Promises :
             /\ promise[q] = "unused" /\ promise' = [promise EXCEPT ![q] = "pending"]
             /\ asked' = [asked EXCEPT ![q] = op]
             /\ stack' # <<>> /\ Head(stack').op = op /\ Head(stack').p = {q}
             /\ Tail(stack') = stack
             /\ Puts({f \in Frame : f.op = op /\ f.p = {q}})
<1>1. stack \in Seq(Frame)
  BY DEF TypeOK
<1>2. PICK q \in Promises, n \in (IF op = "write" THEN WriteSizes ELSE {0}) :
        /\ promise[q] = "unused" /\ promise' = [promise EXCEPT ![q] = "pending"]
        /\ asked' = [asked EXCEPT ![q] = op]
        /\ stack' = <<[Call(op, {q}) EXCEPT !.n = n]>> \o stack
  BY DEF UserCalls
<1>3. n \in Nat
  BY HandlerAssumption
<1> DEFINE f == [Call(op, {q}) EXCEPT !.n = n]
           S == {g \in Frame : g.op = op /\ g.p = {q}}
<1>4. f \in S /\ f.op = op /\ f.p = {q}
  BY <1>3 DEF Call, Frame, Ops
<1>5. stack' = <<f>> \o stack
  BY <1>2
<1> HIDE DEF f, S
<1>6. Puts(S)
  BY <1>1, <1>4, <1>5, PushPuts
<1>7. stack' # <<>> /\ Head(stack') = f /\ Tail(stack') = stack
  BY <1>1, <1>5
<1> QED BY <1>2, <1>4, <1>6, <1>7 DEF S

-----------------------------------------------------------------------------

\* What a promise was given to is settled when the user calls.
LEMMA AskedSteps ==
    ASSUME Next
    PROVE  \/ UNCHANGED asked
           \/ \E op \in {"write", "closeAll", "closeOutput", "stopTLS"} : UserCalls(op)
BY DEF Next, Handler, Channel, User, histVars, Return, WriteDataToNetwork, ContextClose,
   ContextCloseOutput, ChannelClose, ChannelCloseOutput, ChannelUnwrap, RemovalFuture,
   BufferWrite, Flush, Discard, DoUnbufferActions, InvokeCloseOutput, FailEncoded,
   FailCloseOutput, CloseAll, CloseOutput, StopTLS, DoShutdownStep, ShutdownIncomplete,
   DoHandshakeStep, HandshakeIncomplete, DoDecodeData, AfterZeroReturn, DoFlushReadData,
   ChannelActive, ConnectFails, ChannelInactive, HandlerRemoved, ChannelRead, ChannelReadComplete,
   InputClosedTriggered, ChannelFulfills, UserFlushes,
   CompletedAdditionalPeerCertificateVerification, ResumeHandshake, TimedOutShutdown

\* The actions that change the fields of promises.
LEMMA SlotActions ==
    ASSUME Next
    PROVE  \/ CloseAll \/ CloseOutput \/ StopTLS \/ ChannelClose \/ ChannelCloseOutput \/ ChannelUnwrap
           \/ FailCloseOutput \/ ChannelInactive \/ UNCHANGED slotVars
BY DEF Next, Handler, Channel, User, Return, WriteDataToNetwork, ContextClose,
   ContextCloseOutput, RemovalFuture, BufferWrite, Flush, Discard, DoUnbufferActions,
   InvokeCloseOutput, FailEncoded, DoShutdownStep, ShutdownIncomplete, DoHandshakeStep,
   HandshakeIncomplete, DoDecodeData, AfterZeroReturn, DoFlushReadData, ChannelActive,
   ConnectFails, HandlerRemoved, ChannelRead, ChannelReadComplete, InputClosedTriggered,
   ChannelFulfills, UserCalls, UserFlushes, CompletedAdditionalPeerCertificateVerification,
   ResumeHandshake, TimedOutShutdown

\* Only calls to close and to stop TLS leave their promise in a field.
LEMMA SlotSteps ==
    ASSUME TypeOK, Next
    PROVE  \A q \in Slots' : q \in Slots \/ (stack # <<>> /\ Top.op \notin WriteOps /\ q \in Top.p)
<1> USE DEF Slots, slotVars
<1>1. CASE CloseAll \/ CloseOutput \/ StopTLS
  BY <1>1 DEF CloseAll, CloseOutput, StopTLS, Running, WriteOps
<1>2. CASE ChannelClose \/ ChannelCloseOutput \/ ChannelUnwrap \/ FailCloseOutput
        \/ ChannelInactive
  BY <1>2 DEF ChannelClose, ChannelCloseOutput, ChannelUnwrap, FailCloseOutput, ChannelInactive
<1>3. CASE UNCHANGED slotVars
  BY <1>3
<1> QED BY <1>1, <1>2, <1>3, SlotActions

\* A promise that is in the channel's hands, or has succeeded.
Good(s) == s \in {"handed", "succeeded"}

\* The actions that complete promises, in whatever way.
LEMMA CompletingSteps ==
    ASSUME Next
    PROVE  \/ ContextClose \/ ContextCloseOutput \/ RemovalFuture \/ StopTLS \/ WriteDataToNetwork
           \/ ChannelFulfills \/ (\E op \in {"write", "closeAll", "closeOutput",
                "stopTLS"} : UserCalls(op))
           \/ UNCHANGED promise \/ (\E ps : promise' = Complete(ps, "failed"))
<1>1. CASE Handler
  BY <1>1 DEF Handler, ChannelClose, ChannelCloseOutput, ChannelUnwrap, BufferWrite, Flush,
     Discard, DoUnbufferActions, InvokeCloseOutput, FailEncoded, FailCloseOutput, CloseAll,
     CloseOutput, DoShutdownStep, ShutdownIncomplete, DoHandshakeStep, HandshakeIncomplete,
     DoDecodeData, AfterZeroReturn, DoFlushReadData
<1>2. CASE Channel
  BY <1>2 DEF Channel, ChannelActive, ConnectFails, ChannelInactive, HandlerRemoved,
     ChannelRead, ChannelReadComplete, InputClosedTriggered
<1>3. CASE Return \/ User \/ ResumeHandshake \/ TimedOutShutdown
  BY <1>3 DEF Return, User, UserFlushes, CompletedAdditionalPeerCertificateVerification,
     ResumeHandshake, TimedOutShutdown
<1> QED BY <1>1, <1>2, <1>3 DEF Next

\* The promises that a step hands to the channel or lets succeed are those of
\* the call that runs: of a write they are only what it hands over.
LEMMA PromiseSteps ==
    ASSUME TypeOK, Next, NEW q \in Promises
    PROVE  /\ promise'[q] = "unused" => promise[q] = "unused"
           /\ Good(promise'[q]) =>
                \/ Good(promise[q])
                \/ /\ stack # <<>> /\ q \in Top.p
                   /\ Top.op \notin WriteOps \/ (WriteDataToNetwork /\ Writable /\ wire' = Sent)
<1> USE DEF Good
<1>1. promise \in [Promises -> PromiseStatus]
  BY DEF TypeOK
<1>2. ASSUME NEW ps, NEW s, promise' = Complete(ps, s), s # "unused"
      PROVE  /\ promise'[q] = "unused" => promise[q] = "unused"
             /\ Good(promise'[q]) => Good(promise[q]) \/ (q \in ps /\ Good(s))
  BY <1>1, <1>2 DEF Complete
<1>3. CASE ContextClose
  <2>1. stack # <<>> /\ Top.op = "contextClose"
    BY <1>3 DEF ContextClose, Running
  <2>2. \E s \in {"handed", "failed"} : promise' = Complete(Top.p, s)
    BY <1>3 DEF ContextClose
  <2> QED BY <1>2, <2>1, <2>2 DEF WriteOps
<1>4. CASE ContextCloseOutput
  <2>1. stack # <<>> /\ Top.op = "contextCloseOutput"
    BY <1>4 DEF ContextCloseOutput, Running
  <2>2. \E s \in {"handed", "failed"} : promise' = Complete(Top.p, s)
    BY <1>4 DEF ContextCloseOutput
  <2> QED BY <1>2, <2>1, <2>2 DEF WriteOps
<1>5. CASE RemovalFuture
  <2>1. stack # <<>> /\ Top.op = "removalFuture"
    BY <1>5 DEF RemovalFuture, Running
  <2>2. \E s \in {"succeeded", "failed"} : promise' = Complete(Top.p, s)
    BY <1>5 DEF RemovalFuture
  <2> QED BY <1>2, <2>1, <2>2 DEF WriteOps
<1>6. CASE StopTLS
  <2>1. stack # <<>> /\ Top.op = "stopTLS"
    BY <1>6 DEF StopTLS, Running
  <2>2. UNCHANGED promise \/ \E s \in {"succeeded", "failed"} : promise' = Complete(Top.p, s)
    BY <1>6 DEF StopTLS
  <2> QED BY <1>2, <2>1, <2>2 DEF WriteOps
<1>7. CASE WriteDataToNetwork
  <2>1. stack # <<>>
    BY <1>7 DEF WriteDataToNetwork, Running
  <2>2. \/ UNCHANGED promise
        \/ promise' = Complete(Top.p, "failed")
        \/ promise' = Complete(Top.p, "handed") /\ Writable /\ wire' = Sent
    BY <1>7 DEF WriteDataToNetwork, Sent
  <2> QED BY <1>2, <1>7, <2>1, <2>2
<1>8. CASE ChannelFulfills
  BY <1>1, <1>8 DEF ChannelFulfills
<1>9. CASE \E op \in {"write", "closeAll", "closeOutput", "stopTLS"} : UserCalls(op)
  BY <1>1, <1>9 DEF UserCalls
<1>10. CASE UNCHANGED promise \/ \E ps : promise' = Complete(ps, "failed")
  BY <1>2, <1>10
<1> QED BY <1>3, <1>4, <1>5, <1>6, <1>7, <1>8, <1>9, <1>10, CompletingSteps

-----------------------------------------------------------------------------
Unwritten(q) == \A k \in 1..Len(writes) : writes[k].id # q
Buffered(q) == \E i \in 1..Len(bufferedActions) : q \in bufferedActions[i].p
Out(q, s, w) == \A k \in 1..Len(w) : w[k].id = q => \E j \in 1..Len(s) : s[j] = w[k]

\* A write that is called runs at once; what is below it.
Writing == stack # <<>> /\ Top.op = "write"
Under == IF Writing THEN Rest ELSE stack

\* The handler does not know the promise, but for the write that is called.
Unseen(q) == /\ q \notin Slots /\ (\A f \in Frames(Under) : q \notin f.p)
            /\ ~Buffered(q) /\ Unwritten(q)

WritesOnTop == \A f \in Frames(Under) : f.op # "write"
Called == Writing => \A q \in Top.p : promise[q] = "pending" /\ asked[q] = "write" /\ Unseen(q)
Unused == \A q \in Promises : promise[q] = "unused" => Unseen(q)
Apart == \A q \in Promises : asked[q] = "write" =>
            q \notin Slots /\ \A f \in Frames(stack) : q \in f.p => f.op \in WriteOps
Asked == \A k \in 1..Len(writes) : writes[k].id \in Promises /\ asked[writes[k].id] = "write"
Empties == \A i \in 1..Len(bufferedActions) :
              bufferedActions[i].empty => \A q \in bufferedActions[i].p : Unwritten(q)
Encoded == Open => \A f \in Frames(stack) : f.op \in {"doUnbufferActions", "writeDataToNetwork"} =>
                      \A q \in f.p : Out(q, Sent, writes)
Kept == ~Ended => Owns(bufferedActions, Total(Sent), writes)
Honest == \A q \in Promises : Good(promise[q]) /\ asked[q] = "write" => Out(q, wire, writes)

Ledger == /\ WritesOnTop /\ Called /\ Unused /\ Apart /\ Asked /\ Empties /\ Encoded /\ Kept
          /\ Honest

\* bufferWrite, or nothing, runs when a write is called.
LEMMA WritingRuns ==
    ASSUME TypeOK, Next
    PROVE  Writing <=> BufferWrite
<1>1. BufferWrite => Writing
  BY DEF BufferWrite, Running, Writing
<1>2. ASSUME Writing PROVE BufferWrite
  <2>1. Running("write")
    BY <1>2, NextRuns DEF Writing, Running
  <2> QED BY <2>1, Dispatch DEF Handler, Ops, ContextClose, ContextCloseOutput, RemovalFuture,
             WriteDataToNetwork, ChannelClose, ChannelCloseOutput, ChannelUnwrap, Flush, Discard,
             DoUnbufferActions, InvokeCloseOutput, FailEncoded, FailCloseOutput, CloseAll,
             CloseOutput, StopTLS, DoShutdownStep, ShutdownIncomplete, DoHandshakeStep,
             HandshakeIncomplete, DoDecodeData, AfterZeroReturn, DoFlushReadData
<1> QED BY <1>1, <1>2

\* The same for single actions and slices.
LEMMA ActionSteps ==
    ASSUME TypeOK, Next
    PROVE  /\ \A i \in 1..Len(bufferedActions') :
                \/ \E j \in 1..Len(bufferedActions) : bufferedActions'[i] = bufferedActions[j]
                \/ bufferedActions'[i].p = {}
                \/ /\ BufferWrite /\ \E id \in Top.p : bufferedActions'[i].p = {id}
                   /\ bufferedActions'[i].empty => UNCHANGED writes
           /\ \A k \in 1..Len(writes') :
                \/ k \in 1..Len(writes) /\ writes'[k] = writes[k]
                \/ BufferWrite /\ writes'[k].id \in Top.p
           /\ \A k \in 1..Len(writes) : k \in 1..Len(writes') /\ writes'[k] = writes[k]
<1> DEFINE b == bufferedActions
<1>1. b \in Seq(Action) /\ writes \in Seq(Record)
  BY DEF TypeOK
<1>2. CASE ~BufferWrite
  <2>1. \A i \in 1..Len(b') : (\E j \in 1..Len(b) : b'[i] = b[j]) \/ b'[i].p = {}
    <3>1. CASE b # <<>> /\ b' = Tail(b)
      <4>1. \A i \in 1..Len(Tail(b)) : i + 1 \in 1..Len(b) /\ Tail(b)[i] = b[i + 1]
        BY <1>1, <3>1
      <4> QED BY <3>1, <4>1
    <3>2. CASE b' = Append(b, CloseOutputAction)
      <4>1. CloseOutputAction.p = {}
        BY DEF CloseOutputAction
      <4> HIDE DEF CloseOutputAction
      <4>2. \A i \in 1..Len(b') : (i \in 1..Len(b) /\ b'[i] = b[i]) \/ b'[i] = CloseOutputAction
        BY <1>1, <3>2
      <4> QED BY <4>1, <4>2
    <3> QED BY <1>2, <3>1, <3>2, OthersBuffer
  <2> QED BY <1>2, <2>1, OthersBuffer
<1>3. CASE BufferWrite /\ UNCHANGED <<bufferedActions, writes>>
  BY <1>3
<1>4. CASE BufferWrite /\ ~UNCHANGED <<bufferedActions, writes>>
  <2>1. PICK id \in Top.p, d \in Seq(Action), v \in Seq(Record) :
           /\ Grows(d, v)
           /\ \A i \in 1..Len(d) : /\ d[i].p = {} \/ (i = Len(d) /\ d[i].p = {id})
                                   /\ d[i].empty => Len(v) = 0
           /\ \A k \in 1..Len(v) : v[k].id = id
    BY <1>4, WriteAdds
  <2>2. b' = b \o d /\ writes' = writes \o v
    BY <2>1 DEF Grows
  <2>3. \A i \in 1..Len(b') : \/ i \in 1..Len(b) /\ b'[i] = b[i]
                              \/ i - Len(b) \in 1..Len(d) /\ b'[i] = d[i - Len(b)]
    BY <1>1, <2>1, <2>2
  <2>4. \A k \in 1..Len(writes') : \/ k \in 1..Len(writes) /\ writes'[k] = writes[k]
                                   \/ k - Len(writes) \in 1..Len(v)
                                        /\ writes'[k] = v[k - Len(writes)]
    BY <1>1, <2>1, <2>2
  <2>5. \A k \in 1..Len(writes) : k \in 1..Len(writes') /\ writes'[k] = writes[k]
    BY <1>1, <2>1, <2>2
  <2>6. Len(v) = 0 => UNCHANGED writes
    BY <1>1, <2>1, <2>2
  <2>7. \A i \in 1..Len(b') :
          \/ \E j \in 1..Len(b) : b'[i] = b[j]
          \/ b'[i].p = {}
          \/ b'[i].p = {id} /\ (b'[i].empty => UNCHANGED writes)
    BY <2>1, <2>3, <2>6
  <2> QED BY <1>4, <2>1, <2>4, <2>5, <2>7
<1> QED BY <1>2, <1>3, <1>4

\* What is called, in a step of the handler or of the channel.
LEMMA FrameSteps ==
    ASSUME TypeOK, Next,
           ~(\E op \in {"write", "closeAll", "closeOutput", "stopTLS"} : UserCalls(op))
    PROVE  \A f \in Frames(stack') :
             \/ f \in Frames(stack) \/ f \in Bare
             \/ stack # <<>> /\ f \in Passed
             \/ DoUnbufferActions /\ f \in LoopEnds
             \/ /\ DoUnbufferActions /\ bufferedActions # <<>> /\ PopAction
                /\ Head(bufferedActions).kind = "write" /\ f \in LoopGoesOn
<1>1. CASE DoUnbufferActions
  BY <1>1, UnbufferFrames DEF Puts
<1>2. CASE ChannelClose \/ ChannelCloseOutput \/ ChannelUnwrap \/ CloseAll \/ CloseOutput
  <2>1. stack # <<>>
    BY <1>2 DEF ChannelClose, ChannelCloseOutput, ChannelUnwrap, CloseAll, CloseOutput, Running
  <2> QED BY <1>2, <2>1, CloseFrames DEF Puts
<1> QED BY <1>1, <1>2, BareSteps DEF Puts

\* None of them is a write; a write that ran is no longer there.
LEMMA UnderSteps ==
    ASSUME TypeOK, TypeOK', WritesOnTop, Next,
           ~(\E op \in {"write", "closeAll", "closeOutput", "stopTLS"} : UserCalls(op))
    PROVE  /\ ~Writing' /\ \A f \in Frames(stack') : f.op # "write"
           /\ BufferWrite => \A f \in Frames(stack') : f \in Frames(Under) \/ f \in Bare
           /\ ~BufferWrite => Under = stack
<1>1. ASSUME BufferWrite PROVE \A f \in Frames(stack') : f \in Frames(Under) \/ f \in Bare
  <2>1. Rest \in Seq(Frame) /\ <<Callout>> \in Seq(Bare) /\ <<>> \in Seq(Bare)
    BY <1>1, BareRuns, RunningPops DEF BufferWrite, TypeOK, Pops
  <2>2. Goto(<<>>) \/ Goto(<<Callout>>)
    BY <1>1 DEF BufferWrite
  <2>3. Under = Rest
    BY <1>1, WritingRuns DEF Under
  <2> HIDE DEF Rest
  <2> QED BY <2>1, <2>2, <2>3, FramesConcat DEF Goto
<1>2. ~BufferWrite => Under = stack
  BY WritingRuns DEF Under
<1>3. \A f \in Frames(stack') : f.op # "write"
  <2>1. CASE BufferWrite
    BY <1>1, <2>1 DEF WritesOnTop, Bare
  <2>2. CASE ~BufferWrite
    BY <1>2, <2>2, FrameSteps DEF WritesOnTop, Bare, Passed, LoopEnds, LoopGoesOn, WriteOps
  <2> QED BY <2>1, <2>2
<1>4. ~Writing'
  <2>1. stack' \in Seq(Frame)
    BY DEF TypeOK
  <2>2. stack' # <<>> => 1 \in 1..Len(stack') /\ Head(stack') = stack'[1]
    BY <2>1
  <2> QED BY <1>3, <2>2 DEF Writing, Top, Frames
<1> QED BY <1>1, <1>2, <1>3, <1>4

\* A promise that was not used and still is not is unknown to the handler.
LEMMA NextUnused ==
    ASSUME TypeOK, TypeOK', WritesOnTop, Called, Unused, Next,
           ~(\E op \in {"write", "closeAll", "closeOutput", "stopTLS"} : UserCalls(op))
    PROVE  WritesOnTop' /\ Called' /\ Unused'
<1>1. /\ ~Writing' /\ (\A f \in Frames(stack') : f.op # "write") /\ Under' = stack'
  BY UnderSteps DEF Under
<1>2. WritesOnTop' /\ Called'
  BY <1>1 DEF WritesOnTop, Called
<1>3. ASSUME NEW q \in Promises, promise'[q] = "unused" PROVE Unseen(q)'
  <2>1. promise[q] = "unused" /\ Unseen(q)
    BY <1>3, PromiseSteps DEF Unused
  <2>2. BufferWrite => q \notin Top.p
    BY <2>1, WritingRuns DEF Called
  <2>3. stack # <<>> /\ q \in Top.p => FALSE
    <3>1. CASE BufferWrite
      BY <2>2, <3>1
    <3>2. CASE ~BufferWrite
      BY <2>1, <3>2, UnderSteps, PendingTop DEF Unseen, Pops, TypeOK
    <3> QED BY <3>1, <3>2
  <2>4. q \notin Slots'
    BY <2>1, <2>3, SlotSteps DEF Unseen
  <2>5. ~Buffered(q)' /\ Unwritten(q)'
    BY <2>1, <2>2, ActionSteps DEF Unseen, Buffered, Unwritten
  <2>6. ASSUME NEW f \in Frames(stack') PROVE q \notin f.p
    <3>1. CASE BufferWrite
      BY <2>1, <3>1, UnderSteps DEF Unseen, Bare
    <3>2. CASE ~BufferWrite
      <4>1. \A g \in Frames(stack) : q \notin g.p
        BY <2>1, <3>2, UnderSteps DEF Unseen
      <4>2. f \in LoopGoesOn /\ bufferedActions # <<>> => q \notin Head(bufferedActions).p
        <5>1. bufferedActions \in Seq(Action)
          BY DEF TypeOK
        <5>2. bufferedActions # <<>> =>
                1 \in 1..Len(bufferedActions) /\ Head(bufferedActions) = bufferedActions[1]
          BY <5>1
        <5> QED BY <2>1, <5>2 DEF Unseen, Buffered
      <4>3. CASE stack # <<>> /\ f \in Passed
        BY <2>1, <2>3, <4>3 DEF Passed, Unseen, Slots
      <4>4. CASE DoUnbufferActions /\ f \in LoopEnds
        BY <2>3, <4>4 DEF LoopEnds, DoUnbufferActions, Running
      <4>5. CASE DoUnbufferActions /\ bufferedActions # <<>> /\ f \in LoopGoesOn
        BY <2>3, <4>2, <4>5 DEF LoopGoesOn, DoUnbufferActions, Running
      <4> QED BY <4>1, <4>3, <4>4, <4>5, FrameSteps DEF Bare
    <3> QED BY <3>1, <3>2
  <2> QED BY <1>1, <2>4, <2>5, <2>6 DEF Unseen
<1> QED BY <1>2, <1>3 DEF Unused

\* Promises of writes do not get into the fields, nor into other calls.
LEMMA NextApart ==
    ASSUME TypeOK, Apart, Next,
           ~(\E op \in {"write", "closeAll", "closeOutput", "stopTLS"} : UserCalls(op))
    PROVE  Apart'
<1>1. UNCHANGED asked
  BY AskedSteps
<1> SUFFICES ASSUME NEW q \in Promises, asked[q] = "write"
             PROVE  q \notin Slots' /\ \A f \in Frames(stack') : q \in f.p => f.op \in WriteOps
  BY <1>1 DEF Apart
<1>2. q \notin Slots /\ \A f \in Frames(stack) : q \in f.p => f.op \in WriteOps
  BY DEF Apart
<1>3. stack # <<>> /\ Top.op \notin WriteOps => q \notin Top.p
  BY <1>2, PendingTop DEF Pops, TypeOK
<1>4. q \notin Slots'
  BY <1>2, <1>3, SlotSteps
<1>5. ASSUME NEW f \in Frames(stack'), q \in f.p PROVE f.op \in WriteOps
  <2>1. f \notin Bare
    BY <1>5 DEF Bare
  <2>2. stack # <<>> => f \notin Passed
    BY <1>2, <1>3, <1>5 DEF Passed, Slots, ClosingOps, WriteOps
  <2>3. f \in LoopEnds \/ f \in LoopGoesOn => f.op \in WriteOps
    BY DEF LoopEnds, LoopGoesOn, WriteOps
  <2> QED BY <1>2, <1>5, <2>1, <2>2, <2>3, FrameSteps
<1> QED BY <1>4, <1>5

\* What is out stays out, unless the promise is that of the write that runs.
LEMMA OutKept ==
    ASSUME TypeOK, Next, NEW q, NEW s \in Seq(Record), NEW t \in Seq(Record), Out(q, s, writes),
           ~(BufferWrite /\ q \in Top.p)
    PROVE  Out(q, s \o t, writes')
<1>1. \A j \in 1..Len(s) : j \in 1..Len(s \o t) /\ (s \o t)[j] = s[j]
  OBVIOUS
<1>2. \A k \in 1..Len(writes') : writes'[k].id = q => k \in 1..Len(writes)
        /\ writes'[k] = writes[k]
  BY ActionSteps
<1> HIDE DEF Next
<1> QED BY <1>1, <1>2 DEF Out

\* Appending to the second of two sequences.
LEMMA AppendConcat ==
    ASSUME NEW s \in Seq(Record), NEW t \in Seq(Record), NEW x \in Record
    PROVE  Append(t, x) \in Seq(Record) /\ Append(s \o t, x) = s \o Append(t, x)
OBVIOUS

\* The data that the connection has written only grows.
LEMMA SentGrows ==
    ASSUME TypeOK, TrustInv, Unconnected, Next, Open'
    PROVE  \E t \in Seq(Record) : Sent' = Sent \o t
<1>1. CASE AddsPlain
  BY <1>1 DEF AddsPlain
<1>2. CASE AddsSlice
  <2> DEFINE x == DataRecord(Head(bufferedActions).id, Head(bufferedActions).n)
  <2>1. PICK t \in Seq(Record) : x \in Record /\ Sent' = Append(Sent \o t, x)
    BY <1>2 DEF AddsSlice
  <2> HIDE DEF x
  <2>2. Append(t, x) \in Seq(Record) /\ Sent' = Sent \o Append(t, x)
    BY <2>1, SentType, AppendConcat
  <2> QED BY <2>2
<1> QED BY <1>1, <1>2, SentSteps

\* All slices of the write whose promise is taken out of the buffer are out.
LEMMA PromiseTaken ==
    ASSUME TypeOK, TrustInv, Unconnected, Flow, Empties, Kept, Next, DoUnbufferActions, Open',
           bufferedActions # <<>>, PopAction, Head(bufferedActions).kind = "write"
    PROVE  \A q \in Head(bufferedActions).p : Out(q, Sent', writes')
<1> DEFINE b == bufferedActions
<1>1. b \in Seq(Action) /\ writes \in Seq(Record) /\ Sent \in Seq(Record) /\ Total(Sent) \in Nat
  BY SentType
<1>2. 1 \in 1..Len(b) /\ Head(b) = b[1] /\ Tail(b) # b
  <2>1. 1 \in 1..Len(b) /\ Head(b) = b[1]
    BY <1>1
  <2>2. Len(Tail(b)) # Len(b)
    BY <1>1
  <2> QED BY <2>1, <2>2
<1>3. b' = Tail(b) /\ UNCHANGED writes
  BY DEF PopAction, DoUnbufferActions, histVars
<1> SUFFICES ASSUME NEW q \in b[1].p PROVE Out(q, Sent', writes)
  BY <1>2, <1>3
<1>4. CASE ~Carries(Head(b))
  BY <1>2, <1>4 DEF Carries, Empties, Unwritten, Out
<1>5. CASE PopsBuffer /\ AddsSlice
  <2>1. ~Ended /\ Total(Sent') = Total(Sent) + 1 /\ AllOut(Sent', writes)
    BY <1>5, SliceTotal
  <2>2. Owns(b, Total(Sent), writes)
    BY <2>1 DEF Kept
  <2>3. Total(Sent) + 1 = Total(Sent) + Number(CarriesAt(b), 1)
    BY <1>1, <1>2, <1>5, BufferPops DEF AddsSlice, Carries
  <2> SUFFICES ASSUME NEW k \in 1..Len(writes), writes[k].id = q
               PROVE  \E j \in 1..Len(Sent') : Sent'[j] = writes[k]
    BY DEF Out
  <2>4. k <= Total(Sent')
    BY <1>2, <2>1, <2>2, <2>3 DEF Owns
  <2>5. k \in 1..Total(Sent')
    BY <1>1, <2>1, <2>4
  <2> QED BY <2>1, <2>5 DEF AllOut
<1> QED BY <1>2, <1>3, <1>4, <1>5, SentSteps

\* Every step but a call of the user keeps Encoded.
LEMMA NextEncoded ==
    ASSUME TypeOK, TypeOK', TrustInv, Unconnected, Flow, WritesOnTop, Called, Empties, Encoded,
             Kept,
           Next, ~(\E op \in {"write", "closeAll", "closeOutput", "stopTLS"} : UserCalls(op))
    PROVE  Encoded'
<1> DEFINE Ends == {"doUnbufferActions", "writeDataToNetwork"}
<1> SUFFICES ASSUME Open', NEW f \in Frames(stack'), f.op \in Ends, NEW q \in f.p
             PROVE  Out(q, Sent', writes')
  BY DEF Encoded
<1>1. Open
  BY NextEnded
<1>2. PICK t \in Seq(Record) : Sent' = Sent \o t
  BY SentGrows
<1>3. ASSUME NEW g \in Frames(stack), g.op \in Ends, q \in g.p, ~(BufferWrite /\ q \in Top.p)
      PROVE  Out(q, Sent', writes')
  <2>1. Out(q, Sent, writes)
    BY <1>1, <1>3 DEF Encoded
  <2>2. Sent \in Seq(Record)
    BY SentType
  <2> QED BY <1>2, <1>3, <2>1, <2>2, OutKept
<1>4. CASE BufferWrite
  <2>1. Under = Rest /\ stack # <<>>
    BY <1>4, WritingRuns DEF Under, Writing
  <2>2. f \in Frames(Under) /\ f \in Frames(stack)
    BY <1>4, <2>1, UnderSteps, PendingTop DEF Bare, Pops, TypeOK
  <2>3. q \notin Top.p
    BY <1>4, <2>2, WritingRuns DEF Called, Unseen
  <2> QED BY <1>3, <2>2, <2>3
<1>5. CASE DoUnbufferActions /\ f \in LoopEnds \cup LoopGoesOn /\ q \in Top.p
  <2>1. stack # <<>> /\ Top.op = "doUnbufferActions"
    BY <1>5 DEF DoUnbufferActions, Running
  <2>2. Top \in Frames(stack) /\ ~BufferWrite
    BY <2>1, PendingTop DEF Pops, TypeOK, BufferWrite, Running
  <2> QED BY <1>3, <1>5, <2>1, <2>2
<1>6. CASE /\ DoUnbufferActions /\ bufferedActions # <<>> /\ PopAction
           /\ Head(bufferedActions).kind = "write" /\ q \in Head(bufferedActions).p
  BY <1>6, PromiseTaken
<1>7. f \notin Bare /\ f \notin Passed
  BY DEF Bare, Passed, WriteOps
<1>8. CASE ~BufferWrite /\ f \in Frames(stack)
  BY <1>3, <1>8
<1> QED BY <1>4, <1>5, <1>6, <1>7, <1>8, FrameSteps DEF LoopEnds, LoopGoesOn

\* Every step but a call of the user keeps Asked and Empties.
LEMMA NextAsked ==
    ASSUME TypeOK, Called, Asked, Empties, Next,
           ~(\E op \in {"write", "closeAll", "closeOutput", "stopTLS"} : UserCalls(op))
    PROVE  Asked' /\ Empties'
<1>1. UNCHANGED asked
  BY AskedSteps
<1>2. BufferWrite => \A q \in Top.p : /\ q \in Promises /\ asked[q] = "write"
                                      /\ ~Buffered(q) /\ Unwritten(q)
  <2>1. BufferWrite => Top.p \subseteq Promises
    BY TopType DEF BufferWrite, Running, TypeOK, Frame
  <2> QED BY <2>1, WritingRuns DEF Called, Unseen
<1>3. Asked'
  BY <1>1, <1>2, ActionSteps DEF Asked
<1>4. ASSUME NEW i \in 1..Len(bufferedActions'), bufferedActions'[i].empty,
             NEW q \in bufferedActions'[i].p
      PROVE  Unwritten(q)'
  <2>1. CASE \E j \in 1..Len(bufferedActions) : bufferedActions'[i] = bufferedActions[j]
    <3>1. Unwritten(q) /\ Buffered(q)
      BY <1>4, <2>1 DEF Empties, Buffered
    <3> QED BY <1>2, <3>1, ActionSteps DEF Unwritten
  <2>2. CASE BufferWrite /\ q \in Top.p /\ UNCHANGED writes
    BY <1>2, <2>2 DEF Unwritten
  <2> QED BY <1>4, <2>1, <2>2, ActionSteps
<1> QED BY <1>3, <1>4 DEF Empties

\* Every step keeps Kept.
LEMMA NextKept ==
    ASSUME TypeOK, TrustInv, Unconnected, Guarded, Flow, Called, Kept, Next
    PROVE  Kept'
<1> SUFFICES ASSUME ~Ended' PROVE Owns(bufferedActions', Total(Sent'), writes')
  BY DEF Kept
<1> DEFINE b == bufferedActions
           n == Total(Sent) + IF b[1].kind = "write" /\ ~b[1].empty THEN 1 ELSE 0
<1>1. /\ writes \in Seq(Record) /\ b \in Seq(Action) /\ Total(Sent) \in Nat
  BY SentType
<1>2. /\ Open' /\ ~Ended /\ ~Discard /\ Owns(b, Total(Sent), writes)
      /\ Follows(b, Total(Sent), writes)
  BY NextEnded, NextRuns, NoDiscard DEF Kept, Ended, Flow
<1>3. b # <<>> => Owns(Tail(b), n, writes) /\ b[1] = Head(b)
  BY <1>1, <1>2, BufferPops
<1>4. CASE DoUnbufferActions
  <2>1. CASE UNCHANGED <<bufferedActions, writes>> /\ AddsPlain
    BY <1>2, <2>1, PlainTotal
  <2>2. CASE PopsBuffer /\ ~Carries(Head(bufferedActions)) /\ AddsPlain
    <3>1. n = Total(Sent)
      BY <1>1, <1>3, <2>2 DEF PopsBuffer, Carries
    <3> HIDE DEF n
    <3> QED BY <1>3, <2>2, <3>1, PlainTotal DEF PopsBuffer
  <2>3. CASE PopsBuffer /\ AddsSlice
    <3>1. n = Total(Sent) + 1
      BY <1>3, <2>3 DEF PopsBuffer, AddsSlice, Carries
    <3> HIDE DEF n
    <3> QED BY <1>2, <1>3, <2>3, <3>1, SliceTotal DEF PopsBuffer
  <2> QED BY <1>4, <2>1, <2>2, <2>3, SentSteps
<1>5. CASE ~DoUnbufferActions
  <2>1. Total(Sent') = Total(Sent)
    BY <1>2, <1>5, PlainTotal, SentSteps
  <2>2. CASE UNCHANGED <<bufferedActions, writes>>
    BY <1>2, <2>1, <2>2
  <2>3. CASE BufferWrite /\ ~UNCHANGED <<bufferedActions, writes>>
    <3>1. PICK id \in Top.p, d \in Seq(Action), v \in Seq(Record) :
            /\ Grows(d, v)
            /\ \A i \in 1..Len(d) : /\ d[i].p = {} \/ (i = Len(d) /\ d[i].p = {id})
                                    /\ d[i].empty => Len(v) = 0
            /\ \A k \in 1..Len(v) : v[k].id = id
      BY <2>3, WriteAdds
    <3>2. \A i \in 1..Len(b), k \in 1..Len(v) : v[k].id \notin b[i].p
      BY <2>3, <3>1, WritingRuns DEF Called, Unseen, Buffered
    <3>3. \A i \in 1..Len(d) : \A q \in d[i].p : i = Len(d)
      BY <3>1
    <3>4. Owns(b \o d, Total(Sent), writes \o v)
      BY <1>1, <1>2, <3>1, <3>2, <3>3, BufferGrows DEF Grows
    <3> QED BY <2>1, <3>1, <3>4 DEF Grows
  <2>4. CASE UNCHANGED writes /\ bufferedActions' = Append(bufferedActions, CloseOutputAction)
    <3> DEFINE d == <<CloseOutputAction>>
               v == <<>>
    <3>1. /\ d \in Seq(Action) /\ v \in Seq(Record) /\ Len(v) = 0 /\ Len(d) = 1
          /\ CarriesAt(d) = {} /\ d[1].p = {}
          /\ bufferedActions' = b \o d /\ writes' = writes \o v
      BY <1>1, <2>4, CloseOutputBuffered
    <3> HIDE DEF d, v
    <3>2. /\ \A i \in 1..Len(b), k \in 1..Len(v) : v[k].id \notin b[i].p
          /\ \A i \in 1..Len(d) : \A q \in d[i].p : i = Len(d)
      BY <3>1
    <3>3. Owns(b \o d, Total(Sent), writes \o v)
      BY <1>1, <1>2, <3>1, <3>2, BufferGrows
    <3> QED BY <2>1, <3>1, <3>3
  <2> QED BY <1>2, <1>5, <2>2, <2>3, <2>4, OthersBuffer
<1> QED BY <1>4, <1>5

\* Every step but a call of the user keeps Honest: a write's promise is handed
\* over only with all that is encoded.
LEMMA NextHonest ==
    ASSUME TypeOK, TrustInv, Unconnected, Called, Apart, Encoded, Honest, Next,
           ~(\E op \in {"write", "closeAll", "closeOutput", "stopTLS"} : UserCalls(op))
    PROVE  Honest'
<1>1. UNCHANGED asked
  BY AskedSteps
<1> SUFFICES ASSUME NEW q \in Promises, Good(promise'[q]), asked[q] = "write"
             PROVE  Out(q, wire', writes')
  BY <1>1 DEF Honest
<1>2. wire \in Seq(Record) /\ Sent \in Seq(Record) /\ conn.outbound \in Seq(Record)
      /\ <<>> \in Seq(Record)
  BY SentType, OutboundType DEF TypeOK
<1>3. CASE Good(promise[q])
  <2>1. Out(q, wire, writes)
    BY <1>3 DEF Honest
  <2>2. ~(BufferWrite /\ q \in Top.p)
    BY <1>3, WritingRuns DEF Called, Good
  <2>3. \E t \in Seq(Record) : wire' = wire \o t
    <3>1. wire = wire \o <<>>
      BY <1>2
    <3> QED BY <1>2, <3>1, SentSteps DEF Sent
  <2> QED BY <1>2, <2>1, <2>2, <2>3, OutKept
<1>4. CASE ~Good(promise[q])
  <2>1. /\ stack # <<>> /\ q \in Top.p
        /\ Top.op \notin WriteOps \/ (WriteDataToNetwork /\ Writable /\ wire' = Sent)
    BY <1>4, PromiseSteps
  <2>2. Top \in Frames(stack)
    BY <2>1, PendingTop DEF Pops, TypeOK
  <2>3. WriteDataToNetwork /\ Writable /\ wire' = Sent
    BY <2>1, <2>2 DEF Apart
  <2>4. Open /\ Top.op = "writeDataToNetwork" /\ ~BufferWrite
    BY <2>3 DEF Writable, Open, WriteDataToNetwork, Running, BufferWrite
  <2>5. Out(q, Sent, writes)
    BY <2>1, <2>2, <2>4 DEF Encoded
  <2>6. Sent \o <<>> = Sent
    BY <1>2
  <2>7. Out(q, Sent \o <<>>, writes')
    BY <1>2, <2>4, <2>5, OutKept
  <2> QED BY <2>3, <2>6, <2>7
<1> QED BY <1>3, <1>4

\* A call of the user brings in a promise that the handler did not know.
LEMMA UserLedger ==
    ASSUME TypeOK, TypeOK', WritesOnTop, Called, Unused, Apart, Asked, Empties, Encoded, Honest,
           TrustInv, Unconnected, Next,
           NEW op \in {"write", "closeAll", "closeOutput", "stopTLS"}, UserCalls(op)
    PROVE  WritesOnTop' /\ Called' /\ Unused' /\ Apart' /\ Asked' /\ Empties' /\ Encoded'
             /\ Honest'
<1>1. PICK q \in Promises :
        /\ promise[q] = "unused" /\ promise' = [promise EXCEPT ![q] = "pending"]
        /\ asked' = [asked EXCEPT ![q] = op]
        /\ stack' # <<>> /\ Head(stack').op = op /\ Head(stack').p = {q} /\ Tail(stack') = stack
        /\ Puts({f \in Frame : f.op = op /\ f.p = {q}})
  BY UserFrames
<1>2. UNCHANGED <<slotVars, bufferedActions, writes, conn, wire, chanVars, removed>>
  BY DEF UserCalls, bufVars
<1>3. Slots' = Slots /\ Sent' = Sent /\ Open' = Open
  BY <1>2 DEF Slots, slotVars, Sent, Open, chanVars
<1>4. \A p : (Buffered(p)' <=> Buffered(p)) /\ (Unwritten(p)' <=> Unwritten(p))
  BY <1>2 DEF Buffered, Unwritten
<1>5. Under = stack
  <2>1. ~BufferWrite
    BY DEF UserCalls, UserMayCall, Idle, InCallout, BufferWrite, Running
  <2> QED BY <2>1, WritingRuns DEF Under
<1>6. /\ promise \in [Promises -> PromiseStatus]
      /\ asked \in [Promises -> {"nothing", "write", "closeAll", "closeOutput", "stopTLS"}]
      /\ stack' \in Seq(Frame)
  BY DEF TypeOK
<1>7. /\ promise'[q] = "pending" /\ asked'[q] = op
      /\ \A p \in Promises : p # q => promise'[p] = promise[p] /\ asked'[p] = asked[p]
  BY <1>1, <1>6
<1>8. Unseen(q)
  BY <1>1 DEF Unused
<1>9. \A f \in Frames(stack') : (f.op = op /\ f.p = {q}) \/ f \in Frames(stack)
  BY <1>1 DEF Puts
<1>10. stack' # <<>>
  BY <1>1
<1>11. IF op = "write" THEN Writing' /\ Under' = stack ELSE ~Writing' /\ Under' = stack'
  BY <1>1, <1>10 DEF Writing, Under, Top, Rest
<1>12. WritesOnTop'
  BY <1>5, <1>9, <1>11 DEF WritesOnTop
<1>13. ASSUME NEW p \in Promises, Unseen(p), p # q \/ op = "write" PROVE Unseen(p)'
  BY <1>3, <1>4, <1>5, <1>9, <1>11, <1>13 DEF Unseen
<1>14. Called'
  BY <1>1, <1>7, <1>8, <1>11, <1>13 DEF Called, Top
<1>15. Unused'
  BY <1>7, <1>13 DEF Unused
<1>16. Apart'
  BY <1>3, <1>5, <1>7, <1>8, <1>9 DEF Apart, Unseen, WriteOps
<1>17. Asked'
  BY <1>2, <1>7, <1>8 DEF Asked, Unseen, Unwritten
<1>18. Empties'
  BY <1>2, <1>4 DEF Empties
<1>19. Encoded'
  BY <1>2, <1>3, <1>9 DEF Encoded
<1>20. Honest'
  BY <1>2, <1>7 DEF Honest, Good
<1> QED BY <1>12, <1>14, <1>15, <1>16, <1>17, <1>18, <1>19, <1>20

\* The ledger is right at first.
LEMMA InitLedger == Init => Ledger
<1> SUFFICES ASSUME Init PROVE Ledger
  OBVIOUS
<1> DEFINE f == Run("doHandshakeStep")
<1>1. f.op = "doHandshakeStep" /\ f.p = {} /\ (stack = <<>> \/ stack = <<f>>)
  BY DEF Init, Run, Call
<1>2. /\ wire = <<>> /\ writes = <<>> /\ bufferedActions = <<>> /\ Slots = {}
      /\ promise = [q \in Promises |-> "unused"] /\ asked = [q \in Promises |-> "nothing"]
  BY DEF Init, Slots
<1> HIDE DEF f
<1>3. Frames(stack) \subseteq {f} /\ ~Writing /\ Under = stack
  BY <1>1 DEF Frames, Writing, Under, Top
<1>4. Len(<<>>) = 0 /\ 1..0 = {}
  OBVIOUS
<1>5. WritesOnTop /\ Called /\ Apart
  BY <1>1, <1>2, <1>3 DEF WritesOnTop, Called, Apart
<1>6. Asked /\ Empties /\ Kept
  BY <1>2, <1>4 DEF Asked, Empties, Kept, Owns
<1>7. Unused
  BY <1>1, <1>2, <1>3, <1>4 DEF Unused, Unseen, Buffered, Unwritten
<1>8. Encoded /\ Honest
  BY <1>1, <1>2, <1>3 DEF Encoded, Honest, Good
<1> QED BY <1>5, <1>6, <1>7, <1>8 DEF Ledger

\* Every step keeps it.
LEMMA NextLedger ==
    ASSUME TypeOK, TypeOK', Trusted, Ordered, Ledger, [Next]_vars
    PROVE  Ledger'
<1>1. CASE UNCHANGED vars
  <2>1. UNCHANGED <<slotVars, bufferedActions, writes, conn, wire, channel, outputOpen, removed,
                    stack, promise, asked>>
    BY <1>1 DEF vars, chanVars, bufVars, histVars
  <2>2. Slots' = Slots /\ Sent' = Sent /\ Open' = Open /\ Ended' = Ended /\ Under' = Under
        /\ Writing' = Writing /\ \A q : Unseen(q)' = Unseen(q) /\ Unwritten(q)' = Unwritten(q)
    BY <2>1 DEF Slots, slotVars, Sent, Open, Ended, Under, Writing, Unseen, Buffered, Unwritten,
       Top, Rest
  <2>3. WritesOnTop' /\ Called' /\ Unused' /\ Apart'
    BY <2>1, <2>2 DEF Ledger, WritesOnTop, Called, Unused, Apart, Top
  <2>4. Asked' /\ Empties' /\ Encoded' /\ Kept' /\ Honest'
    BY <2>1, <2>2 DEF Ledger, Asked, Empties, Encoded, Kept, Honest
  <2> QED BY <2>3, <2>4 DEF Ledger
<1>2. CASE Next
  <2>1. TrustInv /\ Unconnected /\ Guarded /\ Flow
    BY <1>2, NextRuns DEF Trusted, Ordered
  <2>2. /\ WritesOnTop /\ Called /\ Unused /\ Apart /\ Asked /\ Empties /\ Encoded /\ Kept
             /\ Honest
    BY DEF Ledger
  <2>3. Kept'
    BY <1>2, <2>1, <2>2, NextKept
  <2>4. CASE \E op \in {"write", "closeAll", "closeOutput", "stopTLS"} : UserCalls(op)
    BY <1>2, <2>1, <2>2, <2>3, <2>4, UserLedger DEF Ledger
  <2>5. CASE ~(\E op \in {"write", "closeAll", "closeOutput", "stopTLS"} : UserCalls(op))
    BY <1>2, <2>1, <2>2, <2>3, <2>5, NextUnused, NextApart, NextAsked, NextEncoded, NextHonest
       DEF Ledger
  <2> QED BY <2>4, <2>5
<1> QED BY <1>1, <1>2

\* It holds in every behaviour.
LEMMA AlwaysLedger == Spec => []Ledger
<1>1. Init => Ledger
  BY InitLedger
<1>2. TypeOK /\ TypeOK' /\ Trusted /\ Ordered /\ Ledger /\ [Next]_vars => Ledger'
  BY NextLedger
<1> QED BY <1>1, <1>2, TypeCorrect, AlwaysTrusted, AlwaysOrdered, PTL DEF Spec

\* A write is reported as successful only when every slice of it was handed to
\* the channel: the promise waits for the last slice, and no failed, discarded
\* or re-entrant write lets it succeed before (bufferWrite, doUnbufferActions,
\* writeDataToNetwork).
THEOREM SuccessIsSent == Spec => []SuccessMeansSent
<1>1. TypeOK /\ Ledger => SuccessMeansSent
  <2> SUFFICES ASSUME TypeOK, Asked, Honest, NEW q \in Promises, promise[q] = "succeeded",
                      NEW k \in DOMAIN writes, writes[k].id = q
               PROVE  \E j \in DOMAIN wire : wire[j] = writes[k]
    BY DEF Ledger, SuccessMeansSent
  <2>1. k \in 1..Len(writes) /\ DOMAIN wire = 1..Len(wire)
    BY DEF TypeOK
  <2>2. asked[q] = "write"
    BY <2>1 DEF Asked
  <2> QED BY <2>1, <2>2 DEF Honest, Good, Out
<1> QED BY <1>1, TypeCorrect, AlwaysLedger, PTL

-----------------------------------------------------------------------------
\* The calls that hold the promises of stopTLS.
StopOps == {"stopTLS", "removalFuture"}

\* A promise of stopTLS is in no other call, in no other field than
\* shutdownPromise and not in the channel's hands.
Stopping == \A q \in Promises : asked[q] = "stopTLS" =>
               /\ promise[q] # "handed"
               /\ q \notin closePromise \cup closeOutputPromise /\ ~Buffered(q)
               /\ \A f \in Frames(stack) : q \in f.p => f.op \in StopOps

\* What becomes a success was in the channel's hands, or is a call of stopTLS
\* that ends, with the unwrapping or without.
LEMMA SuccessSteps ==
    ASSUME TypeOK, Next, NEW q \in Promises
    PROVE  /\ promise'[q] = "handed" =>
                \/ promise[q] = "handed"
                \/ stack # <<>> /\ q \in Top.p /\ Top.op \notin StopOps
           /\ promise'[q] = "succeeded" =>
                \/ promise[q] \in {"handed", "succeeded"}
                \/ RemovalFuture /\ ~Top.e
                \/ StopTLS /\ state = "unwrapped"
<1>1. promise \in [Promises -> PromiseStatus]
  BY DEF TypeOK
<1>2. ASSUME NEW ps, NEW s, promise' = Complete(ps, s)
      PROVE  promise'[q] = promise[q] \/ (q \in ps /\ promise'[q] = s)
  BY <1>1, <1>2 DEF Complete
<1>3. CASE ContextClose \/ ContextCloseOutput \/ WriteDataToNetwork
  <2>1. stack # <<>> /\ Top.op \notin StopOps
    BY <1>3 DEF ContextClose, ContextCloseOutput, WriteDataToNetwork, Running, StopOps
  <2>2. UNCHANGED promise \/ \E s \in {"handed", "failed"} : promise' = Complete(Top.p, s)
    BY <1>3 DEF ContextClose, ContextCloseOutput, WriteDataToNetwork
  <2> QED BY <1>2, <2>1, <2>2
<1>4. CASE RemovalFuture
  <2>1. promise' = Complete(Top.p, "failed") \/ (promise' = Complete(Top.p, "succeeded") /\ ~Top.e)
    BY <1>4 DEF RemovalFuture
  <2> QED BY <1>2, <1>4, <2>1
<1>5. CASE StopTLS
  <2>1. \/ UNCHANGED promise \/ promise' = Complete(Top.p, "failed")
        \/ promise' = Complete(Top.p, "succeeded") /\ state = "unwrapped"
    BY <1>5 DEF StopTLS
  <2> QED BY <1>2, <1>5, <2>1
<1>6. CASE ChannelFulfills
  BY <1>1, <1>6 DEF ChannelFulfills
<1>7. CASE \E op \in {"write", "closeAll", "closeOutput", "stopTLS"} : UserCalls(op)
  BY <1>1, <1>7 DEF UserCalls
<1>8. CASE UNCHANGED promise \/ \E ps : promise' = Complete(ps, "failed")
  BY <1>2, <1>8
<1> QED BY <1>3, <1>4, <1>5, <1>6, <1>7, <1>8, CompletingSteps

\* The promises of the closes come from the closes.
LEMMA CloseSlotSteps ==
    ASSUME TypeOK, Next
    PROVE  \A q \in closePromise' \cup closeOutputPromise' :
             \/ q \in closePromise \cup closeOutputPromise
             \/ stack # <<>> /\ Top.op \notin StopOps /\ q \in Top.p
<1>1. CASE CloseAll \/ CloseOutput \/ StopTLS
  BY <1>1 DEF CloseAll, CloseOutput, StopTLS, Running, StopOps
<1>2. CASE ChannelClose \/ ChannelCloseOutput \/ ChannelUnwrap \/ FailCloseOutput
        \/ ChannelInactive
  BY <1>2 DEF ChannelClose, ChannelCloseOutput, ChannelUnwrap, FailCloseOutput, ChannelInactive
<1>3. CASE UNCHANGED slotVars
  BY <1>3 DEF slotVars
<1> QED BY <1>1, <1>2, <1>3, SlotActions

\* Every step but a call of the user keeps Stopping.
LEMMA NextStopping ==
    ASSUME TypeOK, Stopping, Next,
           ~(\E op \in {"write", "closeAll", "closeOutput", "stopTLS"} : UserCalls(op))
    PROVE  Stopping'
<1>1. UNCHANGED asked
  BY AskedSteps
<1> SUFFICES ASSUME NEW q \in Promises, asked[q] = "stopTLS"
             PROVE  /\ promise'[q] # "handed"
                    /\ q \notin closePromise' \cup closeOutputPromise' /\ ~Buffered(q)'
                    /\ \A f \in Frames(stack') : q \in f.p => f.op \in StopOps
  BY <1>1 DEF Stopping
<1>2. /\ promise[q] # "handed" /\ q \notin closePromise \cup closeOutputPromise /\ ~Buffered(q)
      /\ \A f \in Frames(stack) : q \in f.p => f.op \in StopOps
  BY DEF Stopping
<1>3. stack # <<>> /\ Top.op \notin StopOps => q \notin Top.p
  BY <1>2, PendingTop DEF Pops, TypeOK
<1>4. promise'[q] # "handed"
  BY <1>2, <1>3, SuccessSteps
<1>5. q \notin closePromise' \cup closeOutputPromise'
  BY <1>2, <1>3, CloseSlotSteps
<1>6. ~Buffered(q)'
  <2>1. BufferWrite => q \notin Top.p
    BY <1>3 DEF BufferWrite, Running, StopOps
  <2> QED BY <1>2, <2>1, ActionSteps DEF Buffered
<1>7. ASSUME NEW f \in Frames(stack'), q \in f.p PROVE f.op \in StopOps
  <2>1. f \notin Bare
    BY <1>7 DEF Bare
  <2>2. CASE stack # <<>> /\ f \in Passed
    BY <1>2, <1>3, <1>7, <2>2 DEF Passed, StopOps, ClosingOps
  <2>3. DoUnbufferActions => q \notin Top.p
    BY <1>3 DEF DoUnbufferActions, Running, StopOps
  <2>4. bufferedActions # <<>> => q \notin Head(bufferedActions).p
    <3>1. bufferedActions \in Seq(Action)
      BY DEF TypeOK
    <3>2. bufferedActions # <<>> =>
            1 \in 1..Len(bufferedActions) /\ Head(bufferedActions) = bufferedActions[1]
      BY <3>1
    <3> QED BY <1>2, <3>2 DEF Buffered
  <2>5. ~(DoUnbufferActions /\ f \in LoopEnds)
    BY <1>7, <2>3 DEF LoopEnds
  <2>6. ~(DoUnbufferActions /\ bufferedActions # <<>> /\ f \in LoopGoesOn)
    BY <1>7, <2>3, <2>4 DEF LoopGoesOn
  <2> QED BY <1>2, <1>7, <2>1, <2>2, <2>5, <2>6, FrameSteps
<1> QED BY <1>4, <1>5, <1>6, <1>7

\* So does a call of the user: its promise is new to the handler.
LEMMA UserStopping ==
    ASSUME TypeOK, TypeOK', Stopping, Unused, Next,
           NEW op \in {"write", "closeAll", "closeOutput", "stopTLS"}, UserCalls(op)
    PROVE  Stopping'
<1>1. PICK q \in Promises :
        /\ promise[q] = "unused" /\ promise' = [promise EXCEPT ![q] = "pending"]
        /\ asked' = [asked EXCEPT ![q] = op]
        /\ Puts({f \in Frame : f.op = op /\ f.p = {q}})
  BY UserFrames
<1>2. UNCHANGED <<slotVars, bufferedActions>>
  BY DEF UserCalls, bufVars
<1>3. closePromise' = closePromise /\ closeOutputPromise' = closeOutputPromise
      /\ \A p : Buffered(p)' <=> Buffered(p)
  BY <1>2 DEF slotVars, Buffered
<1>4. Under = stack
  <2>1. ~BufferWrite
    BY DEF UserCalls, UserMayCall, Idle, InCallout, BufferWrite, Running
  <2> QED BY <2>1, WritingRuns DEF Under
<1>5. /\ promise \in [Promises -> PromiseStatus]
      /\ asked \in [Promises -> {"nothing", "write", "closeAll", "closeOutput", "stopTLS"}]
  BY DEF TypeOK
<1>6. /\ promise'[q] = "pending" /\ asked'[q] = op
      /\ \A p \in Promises : p # q => promise'[p] = promise[p] /\ asked'[p] = asked[p]
  BY <1>1, <1>5
<1>7. /\ q \notin closePromise \cup closeOutputPromise /\ ~Buffered(q)
      /\ \A f \in Frames(stack) : q \notin f.p
  BY <1>1, <1>4 DEF Unused, Unseen, Slots
<1>8. \A f \in Frames(stack') : (f.op = op /\ f.p = {q}) \/ f \in Frames(stack)
  BY <1>1 DEF Puts
<1> SUFFICES ASSUME NEW p \in Promises, asked'[p] = "stopTLS"
             PROVE  /\ promise'[p] # "handed"
                    /\ p \notin closePromise \cup closeOutputPromise /\ ~Buffered(p)
                    /\ \A f \in Frames(stack') : p \in f.p => f.op \in StopOps
  BY <1>3 DEF Stopping
<1>9. CASE p = q
  BY <1>6, <1>7, <1>8, <1>9 DEF StopOps
<1>10. CASE p # q
  BY <1>6, <1>8, <1>10 DEF Stopping
<1> QED BY <1>9, <1>10

\* It holds in every behaviour.
LEMMA AlwaysStopping == Spec => []Stopping
<1>1. Init => Stopping
  <2> SUFFICES ASSUME Init, NEW q \in Promises PROVE asked[q] # "stopTLS"
    BY DEF Stopping
  <2> QED BY DEF Init
<1>2. TypeOK /\ TypeOK' /\ Ledger /\ Stopping /\ [Next]_vars => Stopping'
  <2>1. ASSUME Stopping, UNCHANGED vars PROVE Stopping'
    <3>1. UNCHANGED <<slotVars, bufferedActions, stack, promise, asked>>
      BY <2>1 DEF vars, bufVars, histVars
    <3> QED BY <2>1, <3>1 DEF Stopping, slotVars, Buffered
  <2>2. ASSUME TypeOK, TypeOK', Ledger, Stopping, Next PROVE Stopping'
    BY <2>2, NextStopping, UserStopping DEF Ledger
  <2> QED BY <2>1, <2>2
<1> QED BY <1>1, <1>2, TypeCorrect, AlwaysLedger, PTL DEF Spec

\* The promise of a stopTLS succeeds only when both close_notifys were exchanged
\* or TLS was never established, whichever call completes it; but for a stopTLS
\* that finds the handler .unwrapped, which succeeds at once (stopTLS,
\* channelUnwrap, scheduleTimedOutShutdown, channelClose).
THEOREM UnwrapsClean == Spec => UnwrapIsClean
<1> DEFINE Clears == \A q \in Promises :
              asked[q] = "stopTLS" /\ promise[q] # "succeeded" /\ promise'[q] = "succeeded"
                => \/ conn.inInit
                   \/ conn.readShutdown = "closeNotify" /\ conn.writeShutdown = "closeNotify"
                   \/ Running("stopTLS") /\ state = "unwrapped"
<1>1. TypeOK /\ Clean /\ Stopping /\ [Next]_vars => [Clears]_vars
  <2> SUFFICES ASSUME TypeOK, Clean, Stopping, Next, NEW q \in Promises, asked[q] = "stopTLS",
                      promise[q] # "succeeded", promise'[q] = "succeeded"
               PROVE  CleanEnd(conn) \/ (Running("stopTLS") /\ state = "unwrapped")
    BY DEF CleanEnd
  <2>1. (RemovalFuture /\ ~Top.e) \/ (StopTLS /\ state = "unwrapped")
    BY SuccessSteps DEF Stopping
  <2>2. CASE RemovalFuture /\ ~Top.e
    <3>1. Running("removalFuture")
      BY <2>2 DEF RemovalFuture
    <3>2. Top \in Frames(stack) /\ Top.op = "removalFuture"
      BY <3>1, RunningPops DEF Running, Pops, TypeOK
    <3> QED BY <2>2, <3>1, <3>2 DEF Clean, CleanFrames, UnwrapOps, Running
  <2>3. CASE StopTLS /\ state = "unwrapped"
    BY <2>3 DEF StopTLS
  <2> QED BY <2>1, <2>2, <2>3
<1>2. Spec => [][Clears]_vars
  BY <1>1, TypeCorrect, AlwaysClean, AlwaysStopping, PTL DEF Spec
<1> QED BY <1>2 DEF UnwrapIsClean

-----------------------------------------------------------------------------
\* The n-th record of w is the n-th data record of s.
Drawn(s, w) == \A n \in 1..Len(w) : \E j \in DataAt(s) : w[n] = s[j] /\ Number(DataAt(s), j) = n

\* q is what s holds up to p, and k data records come before it.
Tracks(s, p, q, k) == /\ Len(q) <= p
                      /\ \A i \in 1..Len(q) : q[i] = s[p - Len(q) + i]
                      /\ Number(DataAt(s), p - Len(q)) = k

\* The records that SSL_read yields are data records.
LEMMA DataPrefixIsData ==
    ASSUME NEW s \in Seq(Record), NEW i \in 1..DataPrefix(s)
    PROVE  IsData(s[i])
<1> DEFINE K == {k \in 1..Len(s) : \A j \in 1..k : s[j].kind = "data"}
           T == {k \in 1..Len(s) : s[k].kind # "data"}
<1>1. Len(s) \in Nat /\ DataPrefix(s) = Cardinality(K) /\ DataPrefix(s) \in 0..Len(s)
  BY DataPrefixType DEF DataPrefix
<1>2. CASE T = {}
  BY <1>1, <1>2 DEF IsData
<1>3. CASE T # {}
  <2>1. PICK x \in T : \A y \in T : x <= y
    <3>1. T \subseteq Nat
      BY <1>1
    <3> HIDE DEF T
    <3> QED BY <1>3, <3>1, LeastNat
  <2>2. x \in 1..Len(s) /\ x - 1 \in Nat /\ 1 \in Int /\ x - 1 \in Int
    BY <1>1
  <2>3. K = 1..(x - 1)
    <3>1. ASSUME NEW k \in 1..(x - 1) PROVE k \in K
      <4>1. ASSUME NEW j \in 1..k PROVE s[j].kind = "data"
        BY <1>1, <2>1, <2>2
      <4> QED BY <1>1, <2>2, <4>1
    <3>2. ASSUME NEW k \in K PROVE k \in 1..(x - 1)
      BY <1>1, <2>1, <2>2
    <3> QED BY <3>1, <3>2
  <2> HIDE DEF K
  <2>4. Cardinality(K) = x - 1
    BY <2>2, <2>3, FS_Interval
  <2>5. i \in 1..Len(s) /\ i \notin T
    BY <1>1, <2>1, <2>2, <2>4
  <2> QED BY <2>5 DEF IsData
<1> QED BY <1>2, <1>3

\* What holds of all that was read holds of what was passed on.
LEMMA DrawnPart ==
    ASSUME NEW s, NEW w \in Seq(Record), NEW v \in Seq(Record), Drawn(s, w \o v)
    PROVE  Drawn(s, w)
<1> DEFINE x == w \o v
<1>1. Len(x) = Len(w) + Len(v) /\ Len(w) \in Nat /\ Len(v) \in Nat
      /\ \A i \in 1..Len(w) : x[i] = w[i]
  OBVIOUS
<1> HIDE DEF x
<1> QED BY <1>1 DEF Drawn, x

\* A record that is no data is taken from the input.
LEMMA TracksPass ==
    ASSUME NEW s \in Seq(Record), NEW p \in 0..Len(s), NEW q \in Seq(Record), NEW k,
           Tracks(s, p, q, k), q # <<>>, ~IsData(Head(q))
    PROVE  Tracks(s, p, Tail(q), k)
<1> DEFINE l == p - Len(q)
           t == Tail(q)
<1>1. /\ Len(s) \in Nat /\ Len(q) \in Nat /\ Len(q) >= 1 /\ Len(t) = Len(q) - 1 /\ Head(q) = q[1]
      /\ \A i \in 1..Len(t) : t[i] = q[i + 1]
  OBVIOUS
<1>2. l \in Nat /\ p - Len(t) = l + 1 /\ l + 1 \in 1..Len(s) /\ Len(t) <= p
  BY <1>1 DEF Tracks
<1> HIDE DEF t
<1>3. ASSUME NEW i \in 1..Len(t) PROVE t[i] = s[(l + 1) + i]
  <2>1. i + 1 \in 1..Len(q) /\ l + (i + 1) = (l + 1) + i
    BY <1>1, <1>2
  <2>2. q[i + 1] = s[l + (i + 1)]
    BY <2>1 DEF Tracks
  <2> QED BY <1>1, <2>1, <2>2
<1>4. l + 1 \notin DataAt(s)
  <2>1. q[1] = s[l + 1]
    BY <1>1 DEF Tracks
  <2> QED BY <1>1, <2>1 DEF DataAt
<1>5. Number(DataAt(s), l + 1) = k
  <2> HIDE DEF l
  <2>1. Number(DataAt(s), l) = k
    BY DEF Tracks, l
  <2> QED BY <1>2, <1>4, <2>1, NumberStep
<1> HIDE DEF l
<1> QED BY <1>2, <1>3, <1>5 DEF Tracks, t

\* The data records at the head of the input are read.
LEMMA TracksRead ==
    ASSUME NEW s \in Seq(Record), NEW p \in 0..Len(s), NEW q \in Seq(Record),
           NEW w \in Seq(Record), Tracks(s, p, q, Len(w)), Drawn(s, w),
           NEW m \in 0..Len(q), \A i \in 1..m : IsData(q[i])
    PROVE  /\ Drawn(s, w \o SubSeq(q, 1, m))
           /\ Tracks(s, p, SubSeq(q, m + 1, Len(q)), Len(w \o SubSeq(q, 1, m)))
<1> DEFINE l == p - Len(q)
           v == SubSeq(q, 1, m)
           t == SubSeq(q, m + 1, Len(q))
           x == w \o v
           D == DataAt(s)
<1>1. /\ Len(s) \in Nat /\ Len(q) \in Nat /\ Len(w) \in Nat /\ m \in Nat
      /\ Len(v) = m /\ (\A i \in 1..m : v[i] = q[i])
      /\ Len(t) = Len(q) - m /\ (\A i \in 1..Len(t) : t[i] = q[m + i])
  OBVIOUS
<1>2. v \in Seq(Record)
  OBVIOUS
<1> HIDE DEF v, t
<1>3. l \in Nat /\ p - Len(t) = l + m /\ Len(t) <= p
  BY <1>1 DEF Tracks
<1>4. /\ Len(x) = Len(w) + m
      /\ \A i \in 1..Len(w) : x[i] = w[i]
      /\ \A i \in 1..m : x[Len(w) + i] = v[i]
  <2>1. Len(x) = Len(w) + Len(v) /\ (\A i \in 1..Len(w) : x[i] = w[i])
        /\ \A i \in 1..Len(v) : x[Len(w) + i] = v[i]
    BY <1>2
  <2>2. Len(v) = m
    BY <1>1
  <2> HIDE DEF x
  <2> QED BY <2>1, <2>2
<1> HIDE DEF x
<1>5. ASSUME NEW i \in 1..m PROVE l + i \in D /\ v[i] = s[l + i]
  <2>1. i \in 1..Len(q) /\ l + i \in 1..Len(s)
    BY <1>1, <1>3
  <2>2. q[i] = s[l + i]
    BY <2>1 DEF Tracks
  <2> QED BY <1>1, <2>1, <2>2 DEF DataAt
<1>6. \A i \in 0..m : Number(D, l + i) = Len(w) + i
  <2>1. Number(D, l) = Len(w)
    BY DEF Tracks
  <2> HIDE DEF l, D
  <2>2. \A i \in 0..m : Number(D, l + i) = Number(D, l) + i
    <3>1. l \in Nat /\ m \in Nat
      BY <1>1, <1>3
    <3>2. \A j \in 1..m : l + j \in D
      BY <1>5
    <3> QED BY <3>1, <3>2, NumberRun
  <2> QED BY <2>1, <2>2
<1>7. ASSUME NEW n \in 1..Len(x) PROVE \E j \in D : x[n] = s[j] /\ Number(D, j) = n
  <2>1. CASE n <= Len(w)
    BY <1>1, <1>4, <2>1 DEF Drawn
  <2>2. CASE n > Len(w)
    <3> DEFINE i == n - Len(w)
    <3>1. i \in 1..m /\ i \in 0..m /\ Len(w) + i = n
      BY <1>1, <1>4, <2>2
    <3> HIDE DEF i, D, l
    <3> QED BY <1>4, <1>5, <1>6, <3>1
  <2> QED BY <1>1, <1>4, <2>1, <2>2
<1>8. ASSUME NEW i \in 1..Len(t) PROVE t[i] = s[(l + m) + i]
  <2>1. m + i \in 1..Len(q) /\ l + (m + i) = (l + m) + i
    BY <1>1, <1>3
  <2>2. q[m + i] = s[l + (m + i)]
    BY <2>1 DEF Tracks
  <2> QED BY <1>1, <2>1, <2>2
<1> HIDE DEF l, D
<1>9. Number(D, l + m) = Len(x)
  <2>1. m \in 0..m
    BY <1>1
  <2> QED BY <1>4, <1>6, <2>1
<1>10. Drawn(s, x)
  BY <1>7 DEF Drawn, D
<1>11. Tracks(s, p, t, Len(x))
  BY <1>3, <1>8, <1>9 DEF Tracks, D
<1> QED BY <1>10, <1>11 DEF x, v, t

\* The channel reads more of what the peer sent.
LEMMA TracksFeed ==
    ASSUME NEW s \in Seq(Record), NEW p \in 0..Len(s), NEW q \in Seq(Record), NEW k,
           Tracks(s, p, q, k), NEW h \in (p + 1)..Len(s)
    PROVE  Tracks(s, h, q \o SubSeq(s, p + 1, h), k)
<1> DEFINE v == SubSeq(s, p + 1, h)
           x == q \o v
           l == p - Len(q)
<1>1. /\ Len(s) \in Nat /\ Len(q) \in Nat /\ h \in Nat /\ p \in Nat /\ h > p
      /\ Len(v) = h - p /\ (\A i \in 1..Len(v) : v[i] = s[p + i])
  OBVIOUS
<1>2. v \in Seq(Record)
  OBVIOUS
<1> HIDE DEF v
<1>3. /\ Len(x) = Len(q) + Len(v)
      /\ \A i \in 1..Len(q) : x[i] = q[i]
      /\ \A i \in 1..Len(v) : x[Len(q) + i] = v[i]
  BY <1>2
<1> HIDE DEF x
<1>4. h - Len(x) = l /\ Len(x) <= h
  BY <1>1, <1>3 DEF Tracks
<1>5. ASSUME NEW i \in 1..Len(x) PROVE x[i] = s[l + i]
  <2>1. CASE i <= Len(q)
    BY <1>1, <1>3, <2>1 DEF Tracks
  <2>2. CASE i > Len(q)
    <3> DEFINE j == i - Len(q)
    <3>1. j \in 1..Len(v) /\ Len(q) + j = i /\ p + j = l + i
      BY <1>1, <1>3, <2>2
    <3> HIDE DEF j, l
    <3> QED BY <1>1, <1>3, <3>1
  <2> QED BY <1>1, <1>3, <2>1, <2>2
<1>6. Number(DataAt(s), l) = k
  BY DEF Tracks
<1> HIDE DEF l
<1>7. Tracks(s, h, x, k)
  BY <1>4, <1>5, <1>6 DEF Tracks
<1> QED BY <1>7 DEF x, v

\* A connection that reads no more: its handshake failed, its input ended or it
\* was closed.
Dead(c) == c.hsError \/ c.readShutdown # "none" \/ c.bioClosed

\* A handshake that failed never completes.
Sticky(c) == c.hsError => c.inInit

\* What an operation that reads no data does to the input: nothing, or it takes
\* a record that is no data, or the connection reads no more.
Receives(c, d) == /\ Sticky(c) => Sticky(d)
                  /\ Dead(c) => Dead(d)
                  /\ c.bioClosed => d.bioClosed
                  /\ \/ Dead(d) \/ d.inbound = c.inbound
                     \/ /\ c.inbound # <<>> /\ ~IsData(Head(c.inbound))
                        /\ d.inbound = Tail(c.inbound)

\* Finishing a flight takes nothing from the input of a live connection.
LEMMA FinishFlightReceives ==
    ASSUME NEW c \in Connection, c.inInit, ~c.hsError
    PROVE  LET d == FinishFlight(c).conn IN Sticky(d) /\ (Dead(d) \/ d.inbound = c.inbound)
<1> DEFINE d == Send(c, Rec("hs"))
           t == [d EXCEPT !.flights = d.flights + 1]
           u == [t EXCEPT !.inInit = FALSE]
<1>1. Rec("hs") \in Record
  BY RecType DEF Kinds
<1>2. d \in Connection /\ d.inbound = c.inbound /\ d.inInit = c.inInit /\ d.hsError = c.hsError
  BY <1>1, SendType, SendTrust DEF SameHandshake
<1> HIDE DEF d
<1>3. t \in Connection
  <2>1. d.flights + 1 \in Nat
    BY <1>2 DEF Connection
  <2> QED BY <1>2, <2>1 DEF Connection
<1>4. t.inbound = c.inbound /\ t.inInit = c.inInit /\ t.hsError = c.hsError
  BY <1>2 DEF Connection
<1> HIDE DEF t
<1>5. u.inbound = t.inbound /\ u.hsError = t.hsError
  BY <1>3 DEF Connection
<1>6. /\ FinishFlight(c) = IF t.flights = HsFlights THEN Result("complete", u)
                           ELSE IF t.inbound = <<>> THEN WantRead(t) ELSE RefuseInHandshake(t)
  BY DEF FinishFlight, t, d
<1> HIDE DEF u
<1>7. Result("complete", u).conn = u /\ WantRead(t).conn = RetryRead(t, TRUE)
  BY DEF Result, WantRead
<1>8. /\ RetryRead(t, TRUE).inbound = t.inbound /\ RetryRead(t, TRUE).hsError = t.hsError
  BY <1>3, RetryReadTrust
<1>9. t.inbound # <<>> => LET v == RefuseInHandshake(t).conn IN
        v.inInit = t.inInit /\ (v.hsError \/ v.readShutdown # "none")
  BY <1>3, RefuseInHandshakeTrust DEF SameHandshake
<1>10. CASE t.flights = HsFlights
  BY <1>4, <1>5, <1>6, <1>7, <1>10 DEF Sticky
<1>11. CASE t.flights # HsFlights /\ t.inbound = <<>>
  BY <1>4, <1>6, <1>7, <1>8, <1>11 DEF Sticky
<1>12. CASE t.flights # HsFlights /\ t.inbound # <<>>
  <2> DEFINE v == RefuseInHandshake(t).conn
  <2>1. FinishFlight(c).conn = v
    BY <1>6, <1>12
  <2>2. v.inInit = t.inInit /\ (v.hsError \/ v.readShutdown # "none")
    BY <1>9, <1>12
  <2> HIDE DEF v
  <2> QED BY <1>4, <2>1, <2>2 DEF Sticky, Dead
<1> QED BY <1>10, <1>11, <1>12

\* SSL_do_handshake takes handshake records, or fails for good.
LEMMA DoHandshakeReceives ==
    ASSUME NEW c \in Connection, LastFlight(c)
    PROVE  Receives(c, DoHandshake(c).conn)
<1> DEFINE r == DoHandshake(c)
<1>1. (Dead(c) => Dead(r.conn)) /\ (c.bioClosed => r.conn.bioClosed)
  BY DoHandshakeTrust DEF Dead, Advances
<1>2. CASE ~c.inInit \/ Dead(c)
  <2>1. r.conn = c
    BY <1>2, NothingToReadType DEF DoHandshake, Result, Dead
  <2> QED BY <2>1 DEF Receives
<1>3. CASE c.inInit /\ ~Dead(c) /\ c.verify = "pendingResult"
  <2>1. r.conn = c
    BY <1>3 DEF DoHandshake, Result, Dead
  <2> QED BY <2>1 DEF Receives
<1>4. CASE c.inInit /\ ~Dead(c) /\ c.verify = "failed"
  <2> DEFINE d == FatalAlert(c)
             e == [d EXCEPT !.hsError = TRUE]
  <2>1. d \in Connection /\ d.inInit = c.inInit
    BY FatalAlertType, FatalAlertTrust DEF SameHandshake
  <2>2. r.conn = e
    BY <1>4 DEF DoHandshake, Result, HandshakeError, Dead
  <2> HIDE DEF d, r
  <2>3. e.hsError /\ e.inInit = d.inInit
    BY <2>1 DEF Connection
  <2> HIDE DEF e
  <2>4. Receives(c, e)
    BY <1>1, <1>4, <2>1, <2>2, <2>3 DEF Receives, Dead, Sticky
  <2> QED BY <2>2, <2>4 DEF r
<1>5. CASE c.inInit /\ ~Dead(c) /\ c.verify = "certificateVerified"
  <2>1. r = FinishFlight(c)
    BY <1>5 DEF DoHandshake, Dead
  <2>2. ~c.hsError
    BY <1>5 DEF Dead
  <2>3. LET d == FinishFlight(c).conn IN Sticky(d) /\ (Dead(d) \/ d.inbound = c.inbound)
    BY <1>5, <2>2, FinishFlightReceives
  <2> HIDE DEF r
  <2> QED BY <1>1, <2>1, <2>3 DEF Receives, r
<1>6. CASE c.inInit /\ ~Dead(c) /\ c.verify = "notStarted"
  <2> DEFINE d == StartHandshake(c)
             e == Send(c, Rec("hs"))
  <2>1. Rec("hs") \in Record
    BY RecType DEF Kinds
  <2>2. e \in Connection /\ e.inbound = c.inbound /\ e.inInit = c.inInit /\ e.hsError = c.hsError
    BY <2>1, SendType, SendTrust DEF SameHandshake
  <2>3. d \in {[c EXCEPT !.started = TRUE], [e EXCEPT !.started = TRUE]}
    BY DEF StartHandshake
  <2> HIDE DEF e
  <2>4. \A x \in Connection : LET y == [x EXCEPT !.started = TRUE] IN
          y \in Connection /\ y.inbound = x.inbound /\ y.inInit = x.inInit /\ y.hsError = x.hsError
    BY DEF Connection
  <2>5. d \in Connection /\ d.inbound = c.inbound /\ d.inInit /\ ~d.hsError
    <3> DEFINE x == [c EXCEPT !.started = TRUE]
               y == [e EXCEPT !.started = TRUE]
    <3>1. /\ x \in Connection /\ x.inbound = c.inbound /\ x.inInit = c.inInit
          /\ x.hsError = c.hsError
          /\ y \in Connection /\ y.inbound = e.inbound /\ y.inInit = e.inInit
          /\ y.hsError = e.hsError
      BY <2>2, <2>4
    <3>2. d = x \/ d = y
      BY <2>3
    <3> HIDE DEF x, y, d
    <3> QED BY <1>6, <2>2, <3>1, <3>2 DEF Dead
  <2>6. r = ReadFlight(d)
    BY <1>6 DEF DoHandshake, Dead
  <2> HIDE DEF d, r
  <2>7. CASE d.inbound = <<>>
    <3>1. r.conn = RetryRead(d, TRUE)
      BY <2>6, <2>7 DEF ReadFlight, WantRead, Result
    <3>2. RetryRead(d, TRUE).inbound = d.inbound /\ RetryRead(d, TRUE).hsError = d.hsError
      BY <2>5, RetryReadTrust
    <3> QED BY <1>1, <2>5, <3>1, <3>2 DEF Receives, Sticky, r
  <2>8. CASE d.inbound # <<>> /\ Head(d.inbound).kind # "hs"
    <3>1. r = RefuseInHandshake(d)
      BY <2>6, <2>8 DEF ReadFlight
    <3>2. r.conn.inInit = d.inInit /\ (r.conn.hsError \/ r.conn.readShutdown # "none")
      BY <2>5, <2>8, <3>1, RefuseInHandshakeTrust DEF SameHandshake
    <3> QED BY <1>1, <2>5, <3>2 DEF Receives, Sticky, Dead, r
  <2>9. CASE d.inbound # <<>> /\ Head(d.inbound).kind = "hs"
    <3> DEFINE f == Consume(d)
               g == [f EXCEPT !.verify = "pendingResult"]
    <3>1. f \in Connection /\ f.inbound = Tail(d.inbound) /\ f.inInit /\ ~f.hsError
      BY <2>5, <2>9, ConsumeType, ConsumeTrust DEF SameHandshake
    <3>2. r.conn = g \/ r = FinishFlight(f)
      BY <2>6, <2>9 DEF ReadFlight, Result
    <3> HIDE DEF f
    <3>3. g.inbound = f.inbound /\ g.hsError = f.hsError
      BY <3>1 DEF Connection
    <3> HIDE DEF g
    <3>4. LET h == FinishFlight(f).conn IN Sticky(h) /\ (Dead(h) \/ h.inbound = f.inbound)
      BY <3>1, FinishFlightReceives
    <3>5. Sticky(r.conn) /\ (Dead(r.conn) \/ r.conn.inbound = f.inbound)
      BY <3>1, <3>2, <3>3, <3>4 DEF Sticky
    <3>6. c.inbound # <<>> /\ ~IsData(Head(c.inbound)) /\ f.inbound = Tail(c.inbound)
      BY <2>5, <2>9, <3>1 DEF IsData
    <3> QED BY <1>1, <3>5, <3>6 DEF Receives, r
  <2> QED BY <2>7, <2>8, <2>9
<1>7. c.verify \in Verify
  BY DEF Connection
<1> QED BY <1>2, <1>3, <1>4, <1>5, <1>6, <1>7 DEF Verify

\* SSL_shutdown takes no data record from the input: it leaves the data to SSL_read.
LEMMA DoShutdownReceives ==
    ASSUME NEW c \in Connection
    PROVE  Receives(c, DoShutdown(c).conn)
<1> DEFINE r == DoShutdown(c)
           Same(x) == x.inInit = c.inInit /\ x.hsError = c.hsError
<1>1. (Dead(c) => Dead(r.conn)) /\ (c.bioClosed => r.conn.bioClosed)
  BY DoShutdownTrust DEF Dead, Advances
<1>2. Same(r.conn) /\ (r.conn.inbound = c.inbound \/ Dead(r.conn)) => Receives(c, r.conn)
  BY <1>1 DEF Receives, Sticky
<1>3. CASE c.inInit
  <2>1. r.conn = c
    BY <1>3 DEF DoShutdown, Result
  <2> QED BY <2>1 DEF Receives
<1>4. CASE ~c.inInit /\ c.writeShutdown # "closeNotify"
  <2> DEFINE x == Rec("closeNotify")
             e == Send(c, x)
             d == [e EXCEPT !.writeShutdown = "closeNotify"]
             b == [c EXCEPT !.writeShutdown = "closeNotify"]
  <2>1. x \in Record
    BY RecType DEF Kinds
  <2>2. e \in Connection /\ Same(e) /\ e.inbound = c.inbound
    BY <2>1, SendType, SendTrust DEF SameHandshake
  <2>3. r.conn = c \/ r.conn = b \/ r.conn = d
    BY <1>4 DEF DoShutdown, SendCloseNotify, BIOClosed, Result
  <2> HIDE DEF e, r
  <2>4. Same(d) /\ d.inbound = c.inbound
    BY <2>2 DEF Connection
  <2>5. Same(b) /\ b.inbound = c.inbound
    BY DEF Connection
  <2> HIDE DEF d, b
  <2>6. Same(r.conn) /\ r.conn.inbound = c.inbound
    BY <2>3, <2>4, <2>5
  <2> QED BY <1>2, <2>6 DEF r
<1>5. CASE ~c.inInit /\ c.writeShutdown = "closeNotify"
  <2> DEFINE e == Consume(c)
             f == Refuse(c)
             d == [e EXCEPT !.readShutdown = "closeNotify"]
             g == [f EXCEPT !.readShutdown = "error"]
             k == RetryRead(c, TRUE)
             l == RetryRead(c, FALSE)
  <2>1. c.inbound # <<>> => /\ e \in Connection /\ Same(e) /\ f \in Connection /\ Same(f)
    BY ConsumeType, RefuseType, ConsumeTrust, RefuseTrust DEF SameHandshake
  <2>2. Same(k) /\ k.inbound = c.inbound /\ Same(l) /\ l.inbound = c.inbound
    BY RetryReadTrust DEF SameHandshake
  <2>3. \/ r.conn = c \/ r.conn = k \/ r.conn = l
        \/ c.inbound # <<>> /\ (r.conn = d \/ r.conn = g)
    BY <1>5 DEF DoShutdown, AwaitCloseNotify, BIOClosed, WantRead, Result
  <2> HIDE DEF e, f, k, l, r
  <2>4. c.inbound # <<>> => Same(d) /\ Dead(d) /\ Same(g) /\ Dead(g)
    BY <2>1 DEF Connection, Dead
  <2> HIDE DEF d, g
  <2>5. Same(r.conn) /\ (r.conn.inbound = c.inbound \/ Dead(r.conn))
    BY <2>2, <2>3, <2>4
  <2> QED BY <1>2, <2>5 DEF r
<1> QED BY <1>3, <1>4, <1>5

\* SSL_write takes what the handshake before it takes.
LEMMA EncodeReceives ==
    ASSUME NEW c \in Connection, NEW a \in Action, LastFlight(c)
    PROVE  Receives(c, EncodeSingleWrite(c, a).conn)
<1> DEFINE h == DoHandshake(c)
           x == DataRecord(a.id, a.n)
           w == EncodeSingleWrite(c, a)
           e == Send(h.conn, x)
<1>1. h.conn \in Connection /\ Receives(c, h.conn)
  BY DoHandshakeType, DoHandshakeReceives
<1>2. x \in Record
  BY DEF DataRecord, Record, Action, Kinds
<1>3. BeforeWrite(c).conn = h.conn
  BY DEF BeforeWrite, BIOClosed, Result
<1> HIDE DEF h, x
<1>4. w.conn = c \/ w.conn = h.conn \/ w.conn = e
  BY <1>3 DEF EncodeSingleWrite, Result, x
<1>5. /\ e.inInit = h.conn.inInit /\ e.bioClosed = h.conn.bioClosed /\ e.hsError = h.conn.hsError
      /\ e.readShutdown = h.conn.readShutdown /\ e.inbound = h.conn.inbound
  BY <1>1, <1>2, SendTrust DEF SameHandshake
<1> HIDE DEF w, e
<1>6. Receives(c, c)
  BY DEF Receives
<1>7. Receives(c, e)
  BY <1>1, <1>5 DEF Receives, Sticky, Dead
<1> QED BY <1>1, <1>4, <1>6, <1>7 DEF w

\* SSL_read takes the data at the head of the input and yields just that.
LEMMA ReadDataReceives ==
    ASSUME NEW c \in Connection, ~c.hsError
    PROVE  LET d == ReadData(c).conn
               m == DataPrefix(c.inbound)
           IN  /\ Sticky(d) /\ (c.bioClosed => d.bioClosed)
               /\ Dead(c) => Dead(d) /\ ReadableData(c) = <<>>
               /\ ~Dead(c) => ReadableData(c) = SubSeq(c.inbound, 1, m)
               /\ Dead(d) \/ d.inbound = SubSeq(c.inbound, m + 1, Len(c.inbound))
<1> DEFINE rest == SubSeq(c.inbound, DataPrefix(c.inbound) + 1, Len(c.inbound))
           t == [c EXCEPT !.inbound = rest]
           d == ReadData(c).conn
<1>1. (Dead(c) => Dead(d)) /\ (c.bioClosed => d.bioClosed)
  BY ReadDataTrust DEF Dead, Advances
<1>2. /\ Dead(c) => ReadableData(c) = <<>>
      /\ ~Dead(c) => ReadableData(c) = SubSeq(c.inbound, 1, DataPrefix(c.inbound))
  BY DEF Dead, ReadableData
<1>3. rest \in Seq(Record)
  <2>1. c.inbound \in Seq(Record) /\ DataPrefix(c.inbound) \in 0..Len(c.inbound)
    BY ConnectionOpsType, DataPrefixType
  <2> QED BY <2>1
<1> HIDE DEF rest
<1>4. t \in Connection /\ t.inbound = rest /\ t.hsError = c.hsError
  BY <1>3 DEF Connection
<1> DEFINE e == Consume(t)
           f == Refuse(t)
           x == [e EXCEPT !.readShutdown = "closeNotify"]
           y == [f EXCEPT !.readShutdown = "error"]
           k == RetryRead(t, TRUE)
<1>5. \/ d = c /\ Dead(c)
      \/ d = k
      \/ t.inbound # <<>> /\ (d = x \/ d = y)
  BY DEF ReadData, BIOClosed, WantRead, Result, Dead, rest
<1> HIDE DEF t, d
<1>6. t.inbound # <<>> => /\ e \in Connection /\ e.hsError = t.hsError
                          /\ f \in Connection /\ f.hsError = t.hsError
  BY <1>4, ConsumeType, RefuseType, ConsumeTrust, RefuseTrust
<1>7. k.inbound = t.inbound /\ k.hsError = t.hsError
  BY <1>4, RetryReadTrust
<1> HIDE DEF e, f, k
<1>8. t.inbound # <<>> => /\ x.hsError = e.hsError /\ Dead(x)
                          /\ y.hsError = f.hsError /\ Dead(y)
  BY <1>6 DEF Connection, Dead
<1> HIDE DEF x, y
<1>9. Sticky(d) /\ (Dead(d) \/ d.inbound = rest)
  BY <1>4, <1>5, <1>6, <1>7, <1>8 DEF Sticky
<1> QED BY <1>1, <1>2, <1>9 DEF d, rest

\* All that was decrypted, passed on or not.
Received == delivered \o plaintextReadBuffer

\* What was decrypted is the peer's data from the first piece on, and while the
\* connection reads on, its input is what the channel has fed to it behind that.
\* A removal closes the BIO first, so that the bytes the removal future takes
\* are missed by nobody.
Inbox == /\ Drawn(script, Received) /\ Sticky(conn)
         /\ removed => conn.bioClosed
         /\ fatal = "none" /\ "removalFuture" \in Pending(stack) => conn.bioClosed
         /\ ~Dead(conn) => Tracks(script, pos, conn.inbound, Len(Received))

\* Who changes the variables of the inbound stream.
LEMMA ReadSteps ==
    ASSUME Next
    PROVE  /\ UNCHANGED script
           /\ UNCHANGED pos \/ ChannelRead
           /\ UNCHANGED <<delivered, plaintextReadBuffer>> \/ DoDecodeData \/ DoFlushReadData
           /\ UNCHANGED removed \/ ChannelUnwrap \/ HandlerRemoved
BY DEF Next, Handler, Channel, User, Return, WriteDataToNetwork, ContextClose, ContextCloseOutput,
   ChannelClose, ChannelCloseOutput, ChannelUnwrap, RemovalFuture, HandlerRemoved, BufferWrite,
   Flush, Discard, DoUnbufferActions, InvokeCloseOutput, FailEncoded, FailCloseOutput, CloseAll,
   CloseOutput, StopTLS, DoShutdownStep, ShutdownIncomplete, DoHandshakeStep, HandshakeIncomplete,
   DoDecodeData, AfterZeroReturn, DoFlushReadData, ChannelActive, ConnectFails, ChannelInactive,
   ChannelRead, ChannelReadComplete, InputClosedTriggered, ChannelFulfills, UserCalls, UserFlushes,
   ResumeHandshake, CompletedAdditionalPeerCertificateVerification, TimedOutShutdown, envVars,
   histVars

\* Only channelUnwrap starts a removal future.
LEMMA RemovalSteps ==
    ASSUME TypeOK, Next, fatal' = "none", "removalFuture" \in Pending(stack')
    PROVE  "removalFuture" \in Pending(stack) \/ ChannelUnwrap
<1> USE DEF Pops, Drops, Goes, Starts, Pushes
<1>5. CASE WriteDataToNetwork \/ ContextClose \/ ContextCloseOutput \/ Return
  BY <1>5, NetworkStack
<1>6. CASE ChannelClose \/ ChannelCloseOutput \/ RemovalFuture
  BY <1>6, EndStack
<1>7. CASE BufferWrite \/ Flush \/ Discard \/ InvokeCloseOutput \/ FailEncoded \/ FailCloseOutput
  BY <1>7, BufferStack
<1>8. CASE CloseAll \/ CloseOutput \/ StopTLS
  BY <1>8, CloseStack
<1>9. CASE DoUnbufferActions
  BY <1>9, UnbufferStack
<1>10. CASE DoHandshakeStep
  BY <1>10, HandshakeStack
<1>11. CASE DoDecodeData \/ AfterZeroReturn \/ DoFlushReadData \/ HandshakeIncomplete
            \/ ShutdownIncomplete
  BY <1>11, ReadStack
<1>12. CASE Channel
  BY <1>12, ChannelStack DEF Channel
<1>13. CASE User \/ ResumeHandshake \/ TimedOutShutdown
  <2>1. CASE CompletedAdditionalPeerCertificateVerification
    BY <2>1, UserStack
  <2>2. CASE TimedOutShutdown
    BY <2>2, UserStack
  <2> QED BY <1>13, <2>1, <2>2, UserStack DEF User
<1>14. CASE DoShutdownStep
  BY <1>14, ShutdownStack DEF ShutdownEnd, TargetComplete
<1> QED BY <1>5, <1>6, <1>7, <1>8, <1>9, <1>10, <1>11, <1>12, <1>13, <1>14 DEF Next, Handler

\* Every other step leaves the data in the input to SSL_read.
LEMMA ConnReceives ==
    ASSUME TypeOK, TrustInv, Next, ~ChannelRead, ~DoDecodeData, ~RemovalFuture
    PROVE  Receives(conn, conn')
<1>1. conn \in Connection /\ LastFlight(conn)
  BY DEF TypeOK, TrustInv
<1>2. CASE UNCHANGED conn
  BY <1>2 DEF Receives
<1>3. CASE WriteDataToNetwork
  <2> DEFINE d == GetDataForNetwork(conn)
  <2>1. conn' = conn \/ conn' = d
    BY <1>3 DEF WriteDataToNetwork
  <2>2. /\ d.inInit = conn.inInit /\ d.bioClosed = conn.bioClosed /\ d.hsError = conn.hsError
        /\ d.readShutdown = conn.readShutdown /\ d.inbound = conn.inbound
    BY <1>1 DEF Connection, GetDataForNetwork
  <2> HIDE DEF d
  <2> QED BY <2>1, <2>2 DEF Receives, Sticky, Dead
<1>4. CASE ChannelUnwrap \/ HandlerRemoved
  <2> DEFINE d == CloseConnection(conn)
  <2>1. conn' = conn \/ conn' = d
    BY <1>4 DEF ChannelUnwrap, HandlerRemoved
  <2>2. d.inInit = conn.inInit /\ d.bioClosed /\ d.hsError = conn.hsError
    BY <1>1 DEF Connection, CloseConnection
  <2> HIDE DEF d
  <2> QED BY <2>1, <2>2 DEF Receives, Sticky, Dead
<1>5. CASE DoUnbufferActions
  <2> DEFINE a == Head(bufferedActions)
             w == EncodeSingleWrite(conn, a)
  <2>1. marked > 0 => a \in Action
    <3>1. bufferedActions \in Seq(Action) /\ marked \in 0..Len(bufferedActions)
      BY DEF TypeOK
    <3>2. marked > 0 => bufferedActions # <<>>
      BY <3>1
    <3> QED BY <3>1, <3>2
  <2>2. conn' = conn \/ (marked > 0 /\ conn' = w.conn)
    BY <1>5 DEF DoUnbufferActions
  <2>3. marked > 0 => Receives(conn, w.conn)
    BY <1>1, <2>1, EncodeReceives
  <2> HIDE DEF w
  <2> QED BY <2>2, <2>3 DEF Receives
<1>6. CASE DoShutdownStep
  <2>1. conn' = conn \/ conn' = DoShutdown(conn).conn
    BY <1>6 DEF DoShutdownStep
  <2>2. Receives(conn, DoShutdown(conn).conn)
    BY <1>1, DoShutdownReceives
  <2> QED BY <2>1, <2>2 DEF Receives
<1>7. CASE DoHandshakeStep
  <2>1. conn' = DoHandshake(conn).conn
    BY <1>7 DEF DoHandshakeStep
  <2> QED BY <1>1, <2>1, DoHandshakeReceives
<1>8. CASE ResumeHandshake
  <2>1. PICK r : conn' = SetVerification(conn, r)
    BY <1>8 DEF ResumeHandshake
  <2> DEFINE d == SetVerification(conn, r)
  <2>2. /\ d.inInit = conn.inInit /\ d.bioClosed = conn.bioClosed /\ d.hsError = conn.hsError
        /\ d.readShutdown = conn.readShutdown /\ d.inbound = conn.inbound
    BY <1>1 DEF Connection, SetVerification
  <2> HIDE DEF d
  <2>3. conn' = d
    BY <2>1 DEF d
  <2> QED BY <2>2, <2>3 DEF Receives, Sticky, Dead
<1> QED BY <1>2, <1>3, <1>4, <1>5, <1>6, <1>7, <1>8, ConnSteps

\* Every action keeps it.
LEMMA NextInbox ==
    ASSUME TypeOK, TypeOK', TrustInv, Inbox, Next
    PROVE  Inbox'
<1>1. /\ script \in Seq(Record) /\ pos \in 0..Len(script) /\ conn \in Connection
      /\ conn.inbound \in Seq(Record) /\ conn'.inbound \in Seq(Record) /\ conn' \in Connection
      /\ delivered \in Seq(Record) /\ plaintextReadBuffer \in Seq(Record)
      /\ delivered' \in Seq(Record) /\ plaintextReadBuffer' \in Seq(Record)
  BY ConnectionOpsType DEF TypeOK
<1>2. Received \in Seq(Record)
  BY <1>1 DEF Received
<1>3. fatal = "none" /\ UNCHANGED script
  BY NextRuns, ReadSteps
<1>4. ASSUME conn.bioClosed => conn'.bioClosed
      PROVE  /\ (removed => conn.bioClosed)'
             /\ (fatal = "none" /\ "removalFuture" \in Pending(stack) => conn.bioClosed)'
  <2>1. ChannelUnwrap \/ HandlerRemoved =>
          conn'.bioClosed \/ (UNCHANGED removed /\ fatal' # "none")
    <3>1. ChannelUnwrap \/ HandlerRemoved =>
            conn' = CloseConnection(conn) \/ (UNCHANGED removed /\ fatal' # "none")
      BY DEF ChannelUnwrap, HandlerRemoved, Crash
    <3>2. CloseConnection(conn).bioClosed
      BY <1>1 DEF CloseConnection, Connection
    <3> QED BY <3>1, <3>2
  <2>2. UNCHANGED removed \/ ChannelUnwrap \/ HandlerRemoved
    BY ReadSteps
  <2>3. ASSUME fatal' = "none", "removalFuture" \in Pending(stack') PROVE conn'.bioClosed
    BY <1>3, <1>4, <2>1, <2>3, RemovalSteps DEF Inbox
  <2> QED BY <1>4, <2>1, <2>2, <2>3 DEF Inbox
<1>5. CASE ChannelRead
  <2>1. PICK h \in (pos + 1)..Len(script) :
          pos' = h /\ conn' = ConsumeDataFromNetwork(conn, SubSeq(script, pos + 1, h))
    BY <1>5 DEF ChannelRead
  <2>2. UNCHANGED <<delivered, plaintextReadBuffer>>
    BY <1>5 DEF ChannelRead, histVars
  <2> DEFINE v == SubSeq(script, pos + 1, h)
             d == ConsumeDataFromNetwork(conn, v)
  <2>3. /\ d.inInit = conn.inInit /\ d.bioClosed = conn.bioClosed /\ d.hsError = conn.hsError
        /\ d.readShutdown = conn.readShutdown /\ d.inbound = conn.inbound \o v
    BY <1>1 DEF Connection, ConsumeDataFromNetwork
  <2>4. conn' = d
    BY <2>1
  <2> HIDE DEF d
  <2>5. Tracks(script, pos, conn.inbound, Len(Received))
          => Tracks(script, pos, conn.inbound, Len(Received))'
    <3>1. Tracks(script, pos, conn.inbound, Len(Received))
            => Tracks(script, h, conn.inbound \o v, Len(Received))
      BY <1>1, TracksFeed
    <3> QED BY <1>3, <2>1, <2>2, <2>3, <2>4, <3>1 DEF Received
  <2> QED BY <1>3, <1>4, <2>2, <2>3, <2>4, <2>5 DEF Inbox, Received, Sticky, Dead
<1>6. CASE RemovalFuture
  <2> DEFINE d == ExtractUnconsumedData(conn)
  <2>1. conn' = d /\ UNCHANGED <<delivered, plaintextReadBuffer>>
    BY <1>6 DEF RemovalFuture
  <2>2. d.inInit = conn.inInit /\ d.bioClosed = conn.bioClosed /\ d.hsError = conn.hsError
    BY <1>1 DEF Connection, ExtractUnconsumedData
  <2>3. "removalFuture" \in Pending(stack)
    BY <1>6, EndStack DEF Pops
  <2>4. conn.bioClosed
    BY <1>3, <2>3 DEF Inbox
  <2> HIDE DEF d
  <2> QED BY <1>3, <1>4, <2>1, <2>2, <2>4 DEF Inbox, Received, Sticky, Dead
<1>7. CASE DoDecodeData
  <2> DEFINE d == ReadData(conn).conn
             m == DataPrefix(conn.inbound)
             v == ReadableData(conn)
             q == SubSeq(conn.inbound, m + 1, Len(conn.inbound))
  <2>1. conn' = d /\ plaintextReadBuffer' = plaintextReadBuffer \o v
        /\ UNCHANGED <<delivered, pos>>
    BY <1>7 DEF DoDecodeData, envVars, histVars
  <2>2. ~conn.hsError
    <3>1. "doDecodeData" \in Pending(stack)
      BY <1>7, ReadStack DEF Pops
    <3>2. ~conn.inInit
      BY <3>1 DEF TrustInv, StackAgrees
    <3> QED BY <3>2 DEF Inbox, Sticky
  <2>3. /\ Sticky(d) /\ (conn.bioClosed => d.bioClosed)
        /\ Dead(conn) => Dead(d) /\ v = <<>>
        /\ ~Dead(conn) => v = SubSeq(conn.inbound, 1, m)
        /\ Dead(d) \/ d.inbound = q
    BY <1>1, <2>2, ReadDataReceives
  <2>4. v \in Seq(Record)
    BY <1>1, ReadDataType
  <2> HIDE DEF d, v
  <2>5. Received' = Received \o v
    <3>1. (delivered \o plaintextReadBuffer) \o v = delivered \o (plaintextReadBuffer \o v)
      <4>1. /\ delivered \in Seq(Record) /\ plaintextReadBuffer \in Seq(Record)
            /\ v \in Seq(Record)
        BY <1>1, <2>4
      <4> QED BY <4>1, RecordsConcat, Zenon
    <3>2. Received' = delivered \o (plaintextReadBuffer \o v)
      BY <2>1 DEF Received
    <3> QED BY <3>1, <3>2 DEF Received
  <2>6. m \in 0..Len(conn.inbound) /\ \A i \in 1..m : IsData(conn.inbound[i])
    BY <1>1, DataPrefixType, DataPrefixIsData
  <2>7. CASE Dead(conn)
    <3>1. Received' = Received
      BY <1>2, <2>3, <2>5, <2>7
    <3> QED BY <1>3, <1>4, <2>1, <2>3, <2>7, <3>1 DEF Inbox
  <2>8. CASE ~Dead(conn)
    <3> HIDE DEF m
    <3>1. Drawn(script, Received) /\ Tracks(script, pos, conn.inbound, Len(Received))
      BY <2>8 DEF Inbox
    <3>2. /\ Drawn(script, Received \o SubSeq(conn.inbound, 1, m))
          /\ Tracks(script, pos, q, Len(Received \o SubSeq(conn.inbound, 1, m)))
      BY <1>1, <1>2, <2>6, <3>1, TracksRead
    <3>3. Drawn(script, Received') /\ Tracks(script, pos, q, Len(Received'))
      BY <2>3, <2>5, <2>8, <3>2
    <3> HIDE DEF q
    <3> QED BY <1>3, <1>4, <2>1, <2>3, <3>3 DEF Inbox
  <2> QED BY <2>7, <2>8
<1>8. CASE DoFlushReadData
  <2>1. UNCHANGED <<conn, pos>>
    BY <1>8 DEF DoFlushReadData, envVars
  <2>2. plaintextReadBuffer' = <<>>
        /\ delivered' = IF removed THEN delivered ELSE delivered \o plaintextReadBuffer
    BY <1>8 DEF DoFlushReadData, OurNewBuffer
  <2>3. Received' = delivered'
    BY <1>1, <2>2 DEF Received
  <2>4. CASE removed
    <3>1. Received' = delivered /\ Dead(conn)
      BY <2>2, <2>3, <2>4 DEF Inbox, Dead
    <3>2. Drawn(script, delivered)
      BY <1>1, DrawnPart DEF Inbox, Received
    <3> QED BY <1>3, <1>4, <2>1, <3>1, <3>2 DEF Inbox
  <2>5. CASE ~removed
    <3>1. Received' = Received
      BY <2>2, <2>3, <2>5 DEF Received
    <3> QED BY <1>3, <1>4, <2>1, <3>1 DEF Inbox
  <2> QED BY <2>4, <2>5
<1>9. CASE ~ChannelRead /\ ~RemovalFuture /\ ~DoDecodeData /\ ~DoFlushReadData
  <2>1. Receives(conn, conn')
    BY <1>9, ConnReceives
  <2>2. UNCHANGED <<delivered, plaintextReadBuffer, pos>> /\ Received' = Received
    BY <1>9, ReadSteps DEF Received
  <2>3. ~Dead(conn') => Tracks(script, pos, conn'.inbound, Len(Received))
    <3> SUFFICES ASSUME ~Dead(conn') PROVE Tracks(script, pos, conn'.inbound, Len(Received))
      OBVIOUS
    <3>1. Tracks(script, pos, conn.inbound, Len(Received))
      BY <2>1 DEF Receives, Inbox
    <3>2. conn.inbound # <<>> /\ ~IsData(Head(conn.inbound))
            => Tracks(script, pos, Tail(conn.inbound), Len(Received))
      BY <1>1, <3>1, TracksPass
    <3> QED BY <2>1, <3>1, <3>2 DEF Receives
  <2>4. Sticky(conn') /\ (conn.bioClosed => conn'.bioClosed)
    BY <2>1 DEF Receives, Inbox
  <2> QED BY <1>3, <1>4, <2>2, <2>3, <2>4 DEF Inbox
<1> QED BY <1>5, <1>6, <1>7, <1>8, <1>9

\* It holds initially.
LEMMA InitInbox == Init => Inbox
<1> SUFFICES ASSUME Init PROVE Inbox
  OBVIOUS
<1>1. /\ delivered = <<>> /\ plaintextReadBuffer = <<>> /\ pos = 0 /\ ~removed
      /\ stack = <<>> \/ stack = <<Run("doHandshakeStep")>>
  BY DEF Init
<1>2. Received = <<>> /\ Len(Received) = 0
  BY <1>1 DEF Received
<1>3. conn.inbound = <<>> /\ ~conn.hsError
  BY DEF Init, NewConnection
<1>4. "removalFuture" \notin Pending(stack)
  BY <1>1, PendingEmpty, PendingOne, CallOps
<1>5. Number(DataAt(script), 0) = 0
  BY NumberStep
<1>6. Tracks(script, pos, conn.inbound, Len(Received))
  BY <1>1, <1>2, <1>3, <1>5 DEF Tracks
<1>7. Drawn(script, Received)
  BY <1>2 DEF Drawn
<1> QED BY <1>1, <1>3, <1>4, <1>6, <1>7 DEF Inbox, Sticky

\* It holds in every behaviour.
LEMMA AlwaysInbox == Spec => []Inbox
<1>1. Init => Inbox
  BY InitInbox
<1>2. TypeOK /\ TypeOK' /\ Trusted /\ Inbox /\ [Next]_vars => Inbox'
  <2> SUFFICES ASSUME TypeOK, TypeOK', Trusted, Inbox, [Next]_vars PROVE Inbox'
    OBVIOUS
  <2>1. CASE Next
    BY <2>1, NextRuns, NextInbox DEF Trusted
  <2>2. CASE UNCHANGED vars
    BY <2>2 DEF vars, envVars, histVars, Inbox, Received
  <2> QED BY <2>1, <2>2
<1> QED BY <1>1, <1>2, TypeCorrect, AlwaysTrusted, PTL DEF Spec

\* The next handler reads the peer's data in order, without gaps or repetition,
\* whatever the user closes or unwraps from its callbacks (doDecodeData,
\* doFlushReadData, channelRead, handlerRemoved).
THEOREM DataArrivesInOrder == Spec => []DeliveredInOrder
<1>1. TypeOK /\ Inbox => DeliveredInOrder
  <2> SUFFICES ASSUME TypeOK, Inbox, NEW n \in DOMAIN delivered
               PROVE  \E j \in DOMAIN script :
                        /\ IsData(script[j]) /\ delivered[n] = script[j]
                        /\ n = Cardinality({i \in 1..j : IsData(script[i])})
    BY DEF DeliveredInOrder
  <2>1. /\ delivered \in Seq(Record) /\ plaintextReadBuffer \in Seq(Record)
        /\ script \in Seq(Record) /\ n \in 1..Len(delivered) /\ Len(script) \in Nat
    BY DEF TypeOK
  <2>2. Drawn(script, delivered)
    BY <2>1, DrawnPart DEF Inbox, Received
  <2>3. PICK j \in DataAt(script) :
          delivered[n] = script[j] /\ Number(DataAt(script), j) = n
    BY <2>1, <2>2 DEF Drawn
  <2>4. j \in DOMAIN script /\ IsData(script[j])
    BY <2>1, <2>3 DEF DataAt
  <2>5. DataAt(script) \cap 1..j = {i \in 1..j : IsData(script[i])}
    BY <2>1, <2>4 DEF DataAt
  <2> QED BY <2>3, <2>4, <2>5 DEF Number
<1> QED BY <1>1, TypeCorrect, AlwaysInbox, PTL

-----------------------------------------------------------------------------
\* SSL_do_handshake writes nothing when the BIO is closed, and a handshake that
\* cannot go on writes nothing but the first flight, and then waits.
LEMMA DoHandshakeSilent ==
    ASSUME NEW c \in Connection
    PROVE  LET r == DoHandshake(c) IN
           /\ c.bioClosed => r.conn = c
           /\ c.inInit /\ Quiet(c) =>
                \/ r.conn = c /\ r.res # "complete"
                \/ r.res = "incomplete" /\ r.conn.verify = "notStarted"
<1> DEFINE r == DoHandshake(c)
           d == StartHandshake(c)
           x == Rec("hs")
<1>1. c.bioClosed => r.conn = c
  BY DEF DoHandshake, BIOClosed, Result
<1>2. ASSUME c.inInit, Quiet(c), ~(r.conn = c /\ r.res # "complete")
      PROVE  r.res = "incomplete" /\ r.conn.verify = "notStarted"
  <2>1. c.verify = "notStarted" /\ c.inbound = <<>> /\ r = ReadFlight(d)
    BY <1>2 DEF Quiet, DoHandshake, BIOClosed, Result
  <2>2. d \in Connection /\ d.inbound = <<>> /\ d.verify = "notStarted"
    <3>1. x \in Record
      BY RecType DEF Kinds
    <3>2. Send(c, x) \in Connection /\ Send(c, x).inbound = c.inbound
          /\ Send(c, x).verify = c.verify
      BY <3>1, SendType, SendTrust DEF SameHandshake
    <3>3. d \in {[c EXCEPT !.started = TRUE], [Send(c, x) EXCEPT !.started = TRUE]}
      BY DEF StartHandshake
    <3>4. \A y \in Connection : LET z == [y EXCEPT !.started = TRUE] IN
            z \in Connection /\ z.inbound = y.inbound /\ z.verify = y.verify
      BY DEF Connection
    <3> HIDE DEF d, x
    <3> QED BY <2>1, <3>2, <3>3, <3>4
  <2>3. r.res = "incomplete" /\ r.conn = RetryRead(d, TRUE)
    BY <2>1, <2>2 DEF ReadFlight, WantRead, Result
  <2>4. RetryRead(d, TRUE).verify = d.verify
    BY <2>2, RetryReadTrust DEF SameHandshake
  <2> HIDE DEF r, d
  <2> QED BY <2>2, <2>3, <2>4
<1> QED BY <1>1, <1>2

\* SSL_write writes only what it reports as written, apart from the first flight
\* of a handshake, and only to an open stream.
LEMMA EncodeSilent ==
    ASSUME NEW c \in Connection, NEW a \in Action, c.inInit => Quiet(c)
    PROVE  LET w == EncodeSingleWrite(c, a) IN
           \/ w.conn = c
           \/ w.res = "incomplete"
           \/ w.res = "complete" /\ ~c.inInit /\ ~c.bioClosed /\ c.writeShutdown = "none"
<1> DEFINE h == DoHandshake(c)
           w == EncodeSingleWrite(c, a)
           b == BeforeWrite(c)
<1>1. CASE ~c.inInit
  <2>1. h = Result("complete", c)
    BY <1>1 DEF DoHandshake
  <2>2. \/ b.conn = c /\ b.res # "complete"
        \/ b.res = "complete" /\ ~c.bioClosed /\ c.writeShutdown = "none"
    BY <2>1 DEF BeforeWrite, BIOClosed, Result
  <2> HIDE DEF b
  <2> QED BY <1>1, <2>2 DEF EncodeSingleWrite, Result, b
<1>2. CASE c.inInit
  <2>1. \/ h.conn = c /\ h.res # "complete"
        \/ h.res = "incomplete" /\ h.conn.verify = "notStarted"
    BY <1>2, DoHandshakeSilent
  <2> HIDE DEF h
  <2>2. /\ b.res # "complete" /\ b.conn = h.conn
        /\ h.res = "incomplete" /\ h.conn.verify = "notStarted" => b.res = "incomplete"
    BY <2>1 DEF BeforeWrite, Result, h
  <2> HIDE DEF b
  <2> QED BY <2>1, <2>2 DEF EncodeSingleWrite, Result, b
<1> QED BY <1>1, <1>2

\* SSL_shutdown writes nothing when the BIO is closed; when there is nothing
\* left to do it does nothing.
LEMMA DoShutdownSilent ==
    ASSUME NEW c \in Connection
    PROVE  LET r == DoShutdown(c) IN
           /\ c.bioClosed => r.conn.outbound = c.outbound
           /\ CleanEnd(c) => r.res = "complete"
<1> DEFINE r == DoShutdown(c)
<1>1. CleanEnd(c) => r.res = "complete"
  BY DEF CleanEnd, DoShutdown, AwaitCloseNotify, Result
<1>2. ASSUME c.bioClosed PROVE r.conn.outbound = c.outbound
  <2>1. r.conn = c \/ r.conn = [c EXCEPT !.writeShutdown = "closeNotify"]
    BY <1>2 DEF DoShutdown, SendCloseNotify, AwaitCloseNotify, BIOClosed, Result
  <2>2. [c EXCEPT !.writeShutdown = "closeNotify"].outbound = c.outbound
    BY DEF Connection
  <2> HIDE DEF r
  <2> QED BY <2>1, <2>2
<1> QED BY <1>1, <1>2

\* SSL_read writes nothing but an alert, with which it fails.
LEMMA ReadDataSilent ==
    ASSUME NEW c \in Connection
    PROVE  LET r == ReadData(c) IN
           /\ c.bioClosed \/ c.readShutdown = "closeNotify" => r.conn = c
           /\ r.res # "failed" => r.conn.outbound = c.outbound
<1> DEFINE rest == SubSeq(c.inbound, DataPrefix(c.inbound) + 1, Len(c.inbound))
           t == [c EXCEPT !.inbound = rest]
           r == ReadData(c)
           e == Consume(t)
           x == [e EXCEPT !.readShutdown = "closeNotify"]
           k == RetryRead(t, TRUE)
<1>1. c.bioClosed \/ c.readShutdown = "closeNotify" => r.conn = c
  BY DEF ReadData, BIOClosed, Result
<1>2. rest \in Seq(Record)
  <2>1. c.inbound \in Seq(Record) /\ DataPrefix(c.inbound) \in 0..Len(c.inbound)
    BY ConnectionOpsType, DataPrefixType
  <2> QED BY <2>1
<1>3. r.res # "failed" => \/ r.conn = c \/ r.conn = k
                          \/ t.inbound # <<>> /\ r.conn = x
  BY DEF ReadData, BIOClosed, WantRead, Result
<1> HIDE DEF rest, r
<1>4. t \in Connection /\ t.outbound = c.outbound
  BY <1>2 DEF Connection
<1> HIDE DEF t
<1>5. k.outbound = t.outbound
  BY <1>4, RetryReadTrust
<1>6. t.inbound # <<>> => e \in Connection /\ e.outbound = t.outbound
  BY <1>4, ConsumeType, ConsumeTrust
<1> HIDE DEF e, k
<1>7. t.inbound # <<>> => x.outbound = e.outbound
  BY <1>6 DEF Connection
<1> HIDE DEF x
<1>8. r.res # "failed" => r.conn.outbound = c.outbound
  BY <1>3, <1>4, <1>5, <1>6, <1>7
<1> QED BY <1>1, <1>8 DEF r

\* Records are left in the BIO and no call under way, nor the end of the read,
\* will write them.
LeftBehind == /\ conn.outbound # <<>> /\ ~readPending
             /\ "writeDataToNetwork" \notin Pending(stack)

\* What leads to a writeDataToNetwork, or closes the channel.
WillDrain ==
    \/ state = "additionalVerification"
    \/ Pending(stack) \cap {"doHandshakeStep", "handshakeIncomplete", "channelClose",
                            "contextClose"} # {}
    \/ TopOp(stack) = "doUnbufferActions" /\ Top.e
    \/ TopOp(stack) = "doShutdownStep" /\ state \in {"outputClosed", "closing", "unwrapping"}

\* In .idle only the first flight is ever written, and it is sent at once.
HelloFirst == state = "idle" /\ conn.outbound # <<>> => TopOp(stack) = "handshakeIncomplete"

\* An unwrapping that timed out interrupts nothing.
LateAlone == \A f \in Frames(stack) : f.op = "channelUnwrap" /\ f.e => stack = <<f>>

Drains == channel = "active" /\ LeftBehind =>
            ~removed /\ "channelUnwrap" \notin Pending(stack) /\ WillDrain

\* What is left behind is written or given up with the channel, and a removal,
\* after which nothing would write it, neither happened nor is under way.
Draining == fatal = "none" => HelloFirst /\ LateAlone /\ Drains

\* The innermost call decides which action runs.
LEMMA DispatchMore ==
    ASSUME Next
    PROVE  /\ TopOp(stack) = "contextClose" => ContextClose
           /\ TopOp(stack) = "channelClose" => ChannelClose
           /\ TopOp(stack) = "channelUnwrap" => ChannelUnwrap
           /\ TopOp(stack) = "doUnbufferActions" => DoUnbufferActions
           /\ TopOp(stack) = "doShutdownStep" => DoShutdownStep
           /\ TopOp(stack) = "doHandshakeStep" => DoHandshakeStep
           /\ TopOp(stack) = "handshakeIncomplete" => HandshakeIncomplete
           /\ TopOp(stack) = "writeDataToNetwork" => WriteDataToNetwork
<1>1. ASSUME NEW op \in Ops \ {"callout", "netout"}, TopOp(stack) = op
      PROVE  Handler /\ \A o \in Ops : Running(o) => o = op
  <2>1. Running(op)
    BY <1>1, NextRuns DEF TopOp, Top, Running, Ops
  <2> QED BY <2>1, Dispatch
<1>2. /\ (WriteDataToNetwork => Running("writeDataToNetwork"))
      /\ (ContextClose => Running("contextClose"))
      /\ (ContextCloseOutput => Running("contextCloseOutput"))
      /\ (ChannelClose => Running("channelClose"))
      /\ (ChannelCloseOutput => Running("channelCloseOutput"))
      /\ (ChannelUnwrap => Running("channelUnwrap"))
      /\ (RemovalFuture => Running("removalFuture"))
      /\ (BufferWrite => Running("write"))
      /\ (Flush => Running("flush"))
      /\ (Discard => Running("discard"))
      /\ (DoUnbufferActions => Running("doUnbufferActions"))
      /\ (InvokeCloseOutput => Running("invokeCloseOutput"))
      /\ (FailEncoded => Running("failEncoded"))
      /\ (FailCloseOutput => Running("failCloseOutput"))
      /\ (CloseAll => Running("closeAll"))
      /\ (CloseOutput => Running("closeOutput"))
      /\ (StopTLS => Running("stopTLS"))
      /\ (DoShutdownStep => Running("doShutdownStep"))
      /\ (ShutdownIncomplete => Running("shutdownIncomplete"))
      /\ (DoHandshakeStep => Running("doHandshakeStep"))
      /\ (HandshakeIncomplete => Running("handshakeIncomplete"))
      /\ (DoDecodeData => Running("doDecodeData"))
      /\ (AfterZeroReturn => Running("afterZeroReturn"))
      /\ (DoFlushReadData => Running("doFlushReadData"))
  BY Zenon DEF WriteDataToNetwork, ContextClose, ContextCloseOutput, ChannelClose,
       ChannelCloseOutput, ChannelUnwrap, RemovalFuture, BufferWrite, Flush, Discard,
       DoUnbufferActions, InvokeCloseOutput, FailEncoded, FailCloseOutput, CloseAll,
       CloseOutput, StopTLS, DoShutdownStep, ShutdownIncomplete, DoHandshakeStep,
       HandshakeIncomplete, DoDecodeData, AfterZeroReturn, DoFlushReadData
<1>3. TopOp(stack) = "contextClose" => ContextClose
  BY <1>1, <1>2 DEF Handler, Ops
<1>4. TopOp(stack) = "channelClose" => ChannelClose
  BY <1>1, <1>2 DEF Handler, Ops
<1>5. TopOp(stack) = "channelUnwrap" => ChannelUnwrap
  BY <1>1, <1>2 DEF Handler, Ops
<1>6. TopOp(stack) = "doUnbufferActions" => DoUnbufferActions
  BY <1>1, <1>2 DEF Handler, Ops
<1>7. TopOp(stack) = "doShutdownStep" => DoShutdownStep
  BY <1>1, <1>2 DEF Handler, Ops
<1>8. TopOp(stack) = "doHandshakeStep" => DoHandshakeStep
  BY <1>1, <1>2 DEF Handler, Ops
<1>9. TopOp(stack) = "handshakeIncomplete" => HandshakeIncomplete
  BY <1>1, <1>2 DEF Handler, Ops
<1>10. TopOp(stack) = "writeDataToNetwork" => WriteDataToNetwork
  BY <1>1, <1>2 DEF Handler, Ops
<1> QED BY <1>3, <1>4, <1>5, <1>6, <1>7, <1>8, <1>9, <1>10

\* An unwrapping that is pending, and not next, found the streams ended.
LEMMA UnwrapWaits ==
    ASSUME CleanFrames, LateAlone, "channelUnwrap" \in Pending(stack),
           TopOp(stack) # "channelUnwrap"
    PROVE  CleanEnd(conn)
<1>1. PICK f \in Frames(stack) : f.op = "channelUnwrap"
  BY DEF Pending, Frames
<1>2. ~f.e
  <2> SUFFICES ASSUME f.e PROVE FALSE
    OBVIOUS
  <2>1. stack = <<f>>
    BY <1>1 DEF LateAlone
  <2> QED BY <1>1, <2>1 DEF TopOp
<1> QED BY <1>1, <1>2 DEF CleanFrames, UnwrapOps

\* Who calls for an unwrapping.
LEMMA UnwrapCalls ==
    ASSUME TypeOK, Next, fatal' = "none", "channelUnwrap" \in Pending(stack')
    PROVE  \/ "channelUnwrap" \in Pending(stack)
           \/ StopTLS \/ DoShutdownStep \/ TimedOutShutdown
<1>1. PICK f \in Frames(stack') : f.op = "channelUnwrap"
  BY DEF Pending, Frames
<1>2. f \in Frames(stack) => "channelUnwrap" \in Pending(stack)
  BY <1>1 DEF Pending, Frames
<1>3. CASE ChannelUnwrap
  BY <1>3, EndStack DEF Pops
<1> QED BY <1>1, <1>2, <1>3, UnwrapFrames DEF UnwrapOps

\* The loop over the buffered actions: a round that encoded, and what follows
\* the rounds that did.
LEMMA UnbufferDrains ==
    ASSUME TypeOK, DoUnbufferActions, fatal' = "none"
    PROVE  LET w == EncodeSingleWrite(conn, Head(bufferedActions)) IN
           /\ \/ UNCHANGED conn
              \/ /\ marked > 0 /\ Head(bufferedActions) \in Action /\ conn' = w.conn
                 /\ w.res # "incomplete"
                 /\ w.res = "complete" => TopOp(stack') = "doUnbufferActions" /\ Top'.e
           /\ Top.e => \/ Pending(stack') \cap {"writeDataToNetwork", "channelClose"} # {}
                       \/ TopOp(stack') = "doUnbufferActions" /\ Top'.e
<1> DEFINE a == Head(bufferedActions)
           w == EncodeSingleWrite(conn, a)
           g == [Top EXCEPT !.p = @ \cup a.p, !.e = TRUE]
           n == Call("writeDataToNetwork", Top.p)
           i == Run("invokeCloseOutput")
           c == <<Run("channelClose"), Call("failEncoded", Top.p), Run("failCloseOutput"),
                  Run("discard")>>
<1>1. marked > 0 => a \in Action
  <2>1. bufferedActions \in Seq(Action) /\ marked \in 0..Len(bufferedActions)
    BY DEF TypeOK
  <2>2. marked > 0 => bufferedActions # <<>>
    BY <2>1
  <2> QED BY <2>1, <2>2
<1>2. Top \in Frame /\ Top.op = "doUnbufferActions" /\ Rest \in Seq(Frame)
  BY UnbufferStack, TopType DEF DoUnbufferActions, Running, Pops, TypeOK
<1>3. g.op = "doUnbufferActions" /\ g.e
  BY <1>2 DEF Frame
<1>4. Goto(<<g>>) => TopOp(stack') = "doUnbufferActions" /\ Top'.e
  <2> HIDE DEF g
  <2>1. stack' = <<g>> \o Rest => stack' # <<>> /\ Head(stack') = g
    BY <1>2
  <2> QED BY <1>3, <2>1 DEF Goto, TopOp, Top
<1> HIDE DEF g
<1>5. \/ marked = 0 /\ UNCHANGED conn /\ Goto(AfterLoop(FALSE))
      \/ marked > 0 /\ UNCHANGED conn /\ Goto(AfterLoop(TRUE))
      \/ marked > 0 /\ conn' = w.conn /\ w.res = "complete" /\ Goto(<<g>>)
      \/ marked > 0 /\ conn' = w.conn /\ w.res = "failed" /\ Goto(c)
  BY DEF DoUnbufferActions, Crash, g
<1>8. Goto(c) => "channelClose" \in Pending(stack')
  <2>1. stack \in Seq(Frame) /\ Running("doUnbufferActions")
    BY DEF TypeOK, DoUnbufferActions
  <2>2. Run("channelClose").op = "channelClose"
    BY CallOps
  <2>3. Goto(c) => Run("channelClose").op \in Pending(stack')
    BY <2>1, GotoFour DEF Goes
  <2> QED BY <2>2, <2>3
<1>6. Top.e /\ (Goto(AfterLoop(FALSE)) \/ Goto(AfterLoop(TRUE)))
        => "writeDataToNetwork" \in Pending(stack')
  <2> SUFFICES ASSUME Top.e PROVE Goto(AfterLoop(FALSE)) \/ Goto(AfterLoop(TRUE))
                                    => "writeDataToNetwork" \in Pending(stack')
    OBVIOUS
  <2>1. n \in Frame /\ n.op = "writeDataToNetwork" /\ i \in Frame
    <3>1. Top.p \in SUBSET Promises
      BY <1>2 DEF Frame
    <3>2. "writeDataToNetwork" \in Ops /\ "invokeCloseOutput" \in Ops
      BY DEF Ops
    <3> QED BY <3>1, <3>2, CallType, CallOps
  <2>2. \A b \in BOOLEAN : AfterLoop(b) = <<n>> \o (IF b THEN <<i>> ELSE <<>>)
    BY DEF AfterLoop
  <2> HIDE DEF n, i
  <2>3. ASSUME NEW t \in Seq(Frame), stack' = (<<n>> \o t) \o Rest
        PROVE  1 \in 1..Len(stack') /\ stack'[1] = n
    <3>1. /\ <<n>> \o t \in Seq(Frame) /\ Len(<<n>> \o t) = 1 + Len(t) /\ Len(t) \in Nat
          /\ (<<n>> \o t)[1] = n
      BY <2>1
    <3> DEFINE x == <<n>> \o t
    <3> HIDE DEF x
    <3>2. /\ stack' = x \o Rest /\ x \in Seq(Frame) /\ x[1] = n
          /\ Len(x) \in Nat /\ Len(x) >= 1 /\ Len(Rest) \in Nat
      BY <1>2, <2>3, <3>1 DEF x
    <3> QED BY <1>2, <3>2
  <2>4. \A b \in BOOLEAN : (IF b THEN <<i>> ELSE <<>>) \in Seq(Frame)
    BY <2>1
  <2>5. \A b \in BOOLEAN : Goto(AfterLoop(b)) => 1 \in 1..Len(stack') /\ stack'[1] = n
    BY <2>2, <2>3, <2>4 DEF Goto
  <2> QED BY <2>1, <2>5 DEF Pending
<1> HIDE DEF w
<1>7. /\ \/ UNCHANGED conn
         \/ /\ marked > 0 /\ a \in Action /\ conn' = w.conn
            /\ w.res # "incomplete"
            /\ w.res = "complete" => TopOp(stack') = "doUnbufferActions" /\ Top'.e
      /\ Top.e => \/ Pending(stack') \cap {"writeDataToNetwork", "channelClose"} # {}
                  \/ TopOp(stack') = "doUnbufferActions" /\ Top'.e
  BY <1>1, <1>4, <1>5, <1>6, <1>8
<1> QED BY <1>7 DEF w

\* What changes the records in the BIO.
LEMMA OutboundSteps ==
    ASSUME TypeOK, Next
    PROVE  /\ \/ conn'.outbound = conn.outbound
              \/ WriteDataToNetwork /\ conn'.outbound = <<>>
              \/ DoUnbufferActions \/ DoShutdownStep \/ DoHandshakeStep \/ DoDecodeData
           /\ channel' = "active" => channel = "active" \/ ChannelActive
           /\ ~readPending' => ~readPending \/ ChannelReadComplete
<1>1. conn \in Connection
  BY DEF TypeOK
<1>2. /\ GetDataForNetwork(conn).outbound = <<>>
      /\ ExtractUnconsumedData(conn).outbound = conn.outbound
      /\ CloseConnection(conn).outbound = conn.outbound
      /\ \A r : SetVerification(conn, r).outbound = conn.outbound
      /\ \A recs : ConsumeDataFromNetwork(conn, recs).outbound = conn.outbound
  BY <1>1 DEF Connection, GetDataForNetwork, ExtractUnconsumedData, CloseConnection,
     SetVerification, ConsumeDataFromNetwork
<1>3. WriteDataToNetwork => conn'.outbound = conn.outbound \/ conn'.outbound = <<>>
  BY <1>2 DEF WriteDataToNetwork
<1>4. ChannelUnwrap \/ RemovalFuture \/ HandlerRemoved \/ ChannelRead \/ ResumeHandshake
        => conn'.outbound = conn.outbound
  BY <1>2 DEF ChannelUnwrap, RemovalFuture, HandlerRemoved, ChannelRead, ResumeHandshake
<1>5. channel' = "active" => channel = "active" \/ ChannelActive
  BY DEF Next, Handler, Channel, User, chanVars, Return, WriteDataToNetwork,
     ContextClose, ContextCloseOutput, ChannelClose, ChannelCloseOutput, ChannelUnwrap,
     RemovalFuture, BufferWrite, Flush, Discard, DoUnbufferActions, InvokeCloseOutput,
     FailEncoded, FailCloseOutput, CloseAll, CloseOutput, StopTLS, DoShutdownStep,
     ShutdownIncomplete, DoHandshakeStep, HandshakeIncomplete, DoDecodeData, AfterZeroReturn,
     DoFlushReadData, ConnectFails, ChannelInactive, HandlerRemoved, ChannelRead,
     ChannelReadComplete, InputClosedTriggered, ChannelFulfills, UserCalls, UserFlushes,
     CompletedAdditionalPeerCertificateVerification, ResumeHandshake, TimedOutShutdown
<1>6. ~readPending' => ~readPending \/ ChannelReadComplete
  BY DEF Next, Handler, Channel, User, envVars, Return, WriteDataToNetwork,
     ContextClose, ContextCloseOutput, ChannelClose, ChannelCloseOutput, ChannelUnwrap,
     RemovalFuture, BufferWrite, Flush, Discard, DoUnbufferActions, InvokeCloseOutput,
     FailEncoded, FailCloseOutput, CloseAll, CloseOutput, StopTLS, DoShutdownStep,
     ShutdownIncomplete, DoHandshakeStep, HandshakeIncomplete, DoDecodeData, AfterZeroReturn,
     DoFlushReadData, ChannelActive, ConnectFails, ChannelInactive, HandlerRemoved, ChannelRead,
     InputClosedTriggered, ChannelFulfills, UserCalls, UserFlushes,
     CompletedAdditionalPeerCertificateVerification, ResumeHandshake, TimedOutShutdown
<1> QED BY <1>3, <1>4, <1>5, <1>6, ConnSteps

\* Only the first flight of a client is written in .idle.
LEMMA NextHelloFirst ==
    ASSUME TypeOK, TrustInv, Fresh, Early, HelloFirst, Next, fatal' = "none"
    PROVE  HelloFirst'
<1> SUFFICES ASSUME state' = "idle", conn'.outbound # <<>>
             PROVE  TopOp(stack') = "handshakeIncomplete"
  BY DEF HelloFirst
<1>1. state = "idle"
  BY NeverIdleAgain
<1>2. conn \in Connection /\ conn.inInit /\ conn.verify = "notStarted" /\ conn.inbound = <<>>
      /\ Quiet(conn)
  BY <1>1 DEF TypeOK, Fresh, Quiet
<1>3. CASE conn'.outbound = conn.outbound
  <2>1. HandshakeIncomplete
    BY <1>1, <1>3, DispatchMore DEF HelloFirst
  <2> QED BY <2>1 DEF HandshakeIncomplete, Enter
<1>4. CASE DoHandshakeStep
  <2>1. \/ conn' = conn
        \/ DoHandshake(conn).res = "incomplete"
    BY <1>2, <1>4, HandshakeStack, DoHandshakeSilent
  <2> QED BY <1>3, <1>4, <2>1, HandshakeStack DEF Goes
<1>5. CASE DoShutdownStep
  BY <1>1, <1>5 DEF DoShutdownStep, Crash, Fatals
<1>6. CASE DoDecodeData
  BY <1>1, <1>6, ReadStack DEF Pops, Early, EarlyStates, LateOps
<1>7. CASE DoUnbufferActions
  <2>1. conn' = conn
    BY <1>2, <1>7, UnbufferDrains, EncodeSilent
  <2> QED BY <1>3, <2>1
<1> QED BY <1>3, <1>4, <1>5, <1>6, <1>7, OutboundSteps

\* Only the timeout calls for an unwrapping that reports an error, and it finds
\* no call under way.
LEMMA NextLateAlone ==
    ASSUME TypeOK, LateAlone, Next, fatal' = "none"
    PROVE  LateAlone'
<1> SUFFICES ASSUME NEW f \in Frames(stack'), f.op = "channelUnwrap", f.e
             PROVE  stack' = <<f>>
  BY DEF LateAlone
<1>1. stack \in Seq(Frame)
  BY DEF TypeOK
<1>2. ASSUME f \in Frames(stack) PROVE FALSE
  <2>1. stack = <<f>>
    BY <1>2 DEF LateAlone
  <2>2. TopOp(stack) = "channelUnwrap" /\ Rest = <<>>
    BY <2>1 DEF TopOp, Rest
  <2>3. ChannelUnwrap
    BY <2>2, DispatchMore
  <2>4. f.op \in {"discard", "removalFuture"} \/ f \in Frames(Rest)
    BY <2>3, EndStack DEF Goes
  <2> QED BY <2>2, <2>4 DEF Frames
<1>3. CASE ChannelUnwrap
  BY <1>2, <1>3, EndStack DEF Goes, Pops
<1>4. CASE TimedOutShutdown
  <2>1. \/ UNCHANGED stack \/ stack' = <<Run("channelClose")>> \/ stack' = <<TimedOutUnwrap>>
    BY <1>4 DEF TimedOutShutdown
  <2>2. stack' = <<Run("channelClose")>> \/ stack' = <<TimedOutUnwrap>> => stack' = <<f>>
    BY DEF Frames
  <2> QED BY <1>2, <2>1, <2>2
<1> DEFINE S == {g \in Frame : ~g.e}
<1>5. \A op \in Ops : Run(op) \in S
  <2>1. \A op \in Ops : Run(op) \in Frame /\ ~Run(op).e
    BY RunType DEF Run, Call
  <2> QED BY <2>1
<1>6. CASE StopTLS
  <2>1. stack # <<>> /\ (Goto(<<>>) \/ Goto(<<Run("channelUnwrap")>>)
                         \/ Goto(<<Run("doShutdownStep")>>) \/ Goto(<<Run("callout")>>))
    BY <1>6 DEF StopTLS, Running, Callout
  <2>2. Puts(S)
    <3>1. {"channelUnwrap", "doShutdownStep", "callout"} \subseteq Ops
      BY DEF Ops
    <3> HIDE DEF S
    <3> QED BY <1>1, <1>5, <2>1, <3>1, GotoPuts
  <2> QED BY <1>2, <2>2 DEF Puts
<1>7. CASE DoShutdownStep
  <2>1. \/ \A g \in Frames(stack') : g.op = "channelUnwrap" => g \in Frames(stack)
        \/ stack # <<>> /\ Goto(<<Run("writeDataToNetwork"), Run("callout"), Run(ShutdownEnd)>>)
           /\ ShutdownEnd \in Ops
    <3>1. ShutdownEnd \in {"channelCloseOutput", "channelClose", "channelUnwrap"}
          \/ state \notin {"outputClosed", "closing", "unwrapping"}
      BY DEF ShutdownEnd, TargetComplete
    <3>2. \/ state \in {"outputClosed", "closing", "unwrapping"} /\ stack # <<>>
             /\ Goto(<<Run("writeDataToNetwork"), Callout, Run(ShutdownEnd)>>)
          \/ DoShutdown(conn).res # "complete" \/ state = "closed"
      BY <1>7 DEF DoShutdownStep, Running, Crash, Fatals
    <3>3. DoShutdown(conn).res # "complete" \/ state = "closed" =>
            \A g \in Frames(stack') : g.op = "channelUnwrap" => g \in Frames(stack)
      BY <1>7, ShutdownStack DEF Goes, Drops, Pops
    <3> QED BY <3>1, <3>2, <3>3 DEF Callout, Ops
  <2>2. stack # <<>> /\ Goto(<<Run("writeDataToNetwork"), Run("callout"), Run(ShutdownEnd)>>)
           /\ ShutdownEnd \in Ops => Puts(S)
    <3>1. {"writeDataToNetwork", "callout"} \subseteq Ops
      BY DEF Ops
    <3> HIDE DEF S
    <3> QED BY <1>1, <1>5, <3>1, GotoPuts
  <2> QED BY <1>2, <2>1, <2>2 DEF Puts
<1> QED BY <1>2, <1>3, <1>4, <1>6, <1>7, UnwrapFrames DEF UnwrapOps

\* A step of the connection that may write: it is followed by a
\* writeDataToNetwork, or by a closing of the channel, or it only waits for the
\* verification.
LEMMA OpsDrain ==
    ASSUME TypeOK, TrustInv, CleanFrames, Early, LateAlone, Drains, removed => conn.bioClosed,
           Next, fatal' = "none", channel' = "active", LeftBehind',
           DoUnbufferActions \/ DoShutdownStep \/ DoHandshakeStep \/ DoDecodeData
    PROVE  ~removed' /\ "channelUnwrap" \notin Pending(stack') /\ WillDrain'
<1>1. conn \in Connection /\ UNCHANGED <<removed, channel, readPending>> /\ channel = "active"
  BY DEF TypeOK, DoUnbufferActions, DoShutdownStep, DoHandshakeStep, DoDecodeData, chanVars,
     envVars
<1>2. conn'.outbound # <<>> /\ ~readPending /\ "writeDataToNetwork" \notin Pending(stack')
  BY <1>1 DEF LeftBehind
<1>3. TopOp(stack) \in {"doUnbufferActions", "doShutdownStep", "doHandshakeStep", "doDecodeData"}
  BY UnbufferStack, ShutdownStack, HandshakeStack, ReadStack DEF Pops
<1>4. ASSUME conn'.outbound = conn.outbound
      PROVE  ~removed /\ "channelUnwrap" \notin Pending(stack) /\ WillDrain
  <2>1. LeftBehind
    BY <1>2, <1>3, <1>4, NextPending DEF LeftBehind
  <2> QED BY <1>1, <2>1 DEF Drains
<1>5. "channelUnwrap" \in Pending(stack) => CleanEnd(conn)
  BY <1>3, UnwrapWaits
<1>6. \A o \in {"doHandshakeStep", "handshakeIncomplete", "channelClose", "contextClose"} :
        o \in Pending(stack') => WillDrain'
  BY DEF WillDrain
<1>7. CASE DoHandshakeStep
  <2> DEFINE r == DoHandshake(conn)
  <2>1. Pops("doHandshakeStep") /\ conn' = r.conn /\ Pending(Rest) = {}
    BY <1>7, HandshakeStack, PendingEmpty DEF Pops, TrustInv, StackAgrees, HandshakeOps
  <2>2. "channelUnwrap" \notin Pending(stack') /\ WillDrain'
    BY <1>2, <1>6, <1>7, <2>1, HandshakeStack DEF Goes, Enter, WillDrain
  <2>3. ~removed
    BY <1>1, <1>4, <2>1, DoHandshakeSilent
  <2> QED BY <1>1, <2>2, <2>3
<1>8. CASE DoShutdownStep
  <2> DEFINE r == DoShutdown(conn)
  <2>1. Pops("doShutdownStep")
    BY <1>8, ShutdownStack
  <2>2. CASE state = "closed" /\ Drops /\ UNCHANGED <<state, conn>>
    <3>1. ~removed /\ "channelUnwrap" \notin Pending(stack) /\ WillDrain
      BY <1>4, <2>2
    <3>2. Pending(stack) \cap {"doHandshakeStep", "handshakeIncomplete", "channelClose",
                               "contextClose"} # {}
      BY <2>1, <2>2, <3>1 DEF WillDrain, Pops
    <3> QED BY <1>1, <1>6, <2>1, <2>2, <3>1, <3>2 DEF Pops, Drops, Goes
  <2>3. CASE /\ conn' = r.conn /\ r.res = "failed"
             /\ Goes({"callout", "channelClose"}, "callout")
    <3>1. ~removed
      BY <1>1, <1>4, <2>3, DoShutdownSilent
    <3>2. "channelUnwrap" \notin Pending(stack)
      BY <1>1, <1>5, <2>3, DoShutdownSilent
    <3> QED BY <1>1, <1>6, <2>1, <2>3, <3>1, <3>2 DEF Pops, Goes
  <2> QED BY <1>2, <1>8, <2>2, <2>3, ShutdownStack DEF Goes, Fatals
<1>9. CASE DoDecodeData
  <2> DEFINE r == ReadData(conn)
  <2>1. Pops("doDecodeData") /\ conn' = r.conn
    BY <1>9, ReadStack
  <2>2. ~conn.inInit /\ state \notin EarlyStates
    BY <2>1 DEF Pops, TrustInv, StackAgrees, Early, LateOps
  <2>3. CASE r.res # "failed"
    <3>1. ~removed /\ "channelUnwrap" \notin Pending(stack) /\ WillDrain
      BY <1>1, <1>4, <2>1, <2>3, ReadDataSilent
    <3>2. PICK o \in {"doHandshakeStep", "handshakeIncomplete", "channelClose", "contextClose"} :
            o \in Pending(stack)
      BY <2>1, <2>2, <3>1 DEF WillDrain, Pops, EarlyStates
    <3>3. o \in Pending(stack')
      BY <2>1, <3>2, NextPending DEF Pops
    <3>4. "channelUnwrap" \notin Pending(stack')
      BY <1>9, <2>1, <2>3, <3>1, ReadStack DEF Pops, Drops, Goes
    <3> QED BY <1>1, <1>6, <3>1, <3>2, <3>3, <3>4
  <2>4. CASE r.res = "failed"
    <3>1. Goes({"callout", "channelClose"}, "callout")
      BY <1>9, <2>4, ReadStack
    <3>2. ~removed
      BY <1>1, <1>4, <2>1, ReadDataSilent
    <3>3. "channelUnwrap" \notin Pending(stack)
      BY <1>1, <1>4, <1>5, <2>1, <2>2, ReadDataSilent DEF CleanEnd
    <3> QED BY <1>1, <1>6, <2>1, <3>1, <3>2, <3>3 DEF Pops, Goes
  <2> QED BY <2>3, <2>4
<1>10. CASE DoUnbufferActions
  <2> DEFINE w == EncodeSingleWrite(conn, Head(bufferedActions))
  <2>1. Pops("doUnbufferActions") /\ UNCHANGED state
    BY <1>10, UnbufferStack DEF DoUnbufferActions
  <2>2. conn.inInit => Quiet(conn)
    BY <2>1 DEF Pops, TrustInv, Waits
  <2>3. "channelUnwrap" \in Pending(stack') => "channelUnwrap" \in Pending(stack)
    BY <1>10, UnwrapCalls, <2>1 DEF Pops, StopTLS, DoShutdownStep, TimedOutShutdown, Idle,
       Running, TopOp, Top
  <2>4. CASE conn' = conn
    <3>1. ~removed /\ "channelUnwrap" \notin Pending(stack) /\ WillDrain
      BY <1>4, <2>4
    <3>2. ASSUME state = "additionalVerification" PROVE WillDrain'
      BY <2>1, <3>2 DEF WillDrain
    <3>3. ASSUME Top.e PROVE WillDrain'
      BY <1>2, <1>6, <1>10, <3>3, UnbufferDrains DEF WillDrain
    <3>4. ASSUME NEW o \in {"doHandshakeStep", "handshakeIncomplete", "channelClose",
                            "contextClose"}, o \in Pending(stack)
          PROVE  WillDrain'
      BY <1>6, <2>1, <3>4, NextPending DEF Pops
    <3>5. WillDrain'
      BY <2>1, <3>1, <3>2, <3>3, <3>4 DEF WillDrain, Pops
    <3> QED BY <1>1, <2>3, <3>1, <3>5
  <2>5. CASE conn' # conn
    <3>1. /\ TopOp(stack') = "doUnbufferActions" /\ Top'.e
          /\ ~conn.inInit /\ ~conn.bioClosed /\ conn.writeShutdown = "none"
      BY <1>1, <1>10, <2>2, <2>5, UnbufferDrains, EncodeSilent
    <3>2. ~removed /\ "channelUnwrap" \notin Pending(stack)
      BY <1>5, <3>1 DEF CleanEnd
    <3> QED BY <1>1, <2>3, <3>1, <3>2 DEF WillDrain
  <2> QED BY <2>4, <2>5
<1> QED BY <1>7, <1>8, <1>9, <1>10

\* Every other step: nothing is added to the BIO, and what will drain it is kept.
LEMMA OthersDrain ==
    ASSUME TypeOK, TrustInv, Early, HelloFirst, Drains, Next, fatal' = "none",
           channel' = "active", LeftBehind',
           ~DoUnbufferActions, ~DoShutdownStep, ~DoHandshakeStep, ~DoDecodeData
    PROVE  ~removed' /\ "channelUnwrap" \notin Pending(stack') /\ WillDrain'
<1> USE DEF Enter, EnterTimed, CancelAndEnter
<1>1. CASE ChannelActive
  BY <1>1, ChannelStack DEF ChannelActive, Starts, WillDrain
<1>2. CASE ~ChannelActive
  <2>1. conn'.outbound = conn.outbound /\ channel = "active" /\ conn.outbound # <<>>
    BY <1>2, OutboundSteps DEF LeftBehind
  <2>2. ~readPending
    BY OutboundSteps, ChannelStack DEF LeftBehind, Starts
  <2>3. "writeDataToNetwork" \notin Pending(stack)
    <3>1. TopOp(stack) # "writeDataToNetwork"
      <4> SUFFICES ASSUME WriteDataToNetwork PROVE FALSE
        BY DispatchMore
      <4>1. conn \in Connection /\ GetDataForNetwork(conn).outbound = <<>>
        BY DEF TypeOK, Connection, GetDataForNetwork
      <4> QED BY <2>1, <4>1 DEF WriteDataToNetwork
    <3> QED BY <3>1, NextPending DEF LeftBehind
  <2>4. ~removed /\ "channelUnwrap" \notin Pending(stack) /\ WillDrain
    BY <2>1, <2>2, <2>3 DEF Drains, LeftBehind
  <2>5. ~ChannelUnwrap
    BY <2>4, EndStack DEF Pops
  <2>6. ~removed'
    BY <2>1, <2>4, <2>5, ReadSteps DEF HandlerRemoved
  <2>7. ~TimedOutShutdown \/ stack' = stack
    <3> SUFFICES ASSUME TimedOutShutdown PROVE stack' = stack
      OBVIOUS
    <3>1. Pending(stack) = {} /\ TopOp(stack) = "none"
      BY UserStack, PendingEmpty DEF TimedOutShutdown, Idle
    <3>2. state = "additionalVerification"
      BY <2>4, <3>1 DEF WillDrain
    <3> QED BY <3>2 DEF TimedOutShutdown
  <2>8. "channelUnwrap" \notin Pending(stack')
    <3>1. CASE StopTLS
      <4>1. Pops("stopTLS") /\ state # "idle"
        BY <2>1, <3>1, CloseStack DEF HelloFirst, Pops
      <4> QED BY <2>4, <3>1, <4>1, CloseStack DEF Pops, Drops, Goes
    <3> QED BY <2>4, <2>7, <3>1, UnwrapCalls
  <2>9. ASSUME NEW o \in {"doHandshakeStep", "handshakeIncomplete", "channelClose",
                          "contextClose"}, o \in Pending(stack)
        PROVE  WillDrain'
    <3>1. CASE o \in Pending(stack')
      BY <3>1 DEF WillDrain
    <3>2. CASE TopOp(stack) = "handshakeIncomplete"
      <4>1. "writeDataToNetwork" \in Pending(stack')
        BY <3>2, DispatchMore, ReadStack DEF Goes
      <4> QED BY <4>1 DEF LeftBehind
    <3>3. CASE TopOp(stack) = "channelClose"
      <4>1. "contextClose" \in Pending(stack')
        BY <3>3, DispatchMore, EndStack DEF Goes
      <4> QED BY <4>1 DEF WillDrain
    <3>4. CASE TopOp(stack) = "contextClose"
      BY <2>1, <2>4, <3>4, DispatchMore DEF ContextClose
    <3>5. TopOp(stack) # "doHandshakeStep"
      BY DispatchMore
    <3> QED BY <2>9, <3>1, <3>2, <3>3, <3>4, <3>5, NextPending
  <2>10. ASSUME state = "additionalVerification" PROVE WillDrain'
    <3>1. CASE UNCHANGED state
      BY <2>10, <3>1 DEF WillDrain
    <3>2. CASE ChannelClose
      BY <3>2, EndStack DEF Goes, WillDrain
    <3>3. CASE InvokeCloseOutput
      BY <3>3, BufferStack DEF Goes, WillDrain, InvokeCloseOutput
    <3>4. CASE CloseAll
      BY <2>10, <3>4, CloseStack DEF Goes, WillDrain
    <3>5. CASE CloseOutput
      BY <2>10, <3>1, <3>5, CloseStack
    <3>6. CASE StopTLS
      BY <2>4, <2>10, <3>1, <3>6, CloseStack DEF Goes, WillDrain
    <3>7. CASE ShutdownIncomplete \/ AfterZeroReturn
      BY <2>10, <3>7, ReadStack DEF Pops, Early, EarlyStates, LateOps
    <3>8. CASE HandshakeIncomplete
      <4>1. "writeDataToNetwork" \in Pending(stack')
        BY <3>8, ReadStack DEF Goes
      <4> QED BY <4>1 DEF LeftBehind
    <3>9. CASE ChannelInactive
      BY <3>9 DEF ChannelInactive
    <3>10. CASE CompletedAdditionalPeerCertificateVerification
      BY <3>1, <3>10, UserStack DEF Pushes, LeftBehind, Fatals
    <3>11. CASE TimedOutShutdown
      BY <2>10, <3>11 DEF TimedOutShutdown
    <3> QED BY <2>5, <3>1, <3>2, <3>3, <3>4, <3>5, <3>6, <3>7, <3>8, <3>9, <3>10, <3>11,
               StateSteps
  <2>11. WillDrain'
    BY <2>4, <2>9, <2>10, DispatchMore DEF WillDrain
  <2> QED BY <2>6, <2>8, <2>11
<1> QED BY <1>1, <1>2

\* Every action keeps Draining.
LEMMA NextDraining ==
    ASSUME TypeOK, TrustInv, Clean, Flushed, Inbox, Draining, Next
    PROVE  Draining'
<1> SUFFICES ASSUME fatal' = "none" PROVE HelloFirst' /\ LateAlone' /\ Drains'
  BY DEF Draining
<1>1. /\ HelloFirst /\ LateAlone /\ Drains /\ Fresh /\ CleanFrames /\ Early
      /\ removed => conn.bioClosed
  BY NextRuns DEF Draining, Clean, Flushed, Inbox
<1>2. HelloFirst' /\ LateAlone'
  BY <1>1, NextHelloFirst, NextLateAlone
<1>3. Drains'
  BY <1>1, OpsDrain, OthersDrain DEF Drains
<1> QED BY <1>2, <1>3

\* Between reads no ciphertext is left behind in the BIO of an active channel:
\* each operation on the connection is followed by a writeDataToNetwork or by
\* the closing of the channel, whatever its call-outs run in between
\* (doHandshakeStep, doShutdownStep, doDecodeData, doUnbufferActions).
THEOREM CiphertextLeaves == Spec => []OutboundDrains
<1>1. Init => Draining
  <2> SUFFICES ASSUME Init PROVE Draining
    OBVIOUS
  <2>1. conn.outbound = <<>> /\ (stack = <<>> \/ stack = <<Run("doHandshakeStep")>>)
    BY DEF Init, NewConnection
  <2>2. \A f \in Frames(stack) : f.op = "doHandshakeStep"
    BY <2>1, CallOps DEF Frames
  <2> QED BY <2>1, <2>2 DEF Draining, HelloFirst, LateAlone, Drains, LeftBehind
<1>2. TypeOK /\ Trusted /\ Clean /\ Flushed /\ Inbox /\ Draining /\ [Next]_vars => Draining'
  <2> SUFFICES ASSUME TypeOK, Trusted, Clean, Flushed, Inbox, Draining, [Next]_vars
               PROVE  Draining'
    OBVIOUS
  <2>1. CASE Next
    BY <2>1, NextRuns, NextDraining DEF Trusted
  <2>2. CASE UNCHANGED vars
    BY <2>2 DEF vars, chanVars, envVars, Draining, HelloFirst, LateAlone, Drains, LeftBehind,
       WillDrain, Top
  <2> QED BY <2>1, <2>2
<1>3. Draining => OutboundDrains
  <2> SUFFICES ASSUME Draining, Idle, ~readPending, channel = "active",
                      state # "additionalVerification", conn.outbound # <<>>
               PROVE  FALSE
    BY DEF OutboundDrains
  <2>1. Pending(stack) = {} /\ TopOp(stack) = "none"
    BY PendingEmpty DEF Idle
  <2> QED BY <2>1 DEF Draining, Drains, LeftBehind, WillDrain, Idle
<1> QED BY <1>1, <1>2, <1>3, TypeCorrect, AlwaysTrusted, AlwaysClean, AlwaysFlushed, AlwaysInbox,
           PTL DEF Spec
=============================================================================
