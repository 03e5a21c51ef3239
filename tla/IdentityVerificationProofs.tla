--------------------- MODULE IdentityVerificationProofs ---------------------
(***************************************************************************)
(* The loop of validIdentityForService decides by all the names of a       *)
(* certificate, for every certificate and every way of matching a name;    *)
(* and a name matches exactly what it stands for, for all names of any     *)
(* length.                                                                 *)
(***************************************************************************)
EXTENDS IdentityVerification, WellFoundedInduction, SequenceTheorems, TLAPS

-----------------------------------------------------------------------------
(***************************************************************************)
(* The loop.                                                               *)
(***************************************************************************)
\* None of the names the loop has passed has matched.
Passed == verdict = "none" => \A i \in 1..(next - 1) : ~MatchesName(input, input.sans[i])

IInv == input \in Inputs /\ TypeOK /\ Passed /\ Decision

LEMMA SansAreASequence ==
    ASSUME NEW i \in Inputs
    PROVE  i.sans \in Seq(SubjectAlternativeName) /\ Len(i.sans) \in Nat
<1>1. i.sans \in Seq(SubjectAlternativeName)
  BY InputsAssumption
<1> QED
  BY <1>1

LEMMA InitIInv == Init => IInv
<1> SUFFICES ASSUME Init PROVE IInv
  OBVIOUS
<1>1. Len(input.sans) \in Nat
  BY SansAreASequence DEF Init
<1> QED
  BY <1>1 DEF Init, IInv, TypeOK, Passed, Decision

LEMMA NextIInv == IInv /\ [Next]_vars => IInv'
<1> SUFFICES ASSUME IInv, [Next]_vars PROVE IInv'
  OBVIOUS
<1> USE DEF IInv
<1>0. input.sans \in Seq(SubjectAlternativeName) /\ Len(input.sans) \in Nat
  BY SansAreASequence
<1>1. CASE serverHostnameImpossibleToMatch
  BY <1>0, <1>1 DEF serverHostnameImpossibleToMatch, TypeOK, Passed, Decision
<1>2. CASE CheckName
  <2> DEFINE matches(i) == MatchesName(input, input.sans[i])
  <2>1. /\ verdict = "none" /\ next \in 1..Len(input.sans) /\ next' = next + 1
        /\ input' = input /\ verdict' = IF matches(next) THEN "valid" ELSE "none"
    BY <1>0, <1>2 DEF CheckName, Checks, TypeOK
  <2>2. \A i \in 1..(next - 1) : ~matches(i)
    BY <2>1 DEF Passed
  <2>3. TypeOK'
    BY <1>0, <2>1 DEF TypeOK
  <2>4. Passed'
    <3> SUFFICES ASSUME verdict' = "none", NEW i \in 1..next PROVE ~matches(i)
      BY <2>1 DEF Passed
    <3>1. ~matches(next)
      BY <2>1
    <3>2. i = next \/ i \in 1..(next - 1)
      BY <1>0, <2>1
    <3> QED
      BY <2>2, <3>1, <3>2
  <2>5. Decision'
    BY <2>1 DEF Decision, SomeNameMatches
  <2> QED
    BY <2>1, <2>3, <2>4, <2>5
<1>3. CASE CheckCommonName
  <2> DEFINE matches(i) == MatchesName(input, input.sans[i])
  <2>1. /\ verdict = "none" /\ next = Len(input.sans) + 1 /\ next' = next /\ input' = input
        /\ verdict' = AfterNames
    BY <1>3 DEF CheckCommonName, Checks
  <2>2. \A i \in 1..Len(input.sans) : ~matches(i)
    <3>1. \A i \in 1..(next - 1) : ~matches(i)
      BY <2>1 DEF Passed
    <3>2. next - 1 = Len(input.sans)
      BY <1>0, <2>1
    <3> QED
      BY <3>1, <3>2
  <2>3. TypeOK'
    BY <1>0, <2>1 DEF TypeOK, AfterNames
  <2>4. Passed'
    BY <2>1 DEF Passed, AfterNames
  <2>5. Decision'
    <3>1. /\ ~SomeNameMatches /\ SomeNameMatches' = SomeNameMatches
          /\ NoCheckableName' = NoCheckableName
          /\ MatchesCommonName(input)' = MatchesCommonName(input)
      BY <2>1, <2>2 DEF SomeNameMatches, NoCheckableName
    <3>2. input.sans = <<>> => NoCheckableName
      BY DEF NoCheckableName
    <3> QED
      BY <2>1, <3>1, <3>2 DEF Decision, AfterNames
  <2> QED
    BY <2>1, <2>3, <2>4, <2>5
<1>4. CASE UNCHANGED vars
  BY <1>4 DEF vars, TypeOK, Passed, Decision, SomeNameMatches, NoCheckableName
<1> QED
  BY <1>1, <1>2, <1>3, <1>4 DEF Next

(***************************************************************************)
(* For every certificate, hostname and address: the verdict takes every    *)
(* alternative name into account, and the common name never beside a host  *)
(* name or an address (validIdentityForService).                           *)
(***************************************************************************)
THEOREM DecisionIsByAllNames == Spec => []Decision
<1>1. IInv => Decision
  BY DEF IInv
<1> QED
  BY <1>1, InitIInv, NextIInv, PTL DEF Spec

(***************************************************************************)
(* For every certificate: the loop stays within its alternative names, and *)
(* ends in one of the verdicts (validIdentityForService).                  *)
(***************************************************************************)
THEOREM TypeCorrect == Spec => []TypeOK
<1>1. IInv => TypeOK
  BY DEF IInv
<1> QED
  BY <1>1, InitIInv, NextIInv, PTL DEF Spec

-----------------------------------------------------------------------------
(***************************************************************************)
(* The names.                                                              *)
(***************************************************************************)
\* A character in lower case.
Low(c) == IF c \in Letters THEN lowercased[c] ELSE c

\* Lower case: of a character it is one, twice is once, and a period is its own.
LEMMA LowCharacters ==
    ASSUME NEW c \in Characters
    PROVE  /\ Low(c) \in Characters /\ Low(Low(c)) = Low(c)
           /\ (Low(c) = asciiPeriod <=> c = asciiPeriod)
<1>1. CASE c \in Letters
  <2>1. lowercased[c] \in Letters /\ lowercased[lowercased[c]] = lowercased[c]
    BY <1>1, CharactersAssumption
  <2>2. asciiPeriod \notin Letters
    BY CharactersAssumption
  <2> QED BY <1>1, <2>1, <2>2 DEF Low, Characters
<1>2. CASE c \notin Letters
  BY <1>2 DEF Low
<1> QED BY <1>1, <1>2

\* A name in lower case, character by character.
LEMMA LowerName ==
    ASSUME NEW s \in Name
    PROVE  /\ Lower(s) \in Name /\ Len(Lower(s)) = Len(s) /\ Len(s) \in Nat
           /\ \A i \in 1..Len(s) : Lower(s)[i] = Low(s[i])
<1>1. Len(s) \in Nat /\ \A i \in 1..Len(s) : s[i] \in Characters
  BY DEF Name
<1>2. Lower(s) = [i \in 1..Len(s) |-> Low(s[i])]
  BY DEF Lower, Low
<1>3. \A i \in 1..Len(s) : Low(s[i]) \in Characters
  BY <1>1, LowCharacters
<1>4. [i \in 1..Len(s) |-> Low(s[i])] \in Seq(Characters)
  BY <1>1, <1>3
<1> QED BY <1>1, <1>2, <1>4 DEF Name

\* Names are equal if their characters are ...
LEMMA EqualNames ==
    ASSUME NEW s \in Name, NEW t \in Name
    PROVE  s = t <=> Len(s) = Len(t) /\ \A i \in 1..Len(s) : s[i] = t[i]
<1>1. ASSUME Len(s) = Len(t), \A i \in 1..Len(s) : s[i] = t[i] PROVE s = t
  BY <1>1, SeqEqual DEF Name
<1> QED BY <1>1

\* ... and in lower case, if those are in lower case.
LEMMA EqualLower ==
    ASSUME NEW s \in Name, NEW t \in Name
    PROVE  Lower(s) = Lower(t) <=>
               Len(s) = Len(t) /\ \A i \in 1..Len(s) : Low(s[i]) = Low(t[i])
<1>1. Lower(s) = Lower(t) <=>
          Len(s) = Len(t) /\ \A i \in 1..Len(s) : Lower(s)[i] = Lower(t)[i]
  BY LowerName, EqualNames
<1> QED BY <1>1, LowerName

\* Part of a name.
LEMMA CutName ==
    ASSUME NEW s \in Name, NEW a \in Nat \ {0}, NEW b \in Nat, b <= Len(s)
    PROVE  /\ SubSeq(s, a, b) \in Name
           /\ Len(SubSeq(s, a, b)) = IF a <= b THEN b - a + 1 ELSE 0
           /\ \A i \in 1..(b - a + 1) : SubSeq(s, a, b)[i] = s[a + i - 1]
<1>1. \A i \in a..b : s[i] \in Characters
  BY ElementOfSeq DEF Name
<1> QED BY <1>1, SubSeqProperties, a \in Int, b \in Int DEF Name

\* Numbers have a least one.
LEMMA LeastNumber ==
    ASSUME NEW T, T \subseteq Nat, T # {}
    PROVE  \E x \in T : \A y \in T : x <= y
<1> DEFINE R == OpToRel(<, Nat)
<1>1. IsWellFoundedOn(R, Nat)
  BY NatLessThanWellFounded, Zenon
<1>2. \A x, y \in Nat : <<y, x>> \in R <=> y < x
  BY DEF OpToRel
<1> HIDE DEF R
<1>3. PICK x \in T : \A y \in T : ~(<<y, x>> \in R)
  BY <1>1, WFMin, Zenon
<1>4. ASSUME NEW y \in T PROVE x <= y
  <2>1. x \in Nat /\ y \in Nat /\ ~(y < x)
    BY <1>2, <1>3, Zenon
  <2> QED BY <2>1
<1> QED BY <1>4

\* Where a character is found first, or one past the end ...
LEMMA FirstIndexIs ==
    ASSUME NEW s \in Name, NEW c
    PROVE  /\ FirstIndex(c, s) \in 1..(Len(s) + 1)
           /\ \A j \in 1..(FirstIndex(c, s) - 1) : s[j] # c
           /\ FirstIndex(c, s) <= Len(s) => s[FirstIndex(c, s)] = c
<1> DEFINE is == {i \in 1..Len(s) : s[i] = c}
<1>0. Len(s) \in Nat
  BY DEF Name
<1>1. CASE is = {}
  <2>1. FirstIndex(c, s) = Len(s) + 1
    BY <1>1 DEF FirstIndex
  <2> QED BY <1>0, <1>1, <2>1
<1>2. CASE is # {}
  <2>1. \E i \in is : \A j \in is : i <= j
    <3>1. is \subseteq Nat
      BY <1>0
    <3> HIDE DEF is
    <3> QED BY <1>2, <3>1, LeastNumber
  <2>2. FirstIndex(c, s) = CHOOSE i \in is : \A j \in is : i <= j
    BY <1>2 DEF FirstIndex
  <2>3. FirstIndex(c, s) \in is /\ \A j \in is : FirstIndex(c, s) <= j
    BY <2>1, <2>2
  <2> QED BY <1>0, <2>3
<1> QED BY <1>1, <1>2

\* ... and no other place is such.
LEMMA FirstIndexOnly ==
    ASSUME NEW s \in Name, NEW c, NEW i \in 1..(Len(s) + 1),
           \A j \in 1..(i - 1) : s[j] # c, i <= Len(s) => s[i] = c
    PROVE  FirstIndex(c, s) = i
<1> DEFINE f == FirstIndex(c, s)
<1>0. Len(s) \in Nat
  BY DEF Name
<1>1. f \in 1..(Len(s) + 1) /\ (\A j \in 1..(f - 1) : s[j] # c) /\ (f <= Len(s) => s[f] = c)
  BY FirstIndexIs
<1> HIDE DEF f
<1>2. ~(f < i) /\ ~(i < f)
  BY <1>0, <1>1
<1> QED BY <1>0, <1>1, <1>2 DEF f

\* The two halves of splitAroundIndex.
LEMMA BeforeIs ==
    ASSUME NEW s \in Name, NEW i \in 1..(Len(s) + 1)
    PROVE  /\ Before(s, i) \in Name /\ Len(Before(s, i)) = i - 1
           /\ \A j \in 1..(i - 1) : Before(s, i)[j] = s[j]
<1>0. Len(s) \in Nat
  BY DEF Name
<1>1. i - 1 \in Nat /\ i - 1 <= Len(s) /\ (i - 1) - 1 + 1 = i - 1
  BY <1>0
<1>2. /\ SubSeq(s, 1, i - 1) \in Name
      /\ Len(SubSeq(s, 1, i - 1)) = IF 1 <= i - 1 THEN (i - 1) - 1 + 1 ELSE 0
      /\ \A j \in 1..((i - 1) - 1 + 1) : SubSeq(s, 1, i - 1)[j] = s[1 + j - 1]
  BY <1>1, CutName
<1> QED BY <1>0, <1>1, <1>2 DEF Before

LEMMA AfterIs ==
    ASSUME NEW s \in Name, NEW i \in 1..(Len(s) + 1)
    PROVE  /\ After(s, i) \in Name
           /\ Len(After(s, i)) = IF i <= Len(s) THEN Len(s) - i ELSE 0
           /\ \A j \in 1..(Len(s) - i) : After(s, i)[j] = s[i + j]
<1>0. Len(s) \in Nat
  BY DEF Name
<1>1. i + 1 \in Nat \ {0} /\ Len(s) - (i + 1) + 1 = Len(s) - i
  BY <1>0
<1>2. /\ After(s, i) \in Name
      /\ Len(After(s, i)) = IF i + 1 <= Len(s) THEN Len(s) - (i + 1) + 1 ELSE 0
      /\ \A j \in 1..(Len(s) - (i + 1) + 1) : After(s, i)[j] = s[(i + 1) + j - 1]
  BY <1>0, <1>1, CutName DEF After
<1>3. ASSUME NEW j \in 1..(Len(s) - i) PROVE After(s, i)[j] = s[i + j]
  <2>1. j \in 1..(Len(s) - (i + 1) + 1) /\ (i + 1) + j - 1 = i + j
    BY <1>0
  <2> QED BY <1>2, <2>1
<1>4. Len(After(s, i)) = IF i <= Len(s) THEN Len(s) - i ELSE 0
  BY <1>0, <1>2
<1> QED BY <1>2, <1>3, <1>4

\* target is name with the character at a replaced by k others, in lower case.
Replaced(name, target, a, k) ==
    /\ Len(target) = Len(name) + k - 1
    /\ \A j \in 1..(a - 1) : target[j] = Low(name[j])
    /\ \A j \in (a + 1)..Len(name) : target[j + k - 1] = Low(name[j])

\* Joining names.
LEMMA JoinNames ==
    ASSUME NEW s \in Name, NEW t \in Name
    PROVE  /\ s \o t \in Name /\ Len(s \o t) = Len(s) + Len(t)
           /\ \A i \in 1..Len(s) : (s \o t)[i] = s[i]
           /\ \A i \in 1..Len(t) : (s \o t)[Len(s) + i] = t[i]
BY DEF Name

\* The concatenation of which StandsFor speaks, character by character.
LEMMA JoinedIsReplaced ==
    ASSUME NEW name \in Name, NEW target \in Name, NEW a \in 1..Len(name), NEW k \in Nat \ {0},
           a + k - 1 <= Len(target)
    PROVE  Lower(Before(name, a)) \o SubSeq(target, a, a + k - 1) \o Lower(After(name, a)) = target
               <=> Replaced(name, target, a, k)
<1> DEFINE n == Len(name)
           m == Len(target)
           b == Lower(Before(name, a))
           t == SubSeq(target, a, a + k - 1)
           r == Lower(After(name, a))
           u == b \o t
           v == u \o r
<1>0. n \in Nat /\ m \in Nat /\ a \in Nat /\ a \in 1..n /\ a - 1 \in Nat /\ n - a \in Nat
  BY DEF Name
<1>1. /\ Before(name, a) \in Name /\ Len(Before(name, a)) = a - 1
      /\ \A i \in 1..(a - 1) : Before(name, a)[i] = name[i]
  BY <1>0, BeforeIs
<1>2. /\ After(name, a) \in Name /\ Len(After(name, a)) = n - a
      /\ \A i \in 1..(n - a) : After(name, a)[i] = name[a + i]
  <2>1. a \in 1..(Len(name) + 1) /\ a <= Len(name)
    BY <1>0
  <2> QED BY <2>1, AfterIs
<1>3. /\ b \in Name /\ Len(b) = a - 1 /\ \A i \in 1..(a - 1) : b[i] = Low(name[i])
  BY <1>1, LowerName
<1>4. /\ r \in Name /\ Len(r) = n - a /\ \A i \in 1..(n - a) : r[i] = Low(name[a + i])
  <2>1. Lower(After(name, a)) \in Name /\ Len(Lower(After(name, a))) = Len(After(name, a))
        /\ \A i \in 1..Len(After(name, a)) : Lower(After(name, a))[i] = Low(After(name, a)[i])
    BY <1>2, LowerName
  <2> QED BY <1>2, <2>1
<1>5. t \in Name /\ Len(t) = k /\ \A i \in 1..k : t[i] = target[a + i - 1]
  <2>1. a \in Nat \ {0} /\ a + k - 1 \in Nat /\ (a + k - 1) - a + 1 = k /\ a <= a + k - 1
    BY <1>0
  <2>2. /\ t \in Name
        /\ Len(t) = IF a <= a + k - 1 THEN (a + k - 1) - a + 1 ELSE 0
        /\ \A i \in 1..((a + k - 1) - a + 1) : t[i] = target[a + i - 1]
    BY <2>1, CutName
  <2> QED BY <2>1, <2>2
<1>6. /\ u \in Name /\ Len(u) = a - 1 + k
      /\ \A i \in 1..(a - 1) : u[i] = b[i]
      /\ \A i \in 1..k : u[(a - 1) + i] = t[i]
  <2> HIDE DEF b, t
  <2>1. /\ u \in Name /\ Len(u) = Len(b) + Len(t)
        /\ \A i \in 1..Len(b) : u[i] = b[i]
        /\ \A i \in 1..Len(t) : u[Len(b) + i] = t[i]
    BY <1>3, <1>5, JoinNames
  <2> HIDE DEF u
  <2> QED BY <2>1, <1>3, <1>5
<1> HIDE DEF b, t, u
<1>7. /\ v \in Name /\ Len(v) = a - 1 + k + (n - a)
      /\ \A i \in 1..(a - 1 + k) : v[i] = u[i]
      /\ \A i \in 1..(n - a) : v[(a - 1 + k) + i] = r[i]
  <2> HIDE DEF r
  <2>1. /\ v \in Name /\ Len(v) = Len(u) + Len(r)
        /\ \A i \in 1..Len(u) : v[i] = u[i]
        /\ \A i \in 1..Len(r) : v[Len(u) + i] = r[i]
    BY <1>4, <1>6, JoinNames
  <2> HIDE DEF v
  <2> QED BY <2>1, <1>4, <1>6
<1> HIDE DEF r, v
<1>8. v = target <=> m = n + k - 1 /\ \A i \in 1..(n + k - 1) : v[i] = target[i]
  <2>1. v = target <=> Len(v) = m /\ \A i \in 1..Len(v) : v[i] = target[i]
    BY <1>7, EqualNames
  <2>2. Len(v) = n + k - 1
    BY <1>0, <1>7
  <2> QED BY <2>1, <2>2
<1>9. ASSUME v = target PROVE Replaced(name, target, a, k)
  <2>1. ASSUME NEW j \in 1..(a - 1) PROVE target[j] = Low(name[j])
    <3>1. j \in 1..(n + k - 1) /\ j \in 1..(a - 1 + k)
      BY <1>0
    <3> QED BY <1>3, <1>6, <1>7, <1>8, <1>9, <3>1
  <2>2. ASSUME NEW j \in (a + 1)..n PROVE target[j + k - 1] = Low(name[j])
    <3>1. /\ j - a \in 1..(n - a) /\ (a - 1 + k) + (j - a) = j + k - 1
          /\ a + (j - a) = j /\ j + k - 1 \in 1..(n + k - 1)
      BY <1>0
    <3>2. v[(a - 1 + k) + (j - a)] = r[j - a] /\ r[j - a] = Low(name[a + (j - a)])
      BY <1>4, <1>7, <3>1
    <3> QED BY <1>8, <1>9, <3>1, <3>2
  <2> QED BY <1>8, <1>9, <2>1, <2>2 DEF Replaced
<1>10. ASSUME Replaced(name, target, a, k) PROVE v = target
  <2>1. m = n + k - 1
    BY <1>10 DEF Replaced
  <2>2. ASSUME NEW i \in 1..(n + k - 1) PROVE v[i] = target[i]
    <3>1. CASE i \in 1..(a - 1)
      <4>1. i \in 1..(a - 1 + k)
        BY <1>0, <3>1
      <4> QED BY <1>3, <1>6, <1>7, <1>10, <3>1, <4>1 DEF Replaced
    <3>2. CASE i \in a..(a + k - 1)
      <4>1. /\ i - (a - 1) \in 1..k /\ (a - 1) + (i - (a - 1)) = i /\ i \in 1..(a - 1 + k)
            /\ a + (i - (a - 1)) - 1 = i
        BY <1>0, <3>2
      <4>2. u[(a - 1) + (i - (a - 1))] = t[i - (a - 1)]
            /\ t[i - (a - 1)] = target[a + (i - (a - 1)) - 1]
        BY <1>5, <1>6, <4>1
      <4> QED BY <1>7, <4>1, <4>2
    <3>3. CASE i \in (a + k)..(n + k - 1)
      <4> DEFINE j == i - k + 1
      <4>1. /\ j \in (a + 1)..n /\ j + k - 1 = i /\ j - a \in 1..(n - a)
            /\ (a - 1 + k) + (j - a) = i /\ a + (j - a) = j
        BY <1>0, <3>3
      <4> HIDE DEF j
      <4>2. v[(a - 1 + k) + (j - a)] = r[j - a] /\ r[j - a] = Low(name[a + (j - a)])
        BY <1>4, <1>7, <4>1
      <4>3. target[j + k - 1] = Low(name[j])
        BY <1>10, <4>1 DEF Replaced
      <4> QED BY <4>1, <4>2, <4>3
    <3> QED BY <1>0, <3>1, <3>2, <3>3
  <2> QED BY <1>8, <2>1, <2>2
<1>11. v = Lower(Before(name, a)) \o SubSeq(target, a, a + k - 1) \o Lower(After(name, a))
  BY DEF v, u, b, t, r
<1> QED BY <1>9, <1>10, <1>11

\* MatchesWildcard, character by character: a, p and q are the places of the asterisk
\* and of the periods.
Pieces(name, target, a, p, q) ==
    /\ p <= q
    /\ (IF p <= Len(name) THEN Len(name) - p ELSE 0)
           = (IF q <= Len(target) THEN Len(target) - q ELSE 0)
    /\ \A j \in 1..(Len(name) - p) : target[q + j] = Low(name[p + j])
    /\ \A j \in 1..(a - 1) : target[j] = Low(name[j])
    /\ \A j \in 1..(p - 1 - a) : target[(q - p + a) + j] = Low(name[a + j])

\* The first n characters, and the last.
LEMMA PrefixIs ==
    ASSUME NEW s \in Name, NEW n \in Nat, n <= Len(s)
    PROVE  /\ Prefix(s, n) \in Name /\ Len(Prefix(s, n)) = n
           /\ \A j \in 1..n : Prefix(s, n)[j] = s[j]
<1>0. Len(s) \in Nat
  BY DEF Name
<1>1. Prefix(s, n) = SubSeq(s, 1, n)
  BY <1>0 DEF Prefix
<1>2. /\ SubSeq(s, 1, n) \in Name
      /\ Len(SubSeq(s, 1, n)) = IF 1 <= n THEN n - 1 + 1 ELSE 0
      /\ \A i \in 1..(n - 1 + 1) : SubSeq(s, 1, n)[i] = s[1 + i - 1]
  BY CutName
<1> QED BY <1>1, <1>2

LEMMA SuffixIs ==
    ASSUME NEW s \in Name, NEW n \in Nat, n < Len(s)
    PROVE  /\ Suffix(s, n) \in Name /\ Len(Suffix(s, n)) = n
           /\ \A j \in 1..n : Suffix(s, n)[j] = s[(Len(s) - n) + j]
<1>0. Len(s) \in Nat
  BY DEF Name
<1> DEFINE b == Len(s) - n + 1
<1>1. Suffix(s, n) = SubSeq(s, b, Len(s))
  BY <1>0 DEF Suffix
<1>2. b \in Nat \ {0} /\ Len(s) - b + 1 = n /\ (b <= Len(s) <=> n >= 1)
  BY <1>0
<1>3. \A j \in 1..n : b + j - 1 = (Len(s) - n) + j
  BY <1>0
<1> HIDE DEF b
<1>4. /\ SubSeq(s, b, Len(s)) \in Name
      /\ Len(SubSeq(s, b, Len(s))) = IF b <= Len(s) THEN Len(s) - b + 1 ELSE 0
      /\ \A i \in 1..(Len(s) - b + 1) : SubSeq(s, b, Len(s))[i] = s[b + i - 1]
  BY <1>0, <1>2, CutName
<1>5. Len(SubSeq(s, b, Len(s))) = n
  BY <1>2, <1>4
<1>6. \A i \in 1..n : SubSeq(s, b, Len(s))[i] = s[(Len(s) - n) + i]
  BY <1>2, <1>3, <1>4
<1> QED BY <1>1, <1>4, <1>5, <1>6

\* The comparisons of MatchesWildcard are those of the pieces: none of them overlap, since
\* the first label of the target is at least as long.
LEMMA MatchesPieces ==
    ASSUME NEW name \in Name, NEW target \in Name,
           \A i \in 1..Len(target) : Low(target[i]) = target[i],
           FirstIndex(asciiAsterisk, name) < FirstIndex(asciiPeriod, name)
    PROVE  MatchesWildcard(name, target) <=>
               Pieces(name, target, FirstIndex(asciiAsterisk, name),
                      FirstIndex(asciiPeriod, name), FirstIndex(asciiPeriod, target))
<1> DEFINE n == Len(name)
           m == Len(target)
           a == FirstIndex(asciiAsterisk, name)
           p == FirstIndex(asciiPeriod, name)
           q == FirstIndex(asciiPeriod, target)
           label  == Before(name, p)
           first  == Before(target, q)
           prefix == Before(label, FirstIndex(asciiAsterisk, label))
           suffix == After(label, FirstIndex(asciiAsterisk, label))
           nameEnd == After(name, p)
           targetEnd == After(target, q)
<1>1. n \in Nat /\ m \in Nat
  BY DEF Name
<1>2. /\ a \in 1..(n + 1) /\ p \in 1..(n + 1) /\ q \in 1..(m + 1) /\ a < p
      /\ (\A j \in 1..(a - 1) : name[j] # asciiAsterisk) /\ (a <= n => name[a] = asciiAsterisk)
  BY FirstIndexIs
<1>3. MatchesWildcard(name, target) <=>
          /\ Lower(nameEnd) = Lower(targetEnd)
          /\ Len(first) >= Len(label)
          /\ Lower(Prefix(first, Len(prefix))) = Lower(prefix)
          /\ Lower(Suffix(first, Len(suffix))) = Lower(suffix)
  BY DEF MatchesWildcard, caseInsensitiveElementsEqual
<1> HIDE DEF a, p, q
<1>4. label \in Name /\ Len(label) = p - 1 /\ \A j \in 1..(p - 1) : label[j] = name[j]
  BY <1>2, BeforeIs
<1>5. first \in Name /\ Len(first) = q - 1 /\ \A j \in 1..(q - 1) : first[j] = target[j]
  BY <1>2, BeforeIs
<1> HIDE DEF label, first
<1>6. FirstIndex(asciiAsterisk, label) = a
  <2>1. a \in 1..(Len(label) + 1) /\ a <= n /\ a \in 1..(p - 1)
    BY <1>1, <1>2, <1>4
  <2>2. \A j \in 1..(a - 1) : label[j] # asciiAsterisk
    BY <1>1, <1>2, <1>4
  <2>3. a <= Len(label) => label[a] = asciiAsterisk
    BY <1>2, <1>4, <2>1
  <2> QED BY <1>4, <2>1, <2>2, <2>3, FirstIndexOnly, Zenon
<1>7. prefix \in Name /\ Len(prefix) = a - 1 /\ \A j \in 1..(a - 1) : prefix[j] = name[j]
  <2>1. a \in 1..(Len(label) + 1)
    BY <1>1, <1>2, <1>4
  <2>2. Before(label, a) \in Name /\ Len(Before(label, a)) = a - 1
        /\ \A j \in 1..(a - 1) : Before(label, a)[j] = label[j]
    BY <1>4, <2>1, BeforeIs
  <2> QED BY <1>1, <1>2, <1>4, <1>6, <2>2
<1>8. suffix \in Name /\ Len(suffix) = p - 1 - a
      /\ \A j \in 1..(p - 1 - a) : suffix[j] = name[a + j]
  <2>1. a \in 1..(Len(label) + 1) /\ a <= Len(label) /\ Len(label) - a = p - 1 - a
    BY <1>1, <1>2, <1>4
  <2>2. After(label, a) \in Name /\ Len(After(label, a)) = p - 1 - a
        /\ \A j \in 1..(p - 1 - a) : After(label, a)[j] = label[a + j]
    <3>1. /\ After(label, a) \in Name
          /\ Len(After(label, a)) = IF a <= Len(label) THEN Len(label) - a ELSE 0
          /\ \A j \in 1..(Len(label) - a) : After(label, a)[j] = label[a + j]
      BY <1>4, <2>1, AfterIs
    <3> QED BY <2>1, <3>1
  <2>3. \A j \in 1..(p - 1 - a) : a + j \in 1..(p - 1)
    BY <1>1, <1>2
  <2> QED BY <1>4, <1>6, <2>2, <2>3
<1>9. /\ nameEnd \in Name /\ Len(nameEnd) = IF p <= n THEN n - p ELSE 0
      /\ \A j \in 1..(n - p) : nameEnd[j] = name[p + j]
  BY <1>2, AfterIs
<1>10. /\ targetEnd \in Name /\ Len(targetEnd) = IF q <= m THEN m - q ELSE 0
       /\ \A j \in 1..(m - q) : targetEnd[j] = target[q + j]
  BY <1>2, AfterIs
<1> HIDE DEF prefix, suffix, nameEnd, targetEnd
<1>11. Lower(nameEnd) = Lower(targetEnd) <=>
           /\ (IF p <= n THEN n - p ELSE 0) = (IF q <= m THEN m - q ELSE 0)
           /\ \A j \in 1..(n - p) : target[q + j] = Low(name[p + j])
  <2>1. Lower(nameEnd) = Lower(targetEnd) <=>
            /\ (IF p <= n THEN n - p ELSE 0) = (IF q <= m THEN m - q ELSE 0)
            /\ \A j \in 1..Len(nameEnd) : Low(nameEnd[j]) = Low(targetEnd[j])
    BY <1>9, <1>10, EqualLower
  <2>2. \A j : j \in 1..Len(nameEnd) <=> j \in 1..(n - p)
    BY <1>1, <1>2, <1>9
  <2>3. ASSUME (IF p <= n THEN n - p ELSE 0) = (IF q <= m THEN m - q ELSE 0),
               NEW j \in 1..(n - p)
        PROVE  nameEnd[j] = name[p + j] /\ Low(targetEnd[j]) = target[q + j]
    <3>1. j \in 1..(m - q) /\ q + j \in 1..m
      BY <1>1, <1>2, <2>3
    <3> QED BY <1>9, <1>10, <3>1
  <2> QED BY <2>1, <2>2, <2>3
<1>12. ASSUME q >= p
       PROVE  /\ Lower(Prefix(first, Len(prefix))) = Lower(prefix) <=>
                     \A j \in 1..(a - 1) : target[j] = Low(name[j])
              /\ Lower(Suffix(first, Len(suffix))) = Lower(suffix) <=>
                     \A j \in 1..(p - 1 - a) : target[(q - p + a) + j] = Low(name[a + j])
  <2>1. /\ a - 1 \in Nat /\ a - 1 <= Len(first)
        /\ p - 1 - a \in Nat /\ p - 1 - a < Len(first)
        /\ Len(first) - (p - 1 - a) = q - p + a
    BY <1>1, <1>2, <1>5, <1>12
  <2> DEFINE f == Prefix(first, a - 1)
             g == Suffix(first, p - 1 - a)
  <2>2. f \in Name /\ Len(f) = a - 1 /\ \A j \in 1..(a - 1) : f[j] = first[j]
    BY <1>5, <2>1, PrefixIs
  <2>3. /\ g \in Name /\ Len(g) = p - 1 - a
        /\ \A j \in 1..(p - 1 - a) : g[j] = first[(q - p + a) + j]
    <3>1. /\ g \in Name /\ Len(g) = p - 1 - a
          /\ \A j \in 1..(p - 1 - a) : g[j] = first[(Len(first) - (p - 1 - a)) + j]
      BY <1>5, <2>1, SuffixIs
    <3> QED BY <2>1, <3>1
  <2> HIDE DEF f, g
  <2>4. Lower(f) = Lower(prefix) <=> \A j \in 1..(a - 1) : target[j] = Low(name[j])
    <3>1. Lower(f) = Lower(prefix) <=> \A j \in 1..(a - 1) : Low(f[j]) = Low(prefix[j])
      BY <1>7, <2>2, EqualLower
    <3>2. ASSUME NEW j \in 1..(a - 1) PROVE Low(f[j]) = target[j] /\ prefix[j] = name[j]
      <4>1. j \in 1..(q - 1) /\ j \in 1..m
        BY <1>1, <1>2, <1>12
      <4> QED BY <1>5, <1>7, <2>2, <4>1
    <3> QED BY <3>1, <3>2
  <2>5. Lower(g) = Lower(suffix) <=>
            \A j \in 1..(p - 1 - a) : target[(q - p + a) + j] = Low(name[a + j])
    <3>1. Lower(g) = Lower(suffix) <=> \A j \in 1..(p - 1 - a) : Low(g[j]) = Low(suffix[j])
      BY <1>8, <2>3, EqualLower
    <3>2. ASSUME NEW j \in 1..(p - 1 - a)
          PROVE  Low(g[j]) = target[(q - p + a) + j] /\ suffix[j] = name[a + j]
      <4>1. (q - p + a) + j \in 1..(q - 1) /\ (q - p + a) + j \in 1..m
        BY <1>1, <1>2, <1>12
      <4> QED BY <1>5, <1>8, <2>3, <4>1
    <3> QED BY <3>1, <3>2
  <2> QED BY <1>7, <1>8, <2>4, <2>5 DEF f, g
<1>13. Len(first) >= Len(label) <=> p <= q
  BY <1>1, <1>2, <1>4, <1>5
<1>14. MatchesWildcard(name, target) <=> Pieces(name, target, a, p, q)
  BY <1>3, <1>11, <1>12, <1>13 DEF Pieces
<1> QED BY <1>14 DEF a, p, q

\* No trailing period.
NoEmptyEnd(s) == s # <<>> => s[Len(s)] # asciiPeriod

\* k characters other than a period stand in target for the one at a.
Substituted(name, target, a, k) ==
    /\ a + k - 1 <= Len(target)
    /\ \A j \in a..(a + k - 1) : target[j] # asciiPeriod
    /\ Replaced(name, target, a, k)

\* If the pieces are equal, what is left of the first label of the target stands for the
\* asterisk.  Here it matters that no name ends in a period: the text after the last period
\* of one would be as empty as that of a name without one.
LEMMA PiecesSubstituted ==
    ASSUME NEW name \in Name, NEW target \in Name, NoEmptyEnd(name), NoEmptyEnd(target),
           NEW a \in Nat \ {0}, a < FirstIndex(asciiPeriod, name),
           Pieces(name, target, a, FirstIndex(asciiPeriod, name), FirstIndex(asciiPeriod, target))
    PROVE  \E k \in Nat \ {0} : Substituted(name, target, a, k)
<1> DEFINE n == Len(name)
           m == Len(target)
           p == FirstIndex(asciiPeriod, name)
           q == FirstIndex(asciiPeriod, target)
           k == q - p + 1
<1>1. n \in Nat /\ m \in Nat /\ (name # <<>> <=> n > 0) /\ (target # <<>> <=> m > 0)
  BY DEF Name
<1>2. /\ p \in 1..(n + 1) /\ q \in 1..(m + 1) /\ (\A j \in 1..(q - 1) : target[j] # asciiPeriod)
      /\ (p <= n => name[p] = asciiPeriod) /\ (q <= m => target[q] = asciiPeriod)
  BY FirstIndexIs
<1>3. p # n /\ q # m
  BY <1>1, <1>2 DEF NoEmptyEnd
<1>4. a < p /\ Pieces(name, target, a, p, q)
  OBVIOUS
<1> HIDE DEF p, q
<1>5. k \in Nat \ {0} /\ a + k - 1 <= q - 1 /\ a + k - 1 <= m /\ m = n + k - 1
  <2>1. /\ p <= q
        /\ (IF p <= n THEN n - p ELSE 0) = (IF q <= m THEN m - q ELSE 0)
    BY <1>4 DEF Pieces
  <2>2. \A x \in 1..(n + 1), y \in 1..(m + 1) :
               x <= y /\ x # n /\ y # m /\ a < x
                   /\ (IF x <= n THEN n - x ELSE 0) = (IF y <= m THEN m - y ELSE 0) =>
               /\ y - x + 1 \in Nat \ {0} /\ a + (y - x + 1) - 1 <= y - 1
               /\ a + (y - x + 1) - 1 <= m /\ m = n + (y - x + 1) - 1
    BY <1>1
  <2> QED BY <1>2, <1>3, <1>4, <2>1, <2>2
<1>6. ASSUME NEW j \in a..(a + k - 1) PROVE target[j] # asciiPeriod
  BY <1>1, <1>2, <1>5
<1>7. ASSUME NEW j \in (a + 1)..n PROVE target[j + k - 1] = Low(name[j])
  <2>1. CASE j < p
    <3>1. /\ j - a \in 1..(p - 1 - a) /\ a + (j - a) = j
          /\ (q - p + a) + (j - a) = j + k - 1
      BY <1>1, <1>2, <1>5, <2>1
    <3>2. target[(q - p + a) + (j - a)] = Low(name[a + (j - a)])
      BY <1>4, <3>1 DEF Pieces
    <3> QED BY <3>1, <3>2
  <2>2. CASE j = p
    <3>1. j + k - 1 = q /\ p <= n /\ q <= m
      BY <1>1, <1>2, <1>5, <2>2
    <3>2. name[j] \in Characters /\ name[j] = asciiPeriod
      BY <1>1, <1>2, <2>2, <3>1 DEF Name, Characters
    <3> QED BY <1>2, <3>1, <3>2, CharactersAssumption DEF Low
  <2>3. CASE p < j
    <3>1. /\ j - p \in 1..(n - p) /\ p + (j - p) = j
          /\ q + (j - p) = j + k - 1
      BY <1>1, <1>2, <1>5, <2>3
    <3>2. target[q + (j - p)] = Low(name[p + (j - p)])
      BY <1>4, <3>1 DEF Pieces
    <3> QED BY <3>1, <3>2
  <2> QED BY <1>1, <1>2, <2>1, <2>2, <2>3
<1>8. Replaced(name, target, a, k)
  BY <1>4, <1>5, <1>7 DEF Replaced, Pieces
<1> QED BY <1>5, <1>6, <1>8 DEF Substituted

\* A name that the asterisk was replaced in has its first period as much further right as the
\* text is longer, so that the pieces are equal.
LEMMA SubstitutedPieces ==
    ASSUME NEW name \in Name, NEW target \in Name,
           NEW a \in Nat \ {0}, a < FirstIndex(asciiPeriod, name), a <= Len(name),
           NEW k \in Nat \ {0}, Substituted(name, target, a, k)
    PROVE  Pieces(name, target, a, FirstIndex(asciiPeriod, name), FirstIndex(asciiPeriod, target))
<1> DEFINE n == Len(name)
           m == Len(target)
           p == FirstIndex(asciiPeriod, name)
           q == p + k - 1
<1>1. n \in Nat /\ m \in Nat /\ m = n + k - 1
  BY DEF Name, Substituted, Replaced
<1>2. /\ p \in 1..(n + 1) /\ (\A j \in 1..(p - 1) : name[j] # asciiPeriod) /\ a < p
      /\ (p <= n => name[p] = asciiPeriod)
  BY FirstIndexIs
<1> HIDE DEF p
<1>3. \A j \in 1..n : Low(name[j]) = asciiPeriod <=> name[j] = asciiPeriod
  BY LowCharacters DEF Name
<1>4. FirstIndex(asciiPeriod, target) = q
  <2>1. q \in 1..(m + 1)
    BY <1>1, <1>2
  <2>2. ASSUME NEW j \in 1..(q - 1) PROVE target[j] # asciiPeriod
    <3>1. CASE j < a
      <4>1. j \in 1..(a - 1) /\ j \in 1..n /\ j \in 1..(p - 1)
        BY <1>1, <1>2, <3>1
      <4> QED BY <1>2, <1>3, <4>1 DEF Substituted, Replaced
    <3>2. CASE j \in a..(a + k - 1)
      BY <3>2 DEF Substituted
    <3>3. CASE j > a + k - 1
      <4> DEFINE i == j - k + 1
      <4>1. i + k - 1 = j /\ i \in (a + 1)..n /\ i \in 1..n /\ i \in 1..(p - 1)
        BY <1>1, <1>2, <2>1, <3>3
      <4> HIDE DEF i
      <4>2. target[i + k - 1] = Low(name[i])
        BY <4>1 DEF Substituted, Replaced
      <4> QED BY <1>2, <1>3, <4>1, <4>2
    <3> QED BY <1>1, <1>2, <3>1, <3>2, <3>3
  <2>3. ASSUME q <= m PROVE target[q] = asciiPeriod
    <3>1. p \in (a + 1)..n /\ p \in 1..n
      BY <1>1, <1>2, <2>3
    <3>2. target[p + k - 1] = Low(name[p])
      BY <3>1 DEF Substituted, Replaced
    <3> QED BY <1>2, <1>3, <3>1, <3>2
  <2> QED BY <2>1, <2>2, <2>3, FirstIndexOnly
<1>5. p <= q /\ (IF p <= n THEN n - p ELSE 0) = (IF q <= m THEN m - q ELSE 0)
  BY <1>1, <1>2
<1>6. ASSUME NEW j \in 1..(n - p) PROVE target[q + j] = Low(name[p + j])
  <2>1. p + j \in (a + 1)..n /\ (p + j) + k - 1 = q + j
    BY <1>1, <1>2
  <2> QED BY <2>1 DEF Substituted, Replaced
<1>7. ASSUME NEW j \in 1..(p - 1 - a) PROVE target[(q - p + a) + j] = Low(name[a + j])
  <2>1. a + j \in (a + 1)..n /\ (a + j) + k - 1 = (q - p + a) + j
    BY <1>1, <1>2
  <2> QED BY <2>1 DEF Substituted, Replaced
<1>8. Pieces(name, target, a, p, q)
  BY <1>5, <1>6, <1>7 DEF Pieces, Substituted, Replaced
<1> QED BY <1>4, <1>8 DEF p

\* The name itself, if there is no asterisk.
LEMMA PlainMatch ==
    ASSUME NEW name \in Name, NEW target \in Name,
           \A i \in 1..Len(target) : Low(target[i]) = target[i],
           ~IsWildcard(name)
    PROVE  Analysable(name) /\ validMatchForName(name, target) <=> StandsFor(name, target)
<1>1. Len(name) \in Nat /\ \A i \in 1..Len(name) : name[i] \in Characters
  BY DEF Name
<1>2. /\ FirstIndex(asciiAsterisk, name) = Len(name) + 1
      /\ \A i \in 1..Len(name) : name[i] # asciiAsterisk
  <2>1. FirstIndex(asciiAsterisk, name) = Len(name) + 1
    BY <1>1, FirstIndexIs DEF IsWildcard
  <2> QED BY <1>1, <2>1, FirstIndexIs
<1>3. Analysable(name) <=> \A i \in 1..Len(name) : name[i] \notin Unacceptable
  BY <1>1, <1>2, CharactersAssumption DEF Analysable, Characters
<1>4. Lower(target) = target
  BY LowerName, EqualNames
<1>5. validMatchForName(name, target) <=> Lower(name) = target
  BY <1>4 DEF validMatchForName, caseInsensitiveElementsEqual
<1>6. StandsFor(name, target) <=>
          (\A i \in 1..Len(name) : name[i] \notin Unacceptable) /\ Lower(name) = target
  BY <1>2 DEF StandsFor
<1> QED BY <1>3, <1>5, <1>6

\* A wildcard matches what its asterisk can be replaced to give.
LEMMA WildcardMatch ==
    ASSUME NEW name \in Name, NEW target \in Name, NoEmptyEnd(name), NoEmptyEnd(target),
           \A i \in 1..Len(target) : Low(target[i]) = target[i],
           IsWildcard(name)
    PROVE  Analysable(name) /\ validMatchForName(name, target) <=> StandsFor(name, target)
<1> DEFINE n == Len(name)
           m == Len(target)
           a == FirstIndex(asciiAsterisk, name)
           p == FirstIndex(asciiPeriod, name)
           asterisks == {i \in 1..n : name[i] = asciiAsterisk}
           foreign == Lower(Prefix(name, Len(asciiIDNAIdentifier))) = Lower(asciiIDNAIdentifier)
           wellFormed == \A i \in 1..n : name[i] \notin Unacceptable
           joined(i, k) ==
               Lower(Before(name, i)) \o SubSeq(target, i, i + k - 1) \o Lower(After(name, i))
<1>1. n \in Nat /\ m \in Nat /\ \A i \in 1..n : name[i] \in Characters
  BY DEF Name
<1>2. /\ a \in 1..n /\ name[a] = asciiAsterisk /\ (\A j \in 1..(a - 1) : name[j] # asciiAsterisk)
      /\ p \in 1..(n + 1) /\ (\A j \in 1..(p - 1) : name[j] # asciiPeriod)
      /\ (p <= n => name[p] = asciiPeriod)
  BY <1>1, FirstIndexIs DEF IsWildcard
<1>3. asciiAsterisk # asciiPeriod
  BY DEF asciiAsterisk, asciiPeriod
<1>4. a < p <=> \A j \in 1..(a - 1) : name[j] # asciiPeriod
  BY <1>1, <1>2, <1>3
<1>5. (\A i \in 1..n : i # a => name[i] \in Letters \cup {asciiPeriod}) <=>
          wellFormed /\ asterisks = {a}
  <2> HIDE DEF a
  <2>1. asciiAsterisk \notin Letters \cup Unacceptable /\ asciiPeriod \notin Unacceptable
        /\ Letters \cap Unacceptable = {}
    BY CharactersAssumption
  <2>2. asterisks = {a} <=> \A i \in 1..n : i # a => name[i] # asciiAsterisk
    BY <1>2
  <2>3. \A i \in 1..n : name[i] \in Letters \cup {asciiPeriod} <=>
                            name[i] \notin Unacceptable /\ name[i] # asciiAsterisk
    BY <1>1, <1>3, <2>1 DEF Characters
  <2>4. name[a] \notin Unacceptable
    BY <1>2, <2>1
  <2> HIDE DEF asterisks
  <2> QED BY <2>2, <2>3, <2>4
<1>6. Analysable(name) <=> wellFormed /\ asterisks = {a} /\ a < p /\ ~foreign
  BY <1>5 DEF Analysable, caseInsensitiveElementsEqual
<1>7. validMatchForName(name, target) <=> MatchesWildcard(name, target)
  BY DEF validMatchForName
<1>8. StandsFor(name, target) <=>
          /\ wellFormed /\ asterisks = {a} /\ a < p /\ ~foreign
          /\ \E k \in 1..m : /\ a + k - 1 <= m
                             /\ \A j \in 1..k : SubSeq(target, a, a + k - 1)[j] # asciiPeriod
                             /\ joined(a, k) = target
  <2>1. StandsFor(name, target) <=>
            /\ wellFormed
            /\ \/ asterisks = {} /\ Lower(name) = target
               \/ \E i \in asterisks, k \in 1..m :
                      /\ asterisks = {i}
                      /\ i + k - 1 <= m
                      /\ \A j \in 1..k : SubSeq(target, i, i + k - 1)[j] # asciiPeriod
                      /\ \A j \in 1..(i - 1) : name[j] # asciiPeriod
                      /\ ~foreign
                      /\ joined(i, k) = target
    BY Zenon DEF StandsFor
  <2>2. a \in asterisks
    BY <1>2
  <2> HIDE DEF asterisks, foreign, wellFormed, joined, a, p
  <2>3. \A i \in asterisks : asterisks = {i} => i = a
    BY <2>2
  <2> QED BY <1>4, <2>1, <2>2, <2>3, Zenon
<1>9. ASSUME NEW k \in 1..m, a + k - 1 <= m
      PROVE  (/\ \A j \in 1..k : SubSeq(target, a, a + k - 1)[j] # asciiPeriod
              /\ joined(a, k) = target) <=> Substituted(name, target, a, k)
  <2>1. joined(a, k) = target <=> Replaced(name, target, a, k)
    <3>1. k \in Nat \ {0} /\ a \in 1..Len(name) /\ a + k - 1 <= Len(target)
      BY <1>1, <1>2, <1>9
    <3> HIDE DEF a
    <3> QED BY <3>1, JoinedIsReplaced, Zenon
  <2>2. \A j \in 1..k : SubSeq(target, a, a + k - 1)[j] = target[a + j - 1]
    <3>1. a \in Nat \ {0} /\ a + k - 1 \in Nat /\ (a + k - 1) - a + 1 = k
      BY <1>1, <1>2
    <3>2. \A j \in 1..((a + k - 1) - a + 1) : SubSeq(target, a, a + k - 1)[j] = target[a + j - 1]
      BY <1>9, <3>1, CutName
    <3> QED BY <3>1, <3>2
  <2>3. (\A j \in 1..k : target[a + j - 1] # asciiPeriod) <=>
            \A j \in a..(a + k - 1) : target[j] # asciiPeriod
    <3> HIDE DEF a
    <3>1. ASSUME \A j \in 1..k : target[a + j - 1] # asciiPeriod, NEW j \in a..(a + k - 1)
          PROVE  target[j] # asciiPeriod
      <4>1. j - a + 1 \in 1..k /\ a + (j - a + 1) - 1 = j
        BY <1>1, <1>2
      <4> QED BY <3>1, <4>1
    <3>2. ASSUME \A j \in a..(a + k - 1) : target[j] # asciiPeriod, NEW j \in 1..k
          PROVE  target[a + j - 1] # asciiPeriod
      <4>1. a + j - 1 \in a..(a + k - 1)
        BY <1>1, <1>2
      <4> QED BY <3>2, <4>1
    <3> QED BY <3>1, <3>2
  <2> HIDE DEF joined, a
  <2> QED BY <1>9, <2>1, <2>2, <2>3 DEF Substituted
<1>10. ASSUME a < p
       PROVE  MatchesWildcard(name, target) <=> \E k \in 1..m : Substituted(name, target, a, k)
  <2>1. MatchesWildcard(name, target) <=>
            Pieces(name, target, a, p, FirstIndex(asciiPeriod, target))
    BY <1>10, MatchesPieces
  <2>2. a \in Nat \ {0} /\ a <= n
    BY <1>1, <1>2
  <2>3. \A k \in Nat \ {0} : Substituted(name, target, a, k) => k \in 1..m
    BY <1>1, <2>2 DEF Substituted
  <2>4. ASSUME MatchesWildcard(name, target)
        PROVE  \E k \in 1..m : Substituted(name, target, a, k)
    <3>1. \E k \in Nat \ {0} : Substituted(name, target, a, k)
      BY <1>10, <2>1, <2>2, <2>4, PiecesSubstituted
    <3> QED BY <2>3, <3>1
  <2>5. ASSUME NEW k \in 1..m, Substituted(name, target, a, k)
        PROVE  MatchesWildcard(name, target)
    <3>1. k \in Nat \ {0}
      BY <1>1
    <3> QED BY <1>10, <2>1, <2>2, <2>5, <3>1, SubstitutedPieces
  <2> QED BY <2>4, <2>5
<1> HIDE DEF a, p, asterisks, foreign, wellFormed, joined
<1>11. StandsFor(name, target) <=>
           /\ wellFormed /\ asterisks = {a} /\ a < p /\ ~foreign
           /\ \E k \in 1..m : a + k - 1 <= m /\ Substituted(name, target, a, k)
  BY <1>8, <1>9
<1>12. \A k \in 1..m : Substituted(name, target, a, k) => a + k - 1 <= m
  BY DEF Substituted
<1> QED BY <1>6, <1>7, <1>10, <1>11, <1>12

\* Without its trailing period a name ends in none, unless an empty label does.
LEMMA WithoutPeriod ==
    ASSUME NEW s \in Name,
           ~(Len(s) > 1 /\ s[Len(s)] = asciiPeriod /\ s[Len(s) - 1] = asciiPeriod)
    PROVE  /\ WithoutTrailingPeriod(s) \in Name /\ NoEmptyEnd(WithoutTrailingPeriod(s))
           /\ Len(WithoutTrailingPeriod(s)) <= Len(s)
           /\ \A i \in 1..Len(WithoutTrailingPeriod(s)) : WithoutTrailingPeriod(s)[i] = s[i]
<1>1. Len(s) \in Nat /\ (s # <<>> <=> Len(s) > 0)
  BY DEF Name
<1>2. CASE s # <<>> /\ s[Len(s)] = asciiPeriod
  <2> DEFINE t == SubSeq(s, 1, Len(s) - 1)
  <2>1. WithoutTrailingPeriod(s) = t
    BY <1>2 DEF WithoutTrailingPeriod
  <2>2. Len(s) - 1 \in Nat /\ Len(s) - 1 <= Len(s)
    BY <1>1, <1>2
  <2>3. /\ t \in Name
        /\ Len(t) = IF 1 <= Len(s) - 1 THEN (Len(s) - 1) - 1 + 1 ELSE 0
        /\ \A i \in 1..((Len(s) - 1) - 1 + 1) : t[i] = s[1 + i - 1]
    BY <2>2, CutName
  <2>4. Len(t) = Len(s) - 1 /\ (t # <<>> <=> Len(t) > 0)
    <3> HIDE DEF t
    <3>1. t # <<>> <=> Len(t) > 0
      BY <2>3 DEF Name
    <3>2. Len(t) = Len(s) - 1
      <4>1. Len(t) = IF 1 <= Len(s) - 1 THEN (Len(s) - 1) - 1 + 1 ELSE 0
        BY <2>3
      <4>2. Len(s) > 0
        BY <1>1, <1>2
      <4>3. \A x \in Nat : x > 0 => (IF 1 <= x - 1 THEN (x - 1) - 1 + 1 ELSE 0) = x - 1
        OBVIOUS
      <4> QED BY <1>1, <4>1, <4>2, <4>3, Zenon
    <3> QED BY <3>1, <3>2
  <2> HIDE DEF t
  <2>5. \A i \in 1..Len(t) : t[i] = s[i]
    BY <1>1, <2>3, <2>4
  <2>6. NoEmptyEnd(t)
    BY <1>1, <1>2, <2>4, <2>5 DEF NoEmptyEnd
  <2> QED BY <1>1, <2>1, <2>3, <2>4, <2>5, <2>6
<1>3. CASE ~(s # <<>> /\ s[Len(s)] = asciiPeriod)
  BY <1>1, <1>3 DEF WithoutTrailingPeriod, NoEmptyEnd
<1> QED BY <1>2, <1>3

\* A name matches what it stands for.
LEMMA MatchStandsFor ==
    ASSUME NEW name \in Name, NEW target \in Name, NoEmptyEnd(name), NoEmptyEnd(target),
           \A i \in 1..Len(target) : Low(target[i]) = target[i]
    PROVE  Analysable(name) /\ validMatchForName(name, target) <=> StandsFor(name, target)
BY PlainMatch, WildcardMatch

\* So do the names of every certificate, without their trailing periods.
LEMMA InputMatches ==
    ASSUME input \in Inputs
    PROVE  MatchIsSubstitution
<1> DEFINE Root(s) == Len(s) > 1 /\ s[Len(s)] = asciiPeriod /\ s[Len(s) - 1] = asciiPeriod
<1>1. /\ input.hostname \in Seq(Name) /\ Len(input.hostname) <= 1
      /\ input.sans \in Seq(SubjectAlternativeName)
  BY InputsAssumption
<1>2. SUFFICES ASSUME NEW l \in 1..Len(input.hostname), ~Root(input.hostname[l]),
                      NEW i \in 1..Len(input.sans), ~Root(input.sans[i].contents)
               PROVE  matchHostname(input.hostname, input.sans[i].contents) <=>
                          StandsFor(WithoutTrailingPeriod(input.sans[i].contents),
                                    WithoutTrailingPeriod(Lower(input.hostname[l])))
  BY Zenon DEF MatchIsSubstitution
<1> DEFINE h == input.hostname[1]
           s == input.sans[i].contents
           name == WithoutTrailingPeriod(s)
           target == WithoutTrailingPeriod(Lower(h))
<1>3. l = 1 /\ input.hostname # <<>> /\ h \in Name
  BY <1>1
<1>4. s \in Name
  <2>1. input.sans[i] \in SubjectAlternativeName
    BY <1>1, ElementOfSeq
  <2> QED BY <2>1 DEF SubjectAlternativeName
<1>5. Lower(h) \in Name /\ Len(Lower(h)) = Len(h) /\ Len(h) \in Nat
      /\ \A j \in 1..Len(h) : Lower(h)[j] = Low(h[j])
  BY <1>3, LowerName
<1>6. ~Root(h)
  BY <1>2, <1>3
<1> HIDE DEF h, s
<1>7. ~Root(Lower(h))
  <2>1. \A j \in 1..Len(h) : Low(h[j]) = asciiPeriod <=> h[j] = asciiPeriod
    BY <1>3, LowCharacters DEF Name
  <2> QED BY <1>5, <1>6, <2>1
<1>8. name \in Name /\ NoEmptyEnd(name)
  BY <1>2, <1>4, WithoutPeriod DEF s
<1>9. /\ target \in Name /\ NoEmptyEnd(target) /\ Len(target) <= Len(h)
      /\ \A j \in 1..Len(target) : target[j] = Lower(h)[j]
  BY <1>5, <1>7, WithoutPeriod
<1> HIDE DEF name, target
<1>10. ASSUME NEW j \in 1..Len(target) PROVE Low(target[j]) = target[j]
  <2>1. Len(target) \in Nat /\ j \in 1..Len(h)
    BY <1>5, <1>9 DEF Name
  <2>2. target[j] = Low(h[j]) /\ h[j] \in Characters
    BY <1>3, <1>5, <1>9, <2>1 DEF Name
  <2> QED BY <2>2, LowCharacters
<1>11. Analysable(name) /\ validMatchForName(name, target) <=> StandsFor(name, target)
  BY <1>8, <1>9, <1>10, MatchStandsFor
<1>12. matchHostname(input.hostname, s) <=> Analysable(name) /\ validMatchForName(name, target)
  BY <1>3 DEF matchHostname, name, target, h
<1> QED BY <1>3, <1>11, <1>12 DEF name, target, h, s

(***************************************************************************)
(* For all hostnames and names of certificates, however long: matching by  *)
(* labels, prefixes and suffixes (validMatchForName) comes to replacing    *)
(* the asterisk by a text without a period that is not empty.              *)
(***************************************************************************)
THEOREM MatchesBySubstitution == Spec => []MatchIsSubstitution
<1>1. IInv => MatchIsSubstitution
  BY InputMatches DEF IInv
<1> QED
  BY <1>1, InitIInv, NextIInv, PTL DEF Spec
=============================================================================
