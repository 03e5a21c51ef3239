------------------------ MODULE IdentityVerification ------------------------
(***************************************************************************)
(* IdentityVerification.swift: is the leaf certificate of the peer valid   *)
(* for the service the user meant to reach?  A name is a sequence of       *)
(* characters.  What of a certificate decides is a record: sans, its       *)
(* subject alternative names in order, and commonNames, those of its       *)
(* subject in order.                                                       *)
(***************************************************************************)
EXTENDS Naturals, Sequences

CONSTANTS Letters,              \* letters, digits and the hyphen
          lowercased,           \* ... and the lower case of each
          Unacceptable,         \* other characters
          asciiIDNAIdentifier,  \* "xn--"
          Addresses,            \* IP addresses
          Inputs                \* what to verify: hostname, address and certificate

asciiPeriod == "."
asciiAsterisk == "*"

ASSUME CharactersAssumption ==
    /\ lowercased \in [Letters -> Letters]
    /\ \A c \in Letters : lowercased[lowercased[c]] = lowercased[c]
    /\ {asciiPeriod, asciiAsterisk} \cap (Letters \cup Unacceptable) = {}
    /\ Letters \cap Unacceptable = {}
    /\ asciiIDNAIdentifier \in Seq(Letters)

Characters == Letters \cup Unacceptable \cup {asciiPeriod, asciiAsterisk}
Name == Seq(Characters)

\* Addresses of one family are never equal to those of the other; a Unix domain
\* socket has none, and an iPAddress may be of neither length.
SocketAddress == [family : {"v4", "v6", "unix"}, ip : Addresses]
SubjectAlternativeName == [nameType : {"dnsName", "ipAddress", "email"}, contents : Name,
                           family : {"v4", "v6", "malformed"}, ip : Addresses]

\* The hostname is a sequence of at most one name.
ASSUME InputsAssumption ==
    \A i \in Inputs : /\ i.hostname \in Seq(Name) /\ Len(i.hostname) <= 1
                      /\ i.address \in SocketAddress
                      /\ i.sans \in Seq(SubjectAlternativeName)
                      /\ i.commonNames \in Seq(Name)

-----------------------------------------------------------------------------
Lower(s) == [i \in 1..Len(s) |-> IF s[i] \in Letters THEN lowercased[s[i]] ELSE s[i]]
caseInsensitiveElementsEqual(s, t) == Lower(s) = Lower(t)

isValidDNSName(s) == \A i \in 1..Len(s) : s[i] \in Letters \cup {asciiPeriod}

WithoutTrailingPeriod(s) ==
    IF s # <<>> /\ s[Len(s)] = asciiPeriod THEN SubSeq(s, 1, Len(s) - 1) ELSE s

\* firstIndex(of:), past the end if there is none.
FirstIndex(c, s) ==
    LET is == {i \in 1..Len(s) : s[i] = c}
    IN  IF is = {} THEN Len(s) + 1 ELSE CHOOSE i \in is : \A j \in is : i <= j

\* splitAroundIndex.
Before(s, i) == SubSeq(s, 1, i - 1)
After(s, i) == SubSeq(s, i + 1, Len(s))

Prefix(s, n) == SubSeq(s, 1, IF n < Len(s) THEN n ELSE Len(s))
Suffix(s, n) == SubSeq(s, (IF n < Len(s) THEN Len(s) - n ELSE 0) + 1, Len(s))

-----------------------------------------------------------------------------
(***************************************************************************)
(* AnalysedCertificateHostname.  One asterisk is allowed, before the first *)
(* period, and not in an IDNA label.                                       *)
(***************************************************************************)
IsWildcard(name) == FirstIndex(asciiAsterisk, name) <= Len(name)

Analysable(name) ==
    LET asterisk == FirstIndex(asciiAsterisk, name)
    IN  /\ \A i \in 1..Len(name) : i # asterisk => name[i] \in Letters \cup {asciiPeriod}
        /\ IsWildcard(name) =>
               /\ asterisk < FirstIndex(asciiPeriod, name)
               /\ ~caseInsensitiveElementsEqual(Prefix(name, Len(asciiIDNAIdentifier)),
                                                asciiIDNAIdentifier)

\* Mutant of MatchesWildcard: the asterisk may stand for nothing, or for less.
MatchesWildcardShort(name, target) ==
    LET label  == Before(name, FirstIndex(asciiPeriod, name))
        first  == Before(target, FirstIndex(asciiPeriod, target))
        prefix == Before(label, FirstIndex(asciiAsterisk, label))
        suffix == After(label, FirstIndex(asciiAsterisk, label))
    IN  /\ caseInsensitiveElementsEqual(After(name, FirstIndex(asciiPeriod, name)),
                                        After(target, FirstIndex(asciiPeriod, target)))
        /\ caseInsensitiveElementsEqual(Prefix(first, Len(prefix)), prefix)
        /\ caseInsensitiveElementsEqual(Suffix(first, Len(suffix)), suffix)

MatchesWildcard(name, target) ==
    LET label  == Before(name, FirstIndex(asciiPeriod, name))
        first  == Before(target, FirstIndex(asciiPeriod, target))
        prefix == Before(label, FirstIndex(asciiAsterisk, label))
        suffix == After(label, FirstIndex(asciiAsterisk, label))
    IN  /\ caseInsensitiveElementsEqual(After(name, FirstIndex(asciiPeriod, name)),
                                        After(target, FirstIndex(asciiPeriod, target)))
        /\ Len(first) >= Len(label)
        /\ caseInsensitiveElementsEqual(Prefix(first, Len(prefix)), prefix)
        /\ caseInsensitiveElementsEqual(Suffix(first, Len(suffix)), suffix)

validMatchForName(name, target) ==
    IF IsWildcard(name) THEN MatchesWildcard(name, target)
    ELSE caseInsensitiveElementsEqual(name, target)

matchHostname(hostname, dnsName) ==
    LET name == WithoutTrailingPeriod(dnsName)
    IN  /\ hostname # <<>>
        /\ Analysable(name)
        /\ validMatchForName(name, WithoutTrailingPeriod(Lower(hostname[1])))

matchIpAddress(address, san) ==
    address.family = san.family /\ san.family \in {"v4", "v6"} /\ address.ip = san.ip

MatchesName(input, san) ==
    \/ san.nameType = "dnsName" /\ matchHostname(input.hostname, san.contents)
    \/ san.nameType = "ipAddress" /\ matchIpAddress(input.address, san)

\* commonName: the last one counts.
MatchesCommonName(input) ==
    /\ input.commonNames # <<>>
    /\ matchHostname(input.hostname, input.commonNames[Len(input.commonNames)])

-----------------------------------------------------------------------------
VARIABLES input,
          next,     \* the alternative name the loop looks at next
          verdict   \* "none" yet, "valid", "invalid", or what is thrown
vars == <<input, next, verdict>>

Init == input \in Inputs /\ next = 1 /\ verdict = "none"

serverHostnameImpossibleToMatch ==
    /\ verdict = "none" /\ next = 1
    /\ input.hostname # <<>> /\ ~isValidDNSName(input.hostname[1])
    /\ verdict' = "impossible" /\ UNCHANGED <<input, next>>

Checks == verdict = "none" /\ (input.hostname # <<>> => isValidDNSName(input.hostname[1]))

\* Mutant of CheckName: every other name is looked at.
CheckNameSkipping ==
    /\ Checks /\ next <= Len(input.sans)
    /\ verdict' = IF MatchesName(input, input.sans[next]) THEN "valid" ELSE "none"
    /\ next' = next + 2 /\ UNCHANGED input

\* A turn of the loop over the alternative names.
CheckName ==
    /\ Checks /\ next <= Len(input.sans)
    /\ verdict' = IF MatchesName(input, input.sans[next]) THEN "valid" ELSE "none"
    /\ next' = next + 1 /\ UNCHANGED input

\* Mutant of AfterNames: the common name is looked at in any case.
AfterNamesFalling == IF MatchesCommonName(input) THEN "valid" ELSE "invalid"

\* checkedMatch: any alternative name, of whatever type, rules the common name out.
AfterNames == IF input.sans = <<>> /\ MatchesCommonName(input) THEN "valid" ELSE "invalid"

CheckCommonName ==
    /\ Checks /\ next = Len(input.sans) + 1
    /\ verdict' = AfterNames /\ UNCHANGED <<input, next>>

Next == serverHostnameImpossibleToMatch \/ CheckName \/ CheckCommonName

Spec == Init /\ [][Next]_vars

-----------------------------------------------------------------------------
\* The loop stays within the alternative names, and there are four verdicts.
TypeOK == /\ next \in 1..(Len(input.sans) + 1)
          /\ verdict \in {"none", "valid", "invalid", "impossible"}

SomeNameMatches == \E i \in 1..Len(input.sans) : MatchesName(input, input.sans[i])

\* There is no alternative name "that we could validate against (either IP or
\* hostname)".
NoCheckableName ==
    \A i \in 1..Len(input.sans) : input.sans[i].nameType \notin {"dnsName", "ipAddress"}

\* A matching alternative name is decisive wherever it stands among the others,
\* and so is a matching last common name where there are none; and nothing else
\* is accepted, in particular no common name beside a host name or an address.
\* (Beside names of other types only, see CommonNameFallback.)
Decision ==
    /\ verdict = "valid" => SomeNameMatches \/ (NoCheckableName /\ MatchesCommonName(input))
    /\ verdict = "invalid" => ~SomeNameMatches /\ ~(input.sans = <<>> /\ MatchesCommonName(input))

(***************************************************************************)
(* What a name in a certificate stands for, without a word about labels,   *)
(* prefixes and suffixes: itself, or if there is an asterisk in its first  *)
(* label, every name with a period-free and non-empty text in its place.   *)
(***************************************************************************)
StandsFor(name, target) ==
    LET asterisks == {i \in 1..Len(name) : name[i] = asciiAsterisk}
        wellFormed == \A i \in 1..Len(name) : name[i] \notin Unacceptable
        text(i, k) == SubSeq(target, i, i + k - 1)
    IN  /\ wellFormed
        /\ \/ asterisks = {} /\ Lower(name) = target
           \/ \E i \in asterisks, k \in 1..Len(target) :
                  /\ asterisks = {i}
                  /\ i + k - 1 <= Len(target)
                  /\ \A j \in 1..k : text(i, k)[j] # asciiPeriod
                  /\ \A j \in 1..(i - 1) : name[j] # asciiPeriod
                  /\ Lower(Prefix(name, Len(asciiIDNAIdentifier))) # Lower(asciiIDNAIdentifier)
                  /\ Lower(Before(name, i)) \o text(i, k) \o Lower(After(name, i)) = target

\* A name of the certificate matches the hostname exactly if it stands for it, a
\* trailing period of either apart and in any case of letters: no wildcard spans
\* two labels, stands for nothing or lets its two sides overlap.  (Of two periods
\* at the end, an empty label, the second is lost behind a wildcard.)
MatchIsSubstitution ==
    LET Root(s) == Len(s) > 1 /\ s[Len(s)] = asciiPeriod /\ s[Len(s) - 1] = asciiPeriod
    IN  \A h \in {input.hostname[i] : i \in 1..Len(input.hostname)} :
            isValidDNSName(h) /\ ~Root(h) =>
                \A i \in 1..Len(input.sans) : ~Root(input.sans[i].contents) =>
                    (matchHostname(input.hostname, input.sans[i].contents) <=>
                         StandsFor(WithoutTrailingPeriod(input.sans[i].contents),
                                   WithoutTrailingPeriod(Lower(h))))

-----------------------------------------------------------------------------
(***************************************************************************)
(* What the source says of itself and does not keep.                       *)
(***************************************************************************)
\* validIdentityForService: "If there are no SAN fields to validate against, we'll
\* check commonName", those being the ones with an IP or a hostname.
CommonNameFallback == verdict = "invalid" => ~(NoCheckableName /\ MatchesCommonName(input))
=============================================================================
