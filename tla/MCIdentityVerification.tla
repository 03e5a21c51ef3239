----------------------- MODULE MCIdentityVerification -----------------------
(***************************************************************************)
(* Every name of up to four characters against every hostname of up to     *)
(* three; and certificates with several names of all kinds.                *)
(***************************************************************************)
EXTENDS IdentityVerification, TLC

MCLetters == {"a", "A", "-"}
MCLowercased == [c \in MCLetters |-> IF c = "A" THEN "a" ELSE c]
MCIDNA == <<"a", "-">>

Names(characters, n) == UNION {[1..k -> characters] : k \in 0..n}

San(type, name, family, ip) == [nameType |-> type, contents |-> name, family |-> family, ip |-> ip]
DNS(name) == San("dnsName", name, "malformed", 1)
IP(family, ip) == San("ipAddress", <<>>, family, ip)

SingleNames ==
    {[hostname |-> <<h>>, address |-> [family |-> "unix", ip |-> 1], sans |-> <<DNS(n)>>,
      commonNames |-> <<>>] :
        h \in Names({"a", "-", "."}, 3), n \in Names(MCLetters \cup {".", "*"}, 4)}

SomeNames == {DNS(<<"A">>), DNS(<<"_">>), DNS(<<"*", "*">>), San("email", <<"a">>, "v4", 1),
              IP("v4", 1), IP("v6", 1), IP("v6", 2), IP("malformed", 1)}

Certificates ==
    {[hostname |-> h, address |-> [family |-> f, ip |-> 1], sans |-> s, commonNames |-> c] :
        h \in {<<>>, <<<<"a">>>>, <<<<"A", ".">>>>, <<<<"_">>>>},
        f \in {"v4", "v6", "unix"},
        s \in UNION {[1..k -> SomeNames] : k \in 0..2},
        c \in {<<>>, <<<<"a">>>>, <<<<"a">>, <<"-">>>>, <<<<"-">>, <<"a">>>>}}

MCInputs == SingleNames \cup Certificates
=============================================================================
