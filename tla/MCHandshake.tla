---------------------------- MODULE MCHandshake ----------------------------
(***************************************************************************)
(* The configurations of Handshake to check: everything around version,    *)
(* group and session negotiation; everything around authentication, with   *)
(* each callback of the user; and combinations of them.                    *)
(***************************************************************************)
EXTENDS Handshake

Base == [versions |-> {12, 13}, groups |-> <<1>>, session |-> 0, resumes |-> TRUE,
         tickets |-> TRUE, cert |-> TRUE, customKey |-> FALSE, signs |-> TRUE,
         verify |-> FALSE, callback |-> FALSE, trusts |-> TRUE,
         renegotiation |-> "never", renegotiates |-> 0, verifyLater |-> FALSE,
         writes |-> 0, updates |-> 0]

Versions == {{12}, {13}, {12, 13}}

\* A client's session and whether the server accepts it.
Sessions == {<<0, FALSE>>, <<12, FALSE>>, <<12, TRUE>>, <<13, FALSE>>, <<13, TRUE>>}

\* The groups of the two: alike, in need of a HelloRetryRequest, disjoint.
Groups == {<<<<1, 2>>, <<1>>>>, <<<<1, 2>>, <<2>>>>, <<<<1>>, <<2>>>>}

Negotiation ==
    {[client |-> [Base EXCEPT !.versions = v, !.groups = g[1], !.session = s[1], !.verify = TRUE],
      server |-> [Base EXCEPT !.versions = w, !.groups = g[2], !.resumes = s[2], !.tickets = t]] :
        v \in Versions, w \in Versions, g \in Groups, s \in Sessions, t \in BOOLEAN}

\* How an endpoint judges the other: callback, trusts; how it signs: cert,
\* customKey, signs.
Judges == BOOLEAN \X BOOLEAN
Signers == {<<FALSE, FALSE, FALSE>>, <<TRUE, FALSE, TRUE>>, <<TRUE, TRUE, TRUE>>, <<TRUE, TRUE, FALSE>>}

Authentication ==
    {[client |-> [Base EXCEPT !.versions = {v}, !.cert = c[1], !.customKey = c[2], !.signs = c[3],
                              !.verify = TRUE, !.callback = j[1], !.trusts = j[2]],
      server |-> [Base EXCEPT !.verify = TRUE, !.callback = k[1], !.trusts = k[2]]] :
        v \in {12, 13}, c \in Signers, j \in Judges, k \in Judges}

\* The two versions with everything at once.
Combined ==
    {[client |-> [Base EXCEPT !.versions = {v}, !.groups = <<1, 2>>, !.session = s[1],
                              !.customKey = TRUE, !.verify = w, !.callback = TRUE, !.trusts = t],
      server |-> [Base EXCEPT !.groups = <<2>>, !.resumes = s[2], !.cert = c[1], !.customKey = c[2],
                              !.signs = c[3], !.verify = TRUE, !.callback = TRUE]] :
        v \in {12, 13}, s \in {<<0, FALSE>>, <<13, TRUE>>}, w \in BOOLEAN, t \in BOOLEAN,
        c \in Signers}

\* Clients whose key, if any, is BoringSSL's own.
Renegotiation ==
    {[client |-> [Base EXCEPT !.session = s, !.verify = TRUE, !.callback = TRUE, !.trusts = t,
                              !.renegotiation = r],
      server |-> [Base EXCEPT !.versions = {12}, !.verify = v, !.renegotiates = 2,
                              !.verifyLater = TRUE]] :
        s \in {0, 12}, r \in {"never", "once", "always"}, v \in BOOLEAN, t \in BOOLEAN}

\* Endpoints that write data, and update their keys.
DataTransfer ==
    {[client |-> [Base EXCEPT !.versions = {u[1]}, !.writes = 2, !.updates = u[2]],
      server |-> [Base EXCEPT !.writes = 2, !.updates = u[3]]] :
        u \in {<<12, 0, 0>>, <<13, 1, 1>>, <<13, 2, 0>>, <<13, 0, 2>>, <<13, 2, 1>>}}

MCConfigs == Negotiation \cup Authentication \cup Combined \cup Renegotiation \cup DataTransfer

\* Clients whose key is a NIOSSLCustomPrivateKey.
CustomKeyRenegotiation ==
    {[client |-> [Base EXCEPT !.versions = {12}, !.customKey = TRUE, !.renegotiation = "always"],
      server |-> [Base EXCEPT !.verify = TRUE, !.renegotiates = 2, !.verifyLater = l]] :
        l \in BOOLEAN}
=============================================================================
