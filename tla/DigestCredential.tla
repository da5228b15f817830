-------------------------- MODULE DigestCredential --------------------------
(***************************************************************************)
(* What the credentials of a DigestSession say: the parsing of a challenge *)
(* (digestauth/www_authenticate.go), and the authorization that is made,   *)
(* refreshed and printed (digestauth/authorization.go).  Strings and their *)
(* digests are terms: two are equal if they were made of the same things.  *)
(***************************************************************************)
EXTENDS DigestSession

CONSTANTS
  Targets,  \* what a request may be for: user, password, method and URI as one
  Offers,   \* the lists of qop values, as sets, that a challenge may offer
  QopFirst  \* the build reads a.Qop before it calls computeA2, in one expression

ASSUME QopFirstAssumption == QopFirst \in BOOLEAN

VARIABLES
  target,  \* target[c]: what c's DigestRequest is for
  asked,   \* asked[c]: what the challenge last answered says
  wa,      \* wa[c]: dr.Wa, as the code has parsed it
  ah       \* ah[c]: the authorization last made, dr.Auth once it is kept

credentialVars == <<sessionVars, target, asked, wa, ah>>

\* Algorithms with and without -sess; MD5 and SHA-256 need no distinction.
Directives == [sess : BOOLEAN, qop : Offers, userhash : BOOLEAN]
NoWa       == [sess |-> FALSE, qop |-> {}, userhash |-> FALSE]

\* The expressions for userhash and stale want a quotation mark behind one letter,
\* and match no challenge.
newWwwAuthenticate(directives) == [directives EXCEPT !.userhash = FALSE]

\* The authorization that newAuthorization refreshes for the first time.
Unused(nonce, challenge) ==
  [nonce |-> nonce, nc |-> 0, sess |-> challenge.sess, userhash |-> challenge.userhash,
   cnonce |-> <<>>, qop |-> "", user |-> <<>>, uri |-> <<>>, response |-> <<>>]

CredentialInit ==
  /\ SessionInit
  /\ target \in [Calls -> Targets]
  /\ asked = [c \in Calls |-> NoWa] /\ wa = asked
  /\ ah = [c \in Calls |-> Unused(0, NoWa)]

hash(text) == <<"hash", text>>

\* time.Now() in it makes it new each time.
Cnonce(c) == hash(<<target[c], sends[c]>>)

Username(c, userhash) ==
  IF userhash THEN hash(<<target[c], "realm">>) ELSE target[c]

Payload(c) == <<target[c], body[c]>>

computeA1(a) ==
  LET secret == <<a.user, "realm", "password">>
  IN IF a.sess THEN <<hash(secret), a.nonce, a.cnonce>> ELSE secret

\* The qop that computeA2 decides for: auth-int wherever it is offered, auth if it
\* is all that is offered or if nothing is, and otherwise what it was.
Chosen(a, offered) ==
  CASE "auth-int" \in offered  -> "auth-int"
    [] offered \in {{}, {"auth"}} -> "auth"
    [] OTHER -> a.qop

computeA2(a, offered, payload) ==
  CASE "auth-int" \in offered  -> <<a.uri, hash(payload)>>
    [] offered \in {{}, {"auth"}} -> <<a.uri>>
    [] OTHER -> <<>>

\* a.Qop is an operand beside the call of computeA2, which assigns it: Go leaves
\* open whether it is read before or after, and the go compiler reads it after.
computeResponse(a, offered, payload) ==
  hash(<<hash(computeA1(a)), a.nonce, a.nc, a.cnonce,
         IF QopFirst THEN a.qop ELSE Chosen(a, offered),
         hash(computeA2(a, offered, payload))>>)

\* The response comes last, and with it the qop that was decided for.
Responded(c, a, challenge) ==
  [a EXCEPT !.qop = Chosen(a, challenge.qop),
            !.response = computeResponse(a, challenge.qop, Payload(c))]

\* Mutant of refreshAuthorization: the response is computed before the URI is set.
refreshAuthorizationEarly(c, a, challenge) ==
  LET b == [a EXCEPT !.user = Username(c, a.userhash), !.nc = @ + 1,
                     !.cnonce = Cnonce(c)]
  IN [Responded(c, b, challenge) EXCEPT !.uri = target[c]]

refreshAuthorization(c, a, challenge) ==
  Responded(c, [a EXCEPT !.user = Username(c, a.userhash), !.nc = @ + 1,
                         !.cnonce = Cnonce(c), !.uri = target[c]], challenge)

newAuthorization(c, nonce, challenge) ==
  refreshAuthorization(c, Unused(nonce, challenge), challenge)

\* Empty fields are not printed: of a refreshed one qop and nonce may be.
Empty(a) == {f \in {"qop"} : a.qop = ""} \cup {f \in {"nonce"} : a.nonce = 0}

toString(a) == [f \in DOMAIN a \ Empty(a) |-> a[f]]

(***************************************************************************)
(* The steps of DigestSession, and what they do to credentials.            *)
(***************************************************************************)
Reauthorize(c) ==
  /\ Execute(c)
  /\ IF auth'[c] # auth[c]
     THEN ah' = [ah EXCEPT ![c] = refreshAuthorization(c, ah[c], wa[c])]
     ELSE UNCHANGED ah
  /\ UNCHANGED <<target, asked, wa>>

\* executeNewDigest: the challenge is parsed and its authorization made.
Authorize(c) ==
  /\ Answer(c)
  /\ \E directives \in Directives :
       LET challenge == newWwwAuthenticate(directives)
       IN /\ asked' = [asked EXCEPT ![c] = directives]
          /\ wa' = [wa EXCEPT ![c] = challenge]
          /\ ah' = [ah EXCEPT ![c] = newAuthorization(c, reply[c].nonce, challenge)]
  /\ UNCHANGED <<executions, target>>

Retarget(c) ==
  /\ executions[c] > 0
  /\ UpdateRequest(c)
  /\ \E t \in Targets : target' = [target EXCEPT ![c] = t]
  /\ UNCHANGED <<executions, asked, wa, ah>>

CredentialStep(c) ==
  \/ Reauthorize(c) \/ Authorize(c) \/ Retarget(c)
  \/ /\ \/ Unanswerable(c) \/ Deliver(c) \/ Fail(c) \/ Consume(c) \/ Service(c, Statuses)
     /\ UNCHANGED <<executions, target, asked, wa, ah>>

CredentialNext == \E c \in Calls : CredentialStep(c)

CredentialSpec == CredentialInit /\ [][CredentialNext]_credentialVars

(***************************************************************************)
(* Properties.                                                             *)
(***************************************************************************)
\* What a service computes of a credential as it is printed, the password of its user
\* and the request that brought it (RFC 2617, 3.2.2.1, with the session key of a -sess
\* algorithm made of the credential's own client nonce).
Named(printed) == IF "nonce" \in DOMAIN printed THEN printed.nonce ELSE 0

Expected(printed, t, payload) ==
  LET secret == <<t, "realm", "password">>
      A1 == IF printed.sess
            THEN <<hash(secret), Named(printed), printed.cnonce>> ELSE secret
      A2 == IF printed.qop = "auth-int" THEN <<t, hash(payload)>> ELSE <<t>>
  IN hash(<<hash(A1), Named(printed), printed.nc, printed.cnonce, printed.qop, hash(A2)>>)

\* The offers that computeA2 has a case for: not one of auth beside something other
\* than auth-int, nor one of neither.
Understood(offered) == "auth-int" \in offered \/ offered \in {{}, {"auth"}}

\* Every credential that is sent, the first for its nonce and those refreshed later,
\* answers the challenge as the service sent it, for the very request it goes with:
\* nonce, count, user, URI and body are right, although the DigestRequest may have been
\* given others since the challenge; -sess is as in the challenge, and the qop is the
\* stronger one that was offered.  Excepted are offers that the code does not
\* understand; one of nothing is answered with qop=auth, which a service that knows no
\* qop has to put up with (authorization.go:104); and whether the user was to be hashed,
\* which the code never finds out (www_authenticate.go:72), is not asked.  It takes a build that reads a.Qop after the
\* call of computeA2 beside it (authorization.go:58-79).
AnswersChallenge ==
  \A c \in Calls : exchange[c] = "answer" /\ Understood(asked[c].qop) =>
    LET printed == toString(ah[c]) IN
    /\ Last(header[c]) = [nonce |-> Named(printed), nc |-> printed.nc]
    /\ printed.user = target[c] /\ printed.uri = target[c] /\ printed.sess = asked[c].sess
    /\ printed.qop = IF "auth-int" \in asked[c].qop THEN "auth-int" ELSE "auth"
    /\ printed.response = Expected(printed, target[c], Payload(c))

=============================================================================
