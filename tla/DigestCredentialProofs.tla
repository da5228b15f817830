----------------------- MODULE DigestCredentialProofs -----------------------
(***************************************************************************)
(* What DigestCredential promises, for all targets, all offers of a        *)
(* challenge and every service.  It implements DigestSession, whose proofs *)
(* it builds on.                                                           *)
(***************************************************************************)
EXTENDS DigestCredential, DigestSessionProofs

(***************************************************************************)
(* The refinement.                                                         *)
(***************************************************************************)
\* A step with credentials is a step without.
LEMMA StepMaps ==
  ASSUME NEW c \in Calls, CredentialStep(c)
  PROVE  SessionStep(c)
BY DEF CredentialStep, SessionStep, Reauthorize, Authorize, Retarget

\* Whatever DigestSession promises holds with the credentials spelled out.
THEOREM Refinement == CredentialSpec => SessionSpec
<1>1. CredentialInit => SessionInit
  BY DEF CredentialInit
<1>2. [CredentialNext]_credentialVars => [SessionNext]_sessionVars
  BY StepMaps DEF CredentialNext, SessionNext, credentialVars
<1> QED BY <1>1, <1>2, PTL DEF CredentialSpec, SessionSpec

(***************************************************************************)
(* The operators on authorizations.                                        *)
(***************************************************************************)
Fields == {"nonce", "nc", "sess", "userhash", "cnonce", "qop", "user", "uri", "response"}

IsAuthorization(a) ==
  /\ a = [f \in Fields |-> a[f]]
  /\ a.nc \in Nat /\ a.userhash = FALSE

\* Printing drops an empty qop and an empty nonce, and nothing else.
LEMMA Printed ==
  ASSUME NEW a, IsAuthorization(a)
  PROVE  /\ \A f \in Fields \ {"qop", "nonce"} : toString(a)[f] = a[f]
         /\ a.qop # "" => toString(a).qop = a.qop
         /\ Named(toString(a)) = a.nonce
<1>1. DOMAIN a = Fields
  BY DEF IsAuthorization
<1>2. DOMAIN toString(a) = Fields \ Empty(a)
  BY <1>1 DEF toString
<1>3. \A f \in Fields \ Empty(a) : toString(a)[f] = a[f]
  BY <1>1 DEF toString
<1>4. \A f \in Fields \ {"qop", "nonce"} : f \notin Empty(a)
  BY DEF Empty
<1>5. a.qop # "" => "qop" \in Fields \ Empty(a)
  BY DEF Empty, Fields
<1>6. "nonce" \in Fields \ Empty(a) <=> a.nonce # 0
  BY DEF Empty, Fields
<1>7. Named(toString(a)) = a.nonce
  BY <1>2, <1>3, <1>6 DEF Named
<1> QED BY <1>3, <1>4, <1>5, <1>7

\* The qop that an understood offer leads to, whatever the authorization had before.
LEMMA ChosenOffered ==
  ASSUME NEW a, NEW offered, Understood(offered)
  PROVE  Chosen(a, offered) = IF "auth-int" \in offered THEN "auth-int" ELSE "auth"
<1>1. CASE "auth-int" \in offered
  BY <1>1 DEF Chosen
<1>2. CASE "auth-int" \notin offered
  BY <1>2 DEF Chosen, Understood
<1> QED BY <1>1, <1>2

\* What computeA2 makes of an understood offer.
LEMMA A2Offered ==
  ASSUME NEW a, NEW offered, NEW payload, Understood(offered)
  PROVE  computeA2(a, offered, payload) =
           IF "auth-int" \in offered THEN <<a.uri, hash(payload)>> ELSE <<a.uri>>
<1>1. CASE "auth-int" \in offered
  <2>1. offered \notin {{}, {"auth"}}
    BY <1>1
  <2> QED BY <1>1, <2>1 DEF computeA2
<1>2. CASE "auth-int" \notin offered
  BY <1>2 DEF computeA2, Understood
<1> QED BY <1>1, <1>2

\* The digest of an authorization under its own qop, over a payload.
Digested(a, offered, payload) ==
  hash(<<hash(computeA1(a)), a.nonce, a.nc, a.cnonce, a.qop,
         hash(computeA2(a, offered, payload))>>)

\* An authorization that was made for the request that c is sending, by a build that
\* reads a.Qop last.
MadeFor(c, a, offered) ==
  /\ a.user = target[c] /\ a.uri = target[c]
  /\ ~QopFirst /\ Understood(offered) =>
       /\ a.qop = IF "auth-int" \in offered THEN "auth-int" ELSE "auth"
       /\ a.response = Digested(a, offered, Payload(c))

\* Refreshing counts up, and decides for the qop and all that the response depends on.
LEMMA RefreshMakes ==
  ASSUME NEW c, NEW a, IsAuthorization(a), NEW challenge
  PROVE  LET b == refreshAuthorization(c, a, challenge) IN
         /\ IsAuthorization(b) /\ MadeFor(c, b, challenge.qop)
         /\ b.nonce = a.nonce /\ b.nc = a.nc + 1 /\ b.sess = a.sess
<1> DEFINE offered == challenge.qop
<1> DEFINE m == [a EXCEPT !.user = Username(c, a.userhash), !.nc = @ + 1,
                          !.cnonce = Cnonce(c), !.uri = target[c]]
<1> DEFINE b == [m EXCEPT !.qop = Chosen(m, offered),
                          !.response = computeResponse(m, offered, Payload(c))]
<1>1. /\ DOMAIN m = Fields /\ m = [f \in Fields |-> m[f]]
      /\ m.nonce = a.nonce /\ m.nc = a.nc + 1 /\ m.sess = a.sess /\ m.userhash = FALSE
      /\ m.cnonce = Cnonce(c) /\ m.user = target[c] /\ m.uri = target[c]
  BY DEF IsAuthorization, Fields, Username
<1>2. refreshAuthorization(c, a, challenge) = b
  BY DEF refreshAuthorization, Responded
<1> HIDE DEF m
<1>3. /\ b = [f \in Fields |-> b[f]]
      /\ b.nonce = m.nonce /\ b.nc = m.nc /\ b.sess = m.sess /\ b.userhash = FALSE
      /\ b.cnonce = m.cnonce /\ b.qop = Chosen(m, offered) /\ b.user = m.user
      /\ b.uri = m.uri /\ b.response = computeResponse(m, offered, Payload(c))
  BY <1>1 DEF Fields
<1> HIDE DEF b, offered
<1>4. IsAuthorization(b)
  <2>1. a.nc \in Nat /\ m.nc \in Nat
    BY <1>1 DEF IsAuthorization
  <2> QED BY <1>3, <2>1 DEF IsAuthorization
<1>5. ~QopFirst => b.response = Digested(b, offered, Payload(c))
  <2>1. computeA1(b) = computeA1(m)
    BY <1>3 DEF computeA1
  <2>2. computeA2(b, offered, Payload(c)) = computeA2(m, offered, Payload(c))
    BY <1>3 DEF computeA2
  <2> QED BY <1>3, <2>1, <2>2 DEF computeResponse, Digested
<1>6. MadeFor(c, b, offered)
  BY <1>1, <1>3, <1>5, ChosenOffered DEF MadeFor
<1> QED BY <1>1, <1>2, <1>3, <1>4, <1>6 DEF offered

(***************************************************************************)
(* The inductive invariant: the authorization is the credential's.         *)
(***************************************************************************)
\* What identifies an authorization for the service.
Nonces(a) == [nonce |-> a.nonce, nc |-> a.nc]

\* The challenge was parsed as it came, but for userhash, and the authorization belongs
\* to the credential that is kept, and to the one that is under way, made for the very
\* request it goes with.
Kept(c) ==
  /\ wa[c].qop = asked[c].qop /\ wa[c].sess = asked[c].sess
  /\ exchange[c] = "answer" \/ auth[c] # NoAuth =>
       IsAuthorization(ah[c]) /\ ah[c].sess = wa[c].sess
  /\ auth[c] # NoAuth => auth[c] = Nonces(ah[c])
  /\ exchange[c] = "answer" =>
       Last(header[c]) = Nonces(ah[c]) /\ MadeFor(c, ah[c], wa[c].qop)

CredentialInv ==
  /\ DOMAIN ah = Calls /\ DOMAIN wa = Calls /\ DOMAIN asked = Calls
  /\ DOMAIN target = Calls
  /\ \A c \in Calls : Kept(c)

\* A credential depends on no more of the state than this.
SameCredential(c) ==
  /\ ah'[c] = ah[c] /\ wa'[c] = wa[c] /\ asked'[c] = asked[c]
  /\ target'[c] = target[c] /\ auth'[c] = auth[c]
  /\ exchange'[c] = exchange[c] /\ header'[c] = header[c] /\ body'[c] = body[c]

\* A DigestRequest that a step does not concern keeps its credential.
LEMMA SameKept ==
  ASSUME NEW c \in Calls, Kept(c), SameCredential(c)
  PROVE  Kept(c)'
BY DEF Kept, SameCredential, Nonces, MadeFor, Payload, NoAuth, Last

\* One that is not awaiting an answer and has kept its authorization, too.
LEMMA IdleKept ==
  ASSUME NEW c \in Calls, Kept(c), exchange'[c] # "answer", auth'[c] = auth[c],
         ah'[c] = ah[c], wa'[c] = wa[c], asked'[c] = asked[c]
  PROVE  Kept(c)'
BY DEF Kept, Nonces, NoAuth

\* Making an authorization and sending it as the last credential keeps Kept.
LEMMA MadeKept ==
  ASSUME Typed, NEW c \in Calls, DOMAIN ah = Calls,
         NEW a, IsAuthorization(a), NEW challenge, a.sess = challenge.sess,
         ah' = [ah EXCEPT ![c] = refreshAuthorization(c, a, challenge)],
         wa'[c] = challenge, target'[c] = target[c], body'[c] = body[c],
         challenge.qop = asked'[c].qop, challenge.sess = asked'[c].sess,
         header'[c] = Append(header[c], [nonce |-> a.nonce, nc |-> a.nc + 1]),
         auth'[c] = NoAuth \/ auth'[c] = [nonce |-> a.nonce, nc |-> a.nc + 1]
  PROVE  Kept(c)'
<1> DEFINE b == refreshAuthorization(c, a, challenge)
<1>1. /\ IsAuthorization(b) /\ MadeFor(c, b, challenge.qop) /\ b.sess = challenge.sess
      /\ b.nonce = a.nonce /\ b.nc = a.nc + 1 /\ ah'[c] = b
  BY RefreshMakes
<1> HIDE DEF b
<1>2. Last(header'[c]) = Nonces(b)
  <2>1. header[c] \in Seq(Credential)
    BY DEF Typed
  <2>2. Last(Append(header[c], Nonces(b))) = Nonces(b)
    BY <2>1, AppendProperties DEF Last
  <2> QED BY <1>1, <2>2 DEF Nonces
<1>3. MadeFor(c, ah[c], wa[c].qop)'
  BY <1>1 DEF MadeFor, Payload
<1>4. auth'[c] # NoAuth => auth'[c] = Nonces(b)
  BY <1>1 DEF Nonces
<1>5. IsAuthorization(ah[c])' /\ ah'[c].sess = wa'[c].sess
  BY <1>1
<1> QED BY <1>1, <1>2, <1>3, <1>4, <1>5 DEF Kept, Nonces

\* Nothing is kept at first.
LEMMA InitCredential == CredentialInit => CredentialInv
BY DEF CredentialInit, SessionInit, DigestInit, CredentialInv, Kept

\* Execute refreshes the authorization exactly when it sends the credential anew.
LEMMA ReauthorizeKept ==
  ASSUME SessionInv, CredentialInv, NEW c \in Calls, Reauthorize(c)
  PROVE  Kept(c)' /\ DOMAIN ah' = Calls
<1>1. /\ Typed /\ Kept(c) /\ DOMAIN ah = Calls /\ wa' = wa /\ asked' = asked
      /\ target' = target
      /\ executions[c] = 0 => auth[c] = NoAuth
  BY DEF SessionInv, CallInv, Untouched, CredentialInv, Reauthorize
<1>2. CASE ExecuteExisting(c)
  <2>1. /\ auth[c] # NoAuth /\ auth[c] \in Credential
        /\ auth'[c] = Refreshed(c) /\ body' = body
        /\ header'[c] = Append(header[c], Refreshed(c))
    BY <1>1, <1>2 DEF ExecuteExisting, ExecuteRequest, Send, Typed
  <2>2. /\ IsAuthorization(ah[c]) /\ ah[c].sess = wa[c].sess
        /\ wa[c].qop = asked[c].qop /\ wa[c].sess = asked[c].sess
        /\ Refreshed(c) = [nonce |-> ah[c].nonce, nc |-> ah[c].nc + 1]
    BY <1>1, <2>1 DEF Kept, Nonces, Refreshed
  <2>3. auth'[c] # auth[c]
    <3>1. Refreshed(c).nc = auth[c].nc + 1 /\ auth[c].nc \in Nat
      BY <2>1 DEF Refreshed, Credential
    <3> QED BY <2>1, <3>1
  <2>4. ah' = [ah EXCEPT ![c] = refreshAuthorization(c, ah[c], wa[c])]
    BY <2>3 DEF Reauthorize
  <2> QED BY <1>1, <2>1, <2>2, <2>4, MadeKept
<1>3. CASE (RoundTrip(c) /\ executions[c] = 0) \/ ExecuteUnknown(c)
  <2>1. auth[c] = NoAuth /\ auth'[c] = NoAuth /\ exchange'[c] = "probe"
    BY <1>1, <1>3 DEF RoundTrip, ExecuteUnknown, Send, Typed
  <2>2. ah' = ah
    BY <2>1 DEF Reauthorize
  <2> QED BY <1>1, <2>1, <2>2, IdleKept
<1> QED BY <1>2, <1>3 DEF Reauthorize, Execute

\* A challenge is answered by an authorization that is new, like its nonce.
LEMMA AuthorizeKept ==
  ASSUME SessionInv, CredentialInv, NEW c \in Calls, Authorize(c)
  PROVE  Kept(c)' /\ DOMAIN ah' = Calls /\ DOMAIN wa' = Calls /\ DOMAIN asked' = Calls
<1>1. /\ Typed /\ DOMAIN ah = Calls /\ DOMAIN wa = Calls /\ DOMAIN asked = Calls
      /\ Answer(c) /\ target' = target /\ auth[c] = NoAuth
  BY DEF SessionInv, CallInv, Fresh, CredentialInv, Authorize, Answer, Challenged
<1>2. PICK directives \in Directives :
        /\ asked' = [asked EXCEPT ![c] = directives]
        /\ wa' = [wa EXCEPT ![c] = newWwwAuthenticate(directives)]
        /\ ah' = [ah EXCEPT ![c] =
             newAuthorization(c, reply[c].nonce, newWwwAuthenticate(directives))]
  BY DEF Authorize
<1> DEFINE challenge == newWwwAuthenticate(directives)
<1> DEFINE a == Unused(reply[c].nonce, challenge)
<1>3. /\ challenge.userhash = FALSE
      /\ challenge.qop = directives.qop /\ challenge.sess = directives.sess
  BY DEF newWwwAuthenticate, Directives
<1>4. /\ IsAuthorization(a) /\ a.sess = challenge.sess /\ a.nonce = reply[c].nonce
      /\ a.nc = 0
  <2> HIDE DEF challenge
  <2>1. /\ a.nonce = reply[c].nonce /\ a.nc = 0 /\ a.userhash = FALSE
        /\ a.sess = challenge.sess
    BY <1>3 DEF Unused
  <2>2. a = [f \in Fields |-> a[f]]
    BY DEF Unused, Fields
  <2> HIDE DEF a
  <2>3. IsAuthorization(a)
    BY <2>1, <2>2 DEF IsAuthorization
  <2> QED BY <2>1, <2>3
<1>5. ah' = [ah EXCEPT ![c] = refreshAuthorization(c, a, challenge)]
  BY <1>2 DEF newAuthorization
<1>6. /\ wa'[c] = challenge /\ target'[c] = target[c] /\ body'[c] = body[c]
      /\ asked'[c] = directives
      /\ header'[c] = Append(header[c], [nonce |-> a.nonce, nc |-> a.nc + 1])
      /\ auth'[c] = NoAuth
  BY <1>1, <1>2, <1>4 DEF Answer, ExecuteRequest, Send, Typed
<1> HIDE DEF a, challenge
<1>7. Kept(c)'
  BY <1>1, <1>3, <1>4, <1>5, <1>6, MadeKept
<1> QED BY <1>1, <1>2, <1>5, <1>7

\* The other steps leave the authorization alone, and the credential that is kept once
\* it was answered is the one it was made for.
LEMMA OtherKept ==
  ASSUME SessionInv, CredentialInv, NEW c \in Calls, UNCHANGED <<asked, wa, ah>>,
         \/ Retarget(c)
         \/ /\ Unanswerable(c) \/ Deliver(c) \/ Fail(c) \/ Consume(c)
               \/ Service(c, Statuses)
            /\ UNCHANGED target
  PROVE  Kept(c)'
<1>1. Typed /\ Kept(c)
  BY DEF SessionInv, CredentialInv
<1>2. CASE Retarget(c)
  <2>1. exchange'[c] # "answer" /\ auth'[c] = auth[c]
    BY <1>2 DEF Retarget, UpdateRequest, Ready
  <2> QED BY <1>1, <2>1, IdleKept
<1>3. CASE Unanswerable(c) \/ Fail(c)
  <2>1. exchange'[c] # "answer" /\ auth'[c] = auth[c]
    BY <1>1, <1>3 DEF Unanswerable, Fail, Finish, Typed
  <2> QED BY <1>1, <2>1, IdleKept
<1>4. CASE Deliver(c)
  <2>1. exchange'[c] = "none"
    BY <1>1, <1>4 DEF Deliver, Finish, Typed
  <2>2. CASE exchange[c] = "answer"
    <3>1. auth'[c] = Last(header[c])
      BY <1>1, <1>4, <2>2 DEF Deliver, Typed
    <3> QED BY <1>1, <2>1, <2>2, <3>1 DEF Kept, Nonces
  <2>3. CASE exchange[c] # "answer"
    <3>1. auth'[c] = auth[c]
      BY <1>4, <2>3 DEF Deliver
    <3> QED BY <1>1, <2>1, <3>1, IdleKept
  <2> QED BY <2>2, <2>3
<1>5. CASE Consume(c) /\ UNCHANGED target
  BY <1>1, <1>5, SameKept DEF SameCredential, Consume
<1>6. CASE Service(c, Statuses) /\ UNCHANGED target
  BY <1>1, <1>6, SameKept DEF SameCredential, Service, Challenge, Serve, Respond
<1> QED BY <1>2, <1>3, <1>4, <1>5, <1>6

\* Every step keeps the invariant.
LEMMA NextCredential ==
  SessionInv /\ CredentialInv /\ [CredentialNext]_credentialVars => CredentialInv'
<1> SUFFICES ASSUME SessionInv, CredentialInv, [CredentialNext]_credentialVars
             PROVE  CredentialInv'
  OBVIOUS
<1>1. CASE CredentialNext
  <2>1. PICK c \in Calls : CredentialStep(c)
    BY <1>1 DEF CredentialNext
  <2>2. Kept(c)' /\ DOMAIN ah' = Calls /\ DOMAIN wa' = Calls /\ DOMAIN asked' = Calls
    <3>1. CASE Reauthorize(c)
      BY <3>1, ReauthorizeKept DEF Reauthorize, CredentialInv
    <3>2. CASE Authorize(c)
      BY <3>2, AuthorizeKept
    <3>3. CASE ~Reauthorize(c) /\ ~Authorize(c)
      BY <2>1, <3>3, OtherKept DEF CredentialStep, Retarget, CredentialInv
    <3> QED BY <3>1, <3>2, <3>3
  <2>3. /\ DOMAIN target' = Calls
        /\ \A d \in Calls \ {c} :
             /\ ah'[d] = ah[d] /\ wa'[d] = wa[d]
             /\ asked'[d] = asked[d] /\ target'[d] = target[d]
    BY <2>1 DEF CredentialInv, CredentialStep, Reauthorize, Authorize, Retarget
  <2>4. ASSUME NEW d \in Calls, d # c PROVE Kept(d)'
    <3>1. Same(d)
      BY <2>1, <2>4, StepMaps, OthersSame
    <3>2. SameCredential(d)
      BY <2>3, <2>4, <3>1 DEF Same, SameCredential
    <3> QED BY <3>2, SameKept DEF CredentialInv
  <2> QED BY <2>2, <2>3, <2>4 DEF CredentialInv
<1>2. CASE UNCHANGED credentialVars
  <2>1. \A d \in Calls : SameCredential(d)
    BY <1>2 DEF SameCredential, credentialVars, sessionVars, digestVars
  <2> QED BY <1>2, <2>1, SameKept DEF CredentialInv, credentialVars
<1> QED BY <1>1, <1>2

\* The invariant holds throughout.
THEOREM CredentialInvariance == CredentialSpec => []CredentialInv
<1>1. CredentialSpec => []SessionInv
  BY Refinement, Invariance
<1> QED BY <1>1, InitCredential, NextCredential, PTL DEF CredentialSpec

\* Every credential that is sent for an offer the code understands, by a build that
\* reads a.Qop after it has called computeA2, answers the challenge as it came, for the
\* very request that carries it: the first for its nonce, and any refreshed after
\* UpdateRequest gave the DigestRequest another target and body.
THEOREM Answering ==
  ASSUME ~QopFirst
  PROVE  CredentialSpec => []AnswersChallenge
<1>1. CredentialInv => AnswersChallenge
  <2> SUFFICES ASSUME CredentialInv, NEW c \in Calls, exchange[c] = "answer",
                      Understood(asked[c].qop)
               PROVE
      LET printed == toString(ah[c]) IN
      /\ Last(header[c]) = [nonce |-> Named(printed), nc |-> printed.nc]
      /\ printed.user = target[c] /\ printed.uri = target[c]
      /\ printed.sess = asked[c].sess
      /\ printed.qop = IF "auth-int" \in asked[c].qop THEN "auth-int" ELSE "auth"
      /\ printed.response = Expected(printed, target[c], Payload(c))
    BY DEF AnswersChallenge
  <2> DEFINE a == ah[c]
  <2> DEFINE printed == toString(a)
  <2> DEFINE offered == asked[c].qop
  <2>1. /\ IsAuthorization(a) /\ MadeFor(c, a, offered) /\ a.sess = asked[c].sess
        /\ Last(header[c]) = Nonces(a) /\ Understood(offered)
    BY DEF CredentialInv, Kept
  <2> HIDE DEF printed, a, offered
  <2>2. /\ a.user = target[c] /\ a.uri = target[c]
        /\ a.qop = IF "auth-int" \in offered THEN "auth-int" ELSE "auth"
        /\ a.response = Digested(a, offered, Payload(c))
    BY <2>1 DEF MadeFor
  <2>3. /\ Named(printed) = a.nonce /\ printed.nc = a.nc /\ printed.sess = a.sess
        /\ printed.cnonce = a.cnonce /\ printed.response = a.response
        /\ printed.user = a.user /\ printed.uri = a.uri /\ printed.qop = a.qop
    BY <2>1, <2>2, Printed DEF Fields, printed
  <2>4. computeA2(a, offered, Payload(c)) =
          IF printed.qop = "auth-int" THEN <<target[c], hash(Payload(c))>>
          ELSE <<target[c]>>
    BY <2>1, <2>2, <2>3, A2Offered
  <2>5. Digested(a, offered, Payload(c)) = Expected(printed, target[c], Payload(c))
    BY <2>2, <2>3, <2>4 DEF Digested, Expected, computeA1
  <2> QED BY <2>1, <2>2, <2>3, <2>5 DEF Nonces, printed, a, offered
<1> QED BY <1>1, CredentialInvariance, PTL

=============================================================================
