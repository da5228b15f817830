------------------------ MODULE DigestSessionProofs ------------------------
(***************************************************************************)
(* What DigestSession promises, for every number of requests, every kind   *)
(* of challenge and every service.                                         *)
(***************************************************************************)
EXTENDS DigestSession, FiniteSetTheorems, SequenceTheorems, TLAPS

(***************************************************************************)
(* The inductive invariant.                                                *)
(***************************************************************************)
Credential == [nonce : Nat, nc : Nat]
Request    == [seq : Nat, auths : Seq(Credential), body : BOOLEAN]
Reply      == [status : Nat, challenge : ChallengeKinds \cup {"none"}, nonce : Nat]
Outcome    == [kind : {"none", "error", "panic", "response"}, status : Nat]

\* DigestTypeOK leaves out that wire and executions are functions, and is spread
\* over the requests by Numbered.
Typed ==
  /\ unread \in [Calls -> BOOLEAN] /\ body \in [Calls -> BOOLEAN]
  /\ header \in [Calls -> Seq(Credential)] /\ auth \in [Calls -> Credential]
  /\ exchange \in [Calls -> {"none", "probe", "answer"}]
  /\ wire \in [Calls -> SUBSET Request] /\ reply \in [Calls -> Reply]
  /\ outcome \in [Calls -> Outcome] /\ open \in [Calls -> Nat]
  /\ sends \in [Calls -> Nat] /\ handled \in [Calls -> Nat]
  /\ executions \in [Calls -> Nat]

\* A DigestRequest that was never executed is as NewRequest left it.
Untouched(c) ==
  executions[c] = 0 => /\ unread[c] = TRUE /\ auth[c] = NoAuth
                       /\ exchange[c] = "none" /\ outcome[c] = NoOutcome

\* What is under way has no outcome yet, what is not has no reply, and the one
\* response that is open is the one Execute returned.
OneExchange(c) ==
  /\ exchange[c] = "none" => reply[c] = NoReply
  /\ exchange[c] # "none" => outcome[c] = NoOutcome
  /\ open[c] = IF outcome[c].kind = "response" THEN 1 ELSE 0

\* Only the first Execute finds the body elsewhere than in dr.Body.
Whole(c) ==
  /\ executions[c] > 0 => body[c] = TRUE
  /\ \A r \in wire[c] : r.body = TRUE

\* Requests are numbered as they are sent, and a challenge names the request that is
\* being challenged: its nonce, if it has one, is newer than any in the header.
Numbered(c) ==
  /\ \A r \in wire[c] : r.seq \in 1..sends[c]
  /\ \A i \in 1..Len(header[c]) : header[c][i].nonce < sends[c]
  /\ auth[c].nonce <= sends[c]
  /\ reply[c].challenge = "usable" => reply[c].nonce = sends[c]
  /\ reply[c].challenge = "nonceless" => reply[c].nonce = 0

\* No nonce count beyond a's goes with a's nonce, if it has one.
Latest(c, a) ==
  a.nonce # 0 => \A i \in 1..Len(header[c]) :
    header[c][i].nonce = a.nonce => header[c][i].nc <= a.nc

\* No two credentials of h name the same nonce with the same count.
Distinct(h) ==
  \A i, j \in DOMAIN h : i # j /\ h[i].nonce # 0 => h[i] # h[j]

\* The credential kept, and the one under way, are the latest for their nonce.
Fresh(c) ==
  /\ Distinct(header[c])
  /\ exchange[c] = "probe" => auth[c] = NoAuth
  /\ exchange[c] = "answer" => header[c] # <<>> /\ Latest(c, Last(header[c]))
  /\ exchange[c] = "answer" /\ auth[c] # NoAuth => Last(header[c]) = auth[c]
  /\ auth[c] # NoAuth => Latest(c, auth[c])

\* A probe that was challenged, whose answer is still to be sent.
Due(c) == IF exchange[c] = "probe" /\ reply[c].status = 401 THEN 1 ELSE 0

\* Every Execute has been carried out, or is on the wire once, or owes its answer.
Budget(c) ==
  /\ IsFiniteSet(wire[c])
  /\ handled[c] + Cardinality(wire[c]) + Due(c) <= executions[c]

CallInv(c) ==
  Untouched(c) /\ OneExchange(c) /\ Whole(c) /\ Numbered(c) /\ Fresh(c) /\ Budget(c)

SessionInv == Typed /\ \A c \in Calls : CallInv(c)

\* The state of one DigestRequest, on which its CallInv depends.
Same(c) ==
  /\ unread'[c] = unread[c] /\ body'[c] = body[c] /\ header'[c] = header[c]
  /\ auth'[c] = auth[c] /\ exchange'[c] = exchange[c] /\ wire'[c] = wire[c]
  /\ reply'[c] = reply[c] /\ outcome'[c] = outcome[c] /\ open'[c] = open[c]
  /\ sends'[c] = sends[c] /\ handled'[c] = handled[c]
  /\ executions'[c] = executions[c]

\* A DigestRequest that a step does not concern keeps its part of the invariant.
LEMMA SameInv ==
  ASSUME NEW c \in Calls, CallInv(c), Same(c)
  PROVE  CallInv(c)'
<1>1. Untouched(c)' /\ OneExchange(c)' /\ Whole(c)' /\ Numbered(c)'
  BY DEF CallInv, Same, Untouched, OneExchange, Whole, Numbered, NoReply, NoOutcome, NoAuth
<1>2. Fresh(c)'
  BY DEF CallInv, Same, Fresh, Latest, Distinct, NoAuth, Last
<1>3. Budget(c)'
  BY DEF CallInv, Same, Budget, Due
<1> QED BY <1>1, <1>2, <1>3 DEF CallInv

\* Before the first Execute there is nothing to keep.
LEMMA InitInv == SessionInit => SessionInv
<1> SUFFICES ASSUME SessionInit PROVE SessionInv
  OBVIOUS
<1> USE DEF SessionInit, DigestInit
<1>1. Typed
  BY EmptySeq DEF Typed, Credential, Request, Reply, Outcome, NoAuth, NoReply, NoOutcome
<1>2. ASSUME NEW c \in Calls PROVE CallInv(c)
  <2>1. Untouched(c) /\ OneExchange(c) /\ Whole(c)
    BY DEF Untouched, OneExchange, Whole, NoOutcome
  <2>2. /\ Len(header[c]) = 0 /\ wire[c] = {} /\ reply[c].challenge = "none"
        /\ auth[c].nonce = 0 /\ sends[c] = 0
    BY DEF NoReply, NoAuth
  <2>3. Numbered(c) /\ Fresh(c)
    BY <2>2 DEF Numbered, Fresh, Distinct
  <2>4. Budget(c)
    BY <2>2, FS_EmptySet DEF Budget, Due
  <2> QED BY <2>1, <2>3, <2>4 DEF CallInv
<1> QED BY <1>1, <1>2 DEF SessionInv

(***************************************************************************)
(* Sending.                                                                *)
(***************************************************************************)
\* What Send makes of the state of c.
Sent(c, leg, auths, payload) ==
  /\ exchange'[c] = leg /\ header'[c] = auths /\ sends'[c] = sends[c] + 1
  /\ wire'[c] = wire[c] \cup {[seq |-> sends[c] + 1, auths |-> auths, body |-> payload]}

\* The variables that Send assigns keep their types, and are as Sent says.
LEMMA SendEffect ==
  ASSUME Typed, NEW c \in Calls, NEW leg \in {"probe", "answer"},
         NEW auths \in Seq(Credential), NEW payload \in BOOLEAN,
         Send(c, leg, auths, payload)
  PROVE  /\ Sent(c, leg, auths, payload)
         /\ exchange' \in [Calls -> {"none", "probe", "answer"}]
         /\ header' \in [Calls -> Seq(Credential)]
         /\ sends' \in [Calls -> Nat]
         /\ wire' \in [Calls -> SUBSET Request]
<1>1. [seq |-> sends[c] + 1, auths |-> auths, body |-> payload] \in Request
  BY DEF Typed, Request
<1> QED BY <1>1 DEF Typed, Send, Sent

\* A request is numbered anew, and the numbers it was given before stay in bounds.
LEMMA SentNumbered ==
  ASSUME Typed, NEW c \in Calls, Numbered(c), NEW leg \in {"probe", "answer"},
         NEW auths \in Seq(Credential), NEW payload \in BOOLEAN,
         Sent(c, leg, auths, payload),
         \A i \in 1..Len(auths) : auths[i].nonce <= sends[c],
         auth'[c] \in Credential, auth'[c].nonce <= sends[c],
         reply'[c] = NoReply
  PROVE  Numbered(c)'
<1>1. \A r \in wire'[c] : r.seq \in 1..sends'[c]
  BY DEF Typed, Sent, Numbered
<1>2. ASSUME NEW i \in 1..Len(header'[c]) PROVE header'[c][i].nonce < sends'[c]
  <2>1. i \in 1..Len(auths) /\ auths[i] \in Credential
    BY ElementOfSeq DEF Sent
  <2> QED BY <2>1 DEF Sent, Credential, Typed
<1>3. auth'[c].nonce <= sends'[c]
  BY DEF Sent, Credential, Typed
<1> QED BY <1>1, <1>2, <1>3 DEF Numbered, NoReply

\* A request more on the wire is what Execute, or the challenge, has paid for.
LEMMA SentBudget ==
  ASSUME Typed, NEW c \in Calls, Budget(c), NEW leg, NEW auths, NEW payload,
         Sent(c, leg, auths, payload), handled'[c] = handled[c],
         reply'[c] = NoReply, executions'[c] \in Nat,
         executions'[c] + Due(c) >= executions[c] + 1
  PROVE  Budget(c)'
<1> DEFINE r == [seq |-> sends[c] + 1, auths |-> auths, body |-> payload]
<1>1. IsFiniteSet(wire'[c]) /\ Cardinality(wire'[c]) <= Cardinality(wire[c]) + 1
  <2>1. IsFiniteSet(wire[c]) /\ wire'[c] = wire[c] \cup {r}
    BY DEF Budget, Sent
  <2>2. Cardinality(wire[c]) \in Nat
    BY <2>1, FS_CardinalityType
  <2>3. /\ IsFiniteSet(wire[c] \cup {r})
        /\ \/ Cardinality(wire[c] \cup {r}) = Cardinality(wire[c])
           \/ Cardinality(wire[c] \cup {r}) = Cardinality(wire[c]) + 1
    BY <2>1, FS_AddElement
  <2> QED BY <2>1, <2>2, <2>3
<1>2. Due(c)' = 0
  BY DEF Due, NoReply
<1>3. /\ Cardinality(wire[c]) \in Nat /\ Cardinality(wire'[c]) \in Nat
      /\ handled[c] \in Nat /\ executions[c] \in Nat /\ Due(c) \in {0, 1}
  BY <1>1, FS_CardinalityType DEF Budget, Typed, Due
<1> QED BY <1>1, <1>2, <1>3 DEF Budget

\* A credential that is newer than those of its nonce, if it has one, makes a header
\* whose last element is the latest.
LEMMA AppendFresh ==
  ASSUME NEW h \in Seq(Credential), NEW a \in Credential, Distinct(h),
         a.nonce # 0 => \A i \in 1..Len(h) : h[i].nonce = a.nonce => h[i].nc < a.nc
  PROVE  /\ Distinct(Append(h, a)) /\ Append(h, a) # <<>>
         /\ Last(Append(h, a)) = a
         /\ a.nonce # 0 => \A i \in 1..Len(Append(h, a)) :
              Append(h, a)[i].nonce = a.nonce => Append(h, a)[i].nc <= a.nc
<1> DEFINE g == Append(h, a)
<1>1. /\ g \in Seq(Credential) /\ Len(g) = Len(h) + 1 /\ g[Len(h) + 1] = a
      /\ \A i \in 1..Len(h) : g[i] = h[i]
  BY AppendProperties
<1>2. Len(h) \in Nat /\ DOMAIN h = 1..Len(h) /\ DOMAIN g = 1..(Len(h) + 1)
  BY <1>1, LenProperties
<1>3. a.nonce # 0 => \A i \in 1..Len(h) : h[i] # a
  <2> SUFFICES ASSUME a.nonce # 0, NEW i \in 1..Len(h), h[i] = a PROVE FALSE
    OBVIOUS
  <2>1. a.nc \in Nat /\ a.nc < a.nc
    BY DEF Credential
  <2> QED BY <2>1
<1>4. Distinct(g)
  <2> SUFFICES ASSUME NEW i \in 1..(Len(h) + 1), NEW j \in 1..(Len(h) + 1), i # j,
                      g[i].nonce # 0
               PROVE  g[i] # g[j]
    BY <1>2 DEF Distinct
  <2>1. CASE i \in 1..Len(h) /\ j \in 1..Len(h)
    BY <2>1, <1>1, <1>2 DEF Distinct
  <2>2. CASE i = Len(h) + 1
    <3>1. j \in 1..Len(h) /\ g[i] = a /\ g[j] = h[j]
      BY <2>2, <1>1, <1>2
    <3> QED BY <3>1, <1>3
  <2>3. CASE j = Len(h) + 1
    <3>1. i \in 1..Len(h) /\ g[j] = a /\ g[i] = h[i]
      BY <2>3, <1>1, <1>2
    <3> QED BY <3>1, <1>3
  <2> QED BY <2>1, <2>2, <2>3, <1>2
<1>5. a.nonce # 0 => \A i \in 1..Len(g) : g[i].nonce = a.nonce => g[i].nc <= a.nc
  <2> SUFFICES ASSUME a.nonce # 0, NEW i \in 1..(Len(h) + 1), g[i].nonce = a.nonce
               PROVE  g[i].nc <= a.nc
    BY <1>1
  <2>1. CASE i \in 1..Len(h)
    <3>1. g[i] = h[i] /\ h[i] \in Credential
      BY <2>1, <1>1, ElementOfSeq
    <3> QED BY <2>1, <3>1 DEF Credential
  <2>2. CASE i = Len(h) + 1
    BY <2>2, <1>1 DEF Credential
  <2> QED BY <2>1, <2>2, <1>2
<1>6. g # <<>> /\ Last(g) = a
  BY <1>1, <1>2 DEF Last
<1> QED BY <1>4, <1>5, <1>6

\* The nonces in the header have been seen before.
LEMMA HeaderSeen ==
  ASSUME Typed, NEW c \in Calls, Numbered(c), NEW i \in 1..Len(header[c])
  PROVE  header[c][i] \in Credential /\ header[c][i].nonce <= sends[c]
<1>1. header[c][i] \in Credential
  BY ElementOfSeq DEF Typed
<1> QED BY <1>1 DEF Numbered, Typed, Credential

\* They still have been when a credential with such a nonce is added.
LEMMA AppendSeen ==
  ASSUME Typed, NEW c \in Calls, Numbered(c),
         NEW a \in Credential, a.nonce <= sends[c],
         NEW i \in 1..Len(Append(header[c], a))
  PROVE  Append(header[c], a)[i].nonce <= sends[c]
<1>1. header[c] \in Seq(Credential)
  BY DEF Typed
<1>2. CASE i \in 1..Len(header[c])
  BY <1>1, <1>2, AppendProperties, HeaderSeen
<1>3. CASE i = Len(header[c]) + 1
  BY <1>1, <1>3, AppendProperties
<1> QED BY <1>1, <1>2, <1>3, AppendProperties, LenProperties

(***************************************************************************)
(* The calls of Execute.                                                   *)
(***************************************************************************)
\* What Execute does besides sending: the parts of the state that it leaves alone.
Executed(c) ==
  /\ executions' = [executions EXCEPT ![c] = @ + 1]
  /\ UNCHANGED <<reply, outcome, open, handled>>

\* A probe is paid for by its Execute, and finds nothing under way.
LEMMA ProbeInv ==
  ASSUME SessionInv, NEW c \in Calls, Ready(c), Executed(c),
         Send(c, "probe", header[c], TRUE), body'[c] = TRUE, auth'[c] = NoAuth,
         unread' \in [Calls -> BOOLEAN], body' \in [Calls -> BOOLEAN],
         auth' \in [Calls -> Credential]
  PROVE  Typed' /\ CallInv(c)'
<1>1. Typed /\ CallInv(c)
  BY DEF SessionInv
<1>2. header[c] \in Seq(Credential) /\ NoAuth \in Credential /\ NoAuth.nonce = 0
  BY <1>1 DEF Typed, NoAuth, Credential
<1>3. /\ Sent(c, "probe", header[c], TRUE)
      /\ exchange' \in [Calls -> {"none", "probe", "answer"}]
      /\ header' \in [Calls -> Seq(Credential)]
      /\ sends' \in [Calls -> Nat] /\ wire' \in [Calls -> SUBSET Request]
  BY <1>1, <1>2, SendEffect
<1>4. /\ reply'[c] = NoReply /\ outcome'[c] = NoOutcome /\ open'[c] = open[c]
      /\ handled'[c] = handled[c]
      /\ executions'[c] = executions[c] + 1 /\ executions'[c] \in Nat \ {0}
  BY <1>1 DEF Executed, Typed, Ready, CallInv, OneExchange
<1>5. Typed'
  BY <1>1, <1>3 DEF Typed, Executed
<1>6. Untouched(c)' /\ OneExchange(c)' /\ Whole(c)'
  BY <1>1, <1>3, <1>4 DEF Untouched, OneExchange, Whole, Sent, CallInv, Ready, NoOutcome
<1>7. Numbered(c)'
  <2>1. sends[c] \in Nat /\ auth'[c] \in Credential /\ auth'[c].nonce <= sends[c]
    BY <1>1, <1>2 DEF Typed
  <2>2. \A i \in 1..Len(header[c]) : header[c][i].nonce <= sends[c]
    BY <1>1, HeaderSeen DEF CallInv
  <2> QED BY <1>1, <1>2, <1>3, <1>4, <2>1, <2>2, SentNumbered DEF CallInv
<1>8. Fresh(c)'
  BY <1>1, <1>3, <1>4 DEF Fresh, Sent, CallInv
<1>9. Budget(c)'
  <2>1. executions'[c] \in Nat /\ executions'[c] + Due(c) >= executions[c] + 1
    BY <1>1, <1>4 DEF Due, Typed
  <2> QED BY <1>1, <1>3, <1>4, <2>1, SentBudget DEF CallInv
<1> QED BY <1>5, <1>6, <1>7, <1>8, <1>9 DEF CallInv

\* The first Execute sends a probe with the caller's body and header.
LEMMA RoundTripInv ==
  ASSUME SessionInv, NEW c \in Calls, RoundTrip(c), executions[c] = 0,
         executions' = [executions EXCEPT ![c] = @ + 1]
  PROVE  Typed' /\ CallInv(c)'
<1>1. Typed /\ Ready(c) /\ unread[c] = TRUE
  BY DEF SessionInv, RoundTrip, CallInv, Untouched
<1>2. Executed(c) /\ Send(c, "probe", header[c], TRUE)
  BY <1>1 DEF RoundTrip, Executed
<1>3. /\ body'[c] = TRUE /\ auth'[c] = NoAuth
      /\ unread' \in [Calls -> BOOLEAN] /\ body' \in [Calls -> BOOLEAN]
      /\ auth' \in [Calls -> Credential]
  <2>1. NoAuth \in Credential
    BY DEF NoAuth, Credential
  <2> QED BY <1>1, <2>1 DEF RoundTrip, Typed
<1> QED BY <1>1, <1>2, <1>3, ProbeInv

\* A later one without a credential sends one with the body of the last UpdateRequest.
LEMMA ExecuteUnknownInv ==
  ASSUME SessionInv, NEW c \in Calls, ExecuteUnknown(c), executions[c] > 0,
         executions' = [executions EXCEPT ![c] = @ + 1]
  PROVE  Typed' /\ CallInv(c)'
<1>1. Typed /\ Ready(c) /\ auth[c] = NoAuth /\ body[c] = TRUE
  BY DEF SessionInv, ExecuteUnknown, CallInv, Whole
<1>2. Executed(c) /\ Send(c, "probe", header[c], TRUE)
  BY <1>1 DEF ExecuteUnknown, Executed
<1>3. /\ body'[c] = TRUE /\ auth'[c] = NoAuth
      /\ unread' \in [Calls -> BOOLEAN] /\ body' \in [Calls -> BOOLEAN]
      /\ auth' \in [Calls -> Credential]
  BY <1>1 DEF ExecuteUnknown, Typed
<1> QED BY <1>1, <1>2, <1>3, ProbeInv

\* An Execute with one refreshes it, and its new count is beyond all others.
LEMMA ExecuteExistingInv ==
  ASSUME SessionInv, NEW c \in Calls, ExecuteExisting(c), executions[c] > 0,
         executions' = [executions EXCEPT ![c] = @ + 1]
  PROVE  Typed' /\ CallInv(c)'
<1> DEFINE a == Refreshed(c)
<1> DEFINE h == Append(header[c], a)
<1>1. Typed /\ CallInv(c) /\ Ready(c) /\ auth[c] # NoAuth /\ body[c] = TRUE
  BY DEF SessionInv, ExecuteExisting, CallInv, Whole
<1>2. /\ header[c] \in Seq(Credential) /\ auth[c] \in Credential /\ a \in Credential
      /\ a.nonce = auth[c].nonce /\ a.nc = auth[c].nc + 1 /\ auth[c].nc \in Nat
  <2>1. header[c] \in Seq(Credential) /\ auth[c] \in Credential
    BY <1>1 DEF Typed
  <2>2. a = [auth[c] EXCEPT !.nc = @ + 1]
    BY DEF Refreshed
  <2> QED BY <2>1, <2>2 DEF Credential
<1>3. h \in Seq(Credential)
  BY <1>2, AppendProperties
<1>4. /\ Sent(c, "answer", h, TRUE)
      /\ exchange' \in [Calls -> {"none", "probe", "answer"}]
      /\ header' \in [Calls -> Seq(Credential)]
      /\ sends' \in [Calls -> Nat] /\ wire' \in [Calls -> SUBSET Request]
  <2>1. Send(c, "answer", h, TRUE)
    BY <1>1 DEF ExecuteExisting, ExecuteRequest
  <2> HIDE DEF h
  <2> QED BY <1>1, <1>3, <2>1, SendEffect
<1>5. /\ body'[c] = TRUE /\ auth'[c] = a /\ reply'[c] = NoReply
      /\ outcome'[c] = NoOutcome /\ open'[c] = open[c] /\ handled'[c] = handled[c]
      /\ executions'[c] = executions[c] + 1 /\ executions'[c] \in Nat \ {0}
  BY <1>1 DEF ExecuteExisting, Typed, Ready, CallInv, OneExchange
<1>6. Typed'
  BY <1>1, <1>2, <1>4 DEF Typed, ExecuteExisting
<1>7. Untouched(c)' /\ OneExchange(c)' /\ Whole(c)'
  BY <1>1, <1>4, <1>5 DEF Untouched, OneExchange, Whole, Sent, CallInv, Ready, NoOutcome
<1>8. /\ Distinct(h) /\ h # <<>> /\ Last(h) = a
      /\ a.nonce # 0 =>
           \A i \in 1..Len(h) : h[i].nonce = a.nonce => h[i].nc <= a.nc
  <2>1. Distinct(header[c])
    BY <1>1 DEF CallInv, Fresh
  <2>2. ASSUME a.nonce # 0, NEW i \in 1..Len(header[c]), header[c][i].nonce = a.nonce
        PROVE  header[c][i].nc < a.nc
    <3>1. header[c][i] \in Credential
      BY <1>2, ElementOfSeq
    <3>2. header[c][i].nc <= auth[c].nc
      BY <1>1, <1>2, <2>2 DEF CallInv, Fresh, Latest
    <3> QED BY <1>2, <3>1, <3>2 DEF Credential
  <2> HIDE DEF a
  <2> QED BY <1>2, <2>1, <2>2, AppendFresh
<1> HIDE DEF h, a
<1>9. Fresh(c)'
  BY <1>4, <1>5, <1>8 DEF Fresh, Latest, Sent
<1>10. Numbered(c)'
  <2>1. a.nonce <= sends[c]
    BY <1>1, <1>2 DEF CallInv, Numbered
  <2>2. \A i \in 1..Len(h) : h[i].nonce <= sends[c]
    BY <1>1, <1>2, <2>1, AppendSeen DEF CallInv, h
  <2> QED BY <1>1, <1>2, <1>3, <1>4, <1>5, <2>1, <2>2, SentNumbered DEF CallInv
<1>11. Budget(c)'
  <2>1. executions'[c] \in Nat /\ executions'[c] + Due(c) >= executions[c] + 1
    BY <1>1, <1>5 DEF Due, Typed
  <2> QED BY <1>1, <1>4, <1>5, <2>1, SentBudget DEF CallInv
<1> QED BY <1>6, <1>7, <1>9, <1>10, <1>11 DEF CallInv

\* The answer to a challenge: its nonce is new, and the probe is off the wire.
LEMMA AnswerInv ==
  ASSUME SessionInv, NEW c \in Calls, Answer(c), UNCHANGED executions
  PROVE  Typed' /\ CallInv(c)'
<1> DEFINE a == [nonce |-> reply[c].nonce, nc |-> 1]
<1> DEFINE h == Append(header[c], a)
<1>1. /\ Typed /\ CallInv(c) /\ exchange[c] = "probe" /\ reply[c].status = 401
      /\ reply[c].challenge \in Answerable /\ executions[c] > 0
  BY DEF SessionInv, Answer, Challenged, CallInv, Untouched, Typed
<1>2. /\ header[c] \in Seq(Credential) /\ a \in Credential /\ a.nonce \in {0, sends[c]}
      /\ a.nc = 1 /\ sends[c] \in Nat /\ auth[c] = NoAuth
      /\ body[c] = TRUE /\ outcome[c] = NoOutcome
  BY <1>1 DEF Typed, Reply, Credential, CallInv, Numbered, Fresh, Whole, OneExchange,
              Answerable
<1>3. h \in Seq(Credential)
  BY <1>2, AppendProperties
<1>4. /\ Sent(c, "answer", h, TRUE)
      /\ exchange' \in [Calls -> {"none", "probe", "answer"}]
      /\ header' \in [Calls -> Seq(Credential)]
      /\ sends' \in [Calls -> Nat] /\ wire' \in [Calls -> SUBSET Request]
  <2>1. Send(c, "answer", h, TRUE)
    BY <1>2 DEF Answer, ExecuteRequest
  <2>2. Typed
    BY <1>1
  <2> HIDE DEF h
  <2> QED BY <1>3, <2>1, <2>2, SendEffect
<1>5. /\ body'[c] = TRUE /\ auth'[c] = NoAuth /\ reply'[c] = NoReply
      /\ outcome'[c] = NoOutcome /\ open'[c] = open[c] /\ handled'[c] = handled[c]
      /\ executions'[c] = executions[c]
  BY <1>1, <1>2 DEF Answer, Typed
<1>6. Typed'
  <2>1. NoReply \in Reply
    BY DEF NoReply, Reply
  <2> QED BY <1>1, <1>4, <2>1 DEF Typed, Answer
<1>7. Untouched(c)' /\ OneExchange(c)' /\ Whole(c)'
  BY <1>1, <1>2, <1>4, <1>5 DEF Untouched, OneExchange, Whole, Sent, CallInv, NoOutcome
<1>8. /\ Distinct(h) /\ h # <<>> /\ Last(h) = a
      /\ a.nonce # 0 =>
           \A i \in 1..Len(h) : h[i].nonce = a.nonce => h[i].nc <= a.nc
  <2>1. Distinct(header[c])
    BY <1>1 DEF CallInv, Fresh
  <2>2. ASSUME a.nonce # 0, NEW i \in 1..Len(header[c])
        PROVE  header[c][i].nonce # a.nonce
    <3>1. header[c][i] \in Credential
      BY <1>2, ElementOfSeq
    <3> QED BY <1>1, <1>2, <2>2, <3>1 DEF CallInv, Numbered, Credential
  <2> HIDE DEF a
  <2> QED BY <1>2, <2>1, <2>2, AppendFresh
<1> HIDE DEF h, a
<1>9. Fresh(c)'
  BY <1>4, <1>5, <1>8 DEF Fresh, Latest, Sent
<1>10. Numbered(c)'
  <2>1. /\ a.nonce <= sends[c]
        /\ auth'[c] \in Credential /\ auth'[c].nonce <= sends[c]
    BY <1>2, <1>5 DEF NoAuth, Credential
  <2>2. \A i \in 1..Len(h) : h[i].nonce <= sends[c]
    BY <1>1, <1>2, <2>1, AppendSeen DEF CallInv, h
  <2> QED BY <1>1, <1>2, <1>3, <1>4, <1>5, <2>1, <2>2, SentNumbered DEF CallInv
<1>11. Budget(c)'
  <2>1. Due(c) = 1 /\ executions[c] \in Nat
    BY <1>1 DEF Due, Typed
  <2>2. executions'[c] \in Nat /\ executions'[c] + Due(c) >= executions[c] + 1
    BY <1>5, <2>1
  <2> QED BY <1>1, <1>4, <1>5, <2>2, SentBudget DEF CallInv
<1> QED BY <1>6, <1>7, <1>9, <1>10, <1>11 DEF CallInv

(***************************************************************************)
(* The ends of an Execute, and what its caller does then.                  *)
(***************************************************************************)
\* Whatever Execute returns, nothing stays under way, and the credential that is kept
\* is the latest for its nonce.
LEMMA FinishInv ==
  ASSUME SessionInv, NEW c \in Calls, exchange[c] # "none", UNCHANGED executions,
         NEW result \in Outcome, Finish(c, result),
         open' \in [Calls -> Nat],
         open'[c] = IF result.kind = "response" THEN 1 ELSE 0,
         auth' \in [Calls -> Credential], auth'[c].nonce <= sends[c],
         auth'[c] # NoAuth => Latest(c, auth'[c])
  PROVE  Typed' /\ CallInv(c)'
<1>1. Typed /\ CallInv(c) /\ executions[c] > 0
  BY DEF SessionInv, CallInv, Untouched, Typed
<1>2. /\ exchange'[c] = "none" /\ reply'[c] = NoReply /\ outcome'[c] = result
      /\ body'[c] = body[c] /\ header'[c] = header[c] /\ wire'[c] = wire[c]
      /\ sends'[c] = sends[c] /\ handled'[c] = handled[c]
      /\ executions'[c] = executions[c]
  BY <1>1 DEF Finish, Typed
<1>3. Typed'
  <2>1. NoReply \in Reply
    BY DEF NoReply, Reply
  <2> QED BY <1>1, <2>1 DEF Typed, Finish
<1>4. Untouched(c)' /\ OneExchange(c)' /\ Whole(c)'
  BY <1>1, <1>2 DEF Untouched, OneExchange, Whole, CallInv
<1>5. Numbered(c)'
  BY <1>1, <1>2 DEF Numbered, CallInv, NoReply
<1>6. Fresh(c)'
  BY <1>1, <1>2 DEF Fresh, Latest, CallInv
<1>7. Budget(c)'
  <2>1. Due(c)' = 0 /\ Due(c) \in {0, 1}
    BY <1>2 DEF Due
  <2>2. Cardinality(wire[c]) \in Nat /\ handled[c] \in Nat /\ executions[c] \in Nat
    BY <1>1, FS_CardinalityType DEF CallInv, Budget, Typed
  <2> QED BY <1>1, <1>2, <2>1, <2>2 DEF CallInv, Budget
<1> QED BY <1>3, <1>4, <1>5, <1>6, <1>7 DEF CallInv

\* An error, from the network or from a challenge that cannot be answered, leaves
\* the credential alone and nothing open.
LEMMA FailedInv ==
  ASSUME SessionInv, NEW c \in Calls, UNCHANGED executions, Unanswerable(c) \/ Fail(c)
  PROVE  Typed' /\ CallInv(c)'
<1>1. Typed /\ CallInv(c) /\ exchange[c] # "none"
  BY DEF SessionInv, Unanswerable, Fail, Challenged, Arrived
<1>2. PICK result \in {Failed, Panicked} :
        Finish(c, result) /\ UNCHANGED <<auth, open>>
  BY DEF Unanswerable, Fail
<1>3. result \in Outcome /\ result.kind # "response"
  BY <1>2 DEF Failed, Panicked, Outcome
<1>4. /\ open' \in [Calls -> Nat] /\ open'[c] = 0
      /\ auth' \in [Calls -> Credential] /\ auth'[c].nonce <= sends[c]
      /\ auth'[c] # NoAuth => Latest(c, auth'[c])
  BY <1>1, <1>2 DEF Typed, CallInv, OneExchange, NoOutcome, Numbered, Fresh
<1> QED BY <1>1, <1>2, <1>3, <1>4, FinishInv

\* A response leaves itself open, and the credential that was answered is kept.
LEMMA DeliverInv ==
  ASSUME SessionInv, NEW c \in Calls, UNCHANGED executions, Deliver(c)
  PROVE  Typed' /\ CallInv(c)'
<1> DEFINE result == Response(reply[c].status)
<1>1. Typed /\ CallInv(c) /\ exchange[c] # "none" /\ Finish(c, result)
  BY DEF SessionInv, Deliver, Arrived
<1>2. result \in Outcome /\ result.kind = "response"
  <2>1. reply[c].status \in Nat
    BY <1>1 DEF Typed, Reply
  <2> QED BY <2>1 DEF Response, Outcome
<1>3. open' \in [Calls -> Nat] /\ open'[c] = 1
  <2>1. open[c] = 0
    BY <1>1 DEF CallInv, OneExchange, NoOutcome
  <2> QED BY <1>1, <2>1 DEF Deliver, Typed
<1>4. /\ auth' \in [Calls -> Credential] /\ auth'[c].nonce <= sends[c]
      /\ auth'[c] # NoAuth => Latest(c, auth'[c])
  <2>1. CASE exchange[c] = "answer"
    <3>1. header[c] \in Seq(Credential) /\ header[c] # <<>> /\ Latest(c, Last(header[c]))
      BY <1>1, <2>1 DEF Typed, CallInv, Fresh
    <3>2. Len(header[c]) \in 1..Len(header[c])
      BY <3>1, EmptySeq, LenProperties
    <3>3. Last(header[c]) \in Credential /\ Last(header[c]).nonce <= sends[c]
      BY <1>1, <3>2, HeaderSeen DEF Last, CallInv
    <3>4. auth' = [auth EXCEPT ![c] = Last(header[c])]
      BY <2>1 DEF Deliver
    <3> QED BY <1>1, <3>1, <3>3, <3>4 DEF Typed
  <2>2. CASE exchange[c] # "answer"
    <3>1. auth' = auth
      BY <2>2 DEF Deliver
    <3> QED BY <1>1, <3>1 DEF Typed, CallInv, Numbered, Fresh
  <2> QED BY <2>1, <2>2
<1> HIDE DEF result
<1> QED BY <1>1, <1>2, <1>3, <1>4, FinishInv

\* The caller closes what Execute returned.
LEMMA ConsumeInv ==
  ASSUME SessionInv, NEW c \in Calls, UNCHANGED executions, Consume(c)
  PROVE  Typed' /\ CallInv(c)'
<1>1. Typed /\ CallInv(c) /\ outcome[c].kind \in {"response", "error"}
  BY DEF SessionInv, Consume
<1>2. /\ outcome'[c] = NoOutcome /\ exchange[c] = "none" /\ executions[c] > 0
      /\ unread'[c] = unread[c] /\ body'[c] = body[c] /\ header'[c] = header[c]
      /\ auth'[c] = auth[c] /\ exchange'[c] = exchange[c] /\ wire'[c] = wire[c]
      /\ reply'[c] = reply[c] /\ sends'[c] = sends[c] /\ handled'[c] = handled[c]
      /\ executions'[c] = executions[c]
  BY <1>1 DEF Consume, Typed, CallInv, OneExchange, Untouched, NoOutcome
<1>3. open' \in [Calls -> Nat] /\ open'[c] = 0
  <2>1. CASE outcome[c].kind = "response"
    <3>1. open' = [open EXCEPT ![c] = @ - 1] /\ open[c] = 1
      BY <1>1, <2>1 DEF Consume, Closed, CallInv, OneExchange
    <3> QED BY <1>1, <3>1 DEF Typed
  <2>2. CASE outcome[c].kind # "response"
    <3>1. open' = open /\ open[c] = 0
      BY <1>1, <2>2 DEF Consume, Closed, CallInv, OneExchange
    <3> QED BY <1>1, <3>1 DEF Typed
  <2> QED BY <2>1, <2>2
<1>4. Typed'
  <2>1. NoOutcome \in Outcome
    BY DEF NoOutcome, Outcome
  <2> QED BY <1>1, <1>3, <2>1 DEF Typed, Consume
<1>5. Untouched(c)' /\ OneExchange(c)' /\ Whole(c)' /\ Numbered(c)'
  BY <1>1, <1>2, <1>3 DEF Untouched, OneExchange, Whole, Numbered, CallInv, NoOutcome
<1>6. Fresh(c)'
  BY <1>1, <1>2 DEF Fresh, Latest, CallInv
<1>7. Budget(c)'
  BY <1>1, <1>2 DEF CallInv, Budget, Due
<1> QED BY <1>4, <1>5, <1>6, <1>7 DEF CallInv

\* A new request comes with its body, and with the header of the last or an empty one.
LEMMA UpdateRequestInv ==
  ASSUME SessionInv, NEW c \in Calls, UNCHANGED executions, executions[c] > 0,
         UpdateRequest(c)
  PROVE  Typed' /\ CallInv(c)'
<1>1. Typed /\ CallInv(c) /\ Ready(c)
  BY DEF SessionInv, UpdateRequest
<1>2. /\ unread'[c] = unread[c] /\ outcome'[c] = outcome[c] /\ open'[c] = open[c]
      /\ auth'[c] = auth[c] /\ exchange'[c] = exchange[c] /\ wire'[c] = wire[c]
      /\ reply'[c] = reply[c] /\ sends'[c] = sends[c] /\ handled'[c] = handled[c]
      /\ executions'[c] = executions[c] /\ header' \in [Calls -> Seq(Credential)]
  BY <1>1, EmptySeq DEF UpdateRequest, Typed
<1>3. Typed'
  BY <1>1, <1>2 DEF Typed, UpdateRequest
<1>4. body'[c] = TRUE
  BY <1>1 DEF UpdateRequest, Typed
<1>5. Untouched(c)' /\ OneExchange(c)' /\ Whole(c)'
  BY <1>1, <1>2, <1>4 DEF Untouched, OneExchange, Whole, CallInv
<1>6. header'[c] = header[c] \/ (header'[c] = <<>> /\ Len(header'[c]) = 0)
  BY <1>1, EmptySeq DEF UpdateRequest, Typed
<1>7. Numbered(c)'
  BY <1>1, <1>2, <1>6 DEF Numbered, CallInv
<1>8. Fresh(c)'
  <2>1. Distinct(header'[c])
    BY <1>1, <1>6 DEF CallInv, Fresh, Distinct
  <2>2. exchange'[c] = "none"
    BY <1>1, <1>2 DEF Ready
  <2>3. auth'[c] # NoAuth => Latest(c, auth[c])'
    BY <1>1, <1>2, <1>6 DEF CallInv, Fresh, Latest
  <2> QED BY <2>1, <2>2, <2>3 DEF Fresh
<1>9. Budget(c)'
  BY <1>1, <1>2 DEF CallInv, Budget, Due
<1> QED BY <1>3, <1>5, <1>7, <1>8, <1>9 DEF CallInv

(***************************************************************************)
(* The service.                                                            *)
(***************************************************************************)
\* Taking up a request spends what it was paid for: on its execution if it is carried
\* out, and on the answer that a challenge makes due.
LEMMA RespondInv ==
  ASSUME SessionInv, NEW c \in Calls, UNCHANGED executions,
         NEW r \in wire[c], NEW response \in Reply, Respond(c, r, response),
         response.challenge = "usable" => response.nonce = r.seq,
         response.challenge = "nonceless" => response.nonce = 0,
         handled' \in [Calls -> Nat],
         \/ handled'[c] = handled[c]
         \/ handled'[c] = handled[c] + 1 /\ response.status # 401
  PROVE  Typed' /\ CallInv(c)'
<1>1. Typed /\ CallInv(c)
  BY DEF SessionInv
<1>2. /\ unread'[c] = unread[c] /\ body'[c] = body[c] /\ header'[c] = header[c]
      /\ auth'[c] = auth[c] /\ exchange'[c] = exchange[c] /\ outcome'[c] = outcome[c]
      /\ open'[c] = open[c] /\ sends'[c] = sends[c] /\ executions'[c] = executions[c]
      /\ wire'[c] = wire[c] \ {r}
  BY <1>1 DEF Respond, Typed
<1>3. \/ reply'[c] = reply[c]
      \/ reply'[c] = response /\ exchange[c] # "none" /\ r.seq = sends[c]
  BY <1>1 DEF Respond, Typed
<1>4. Typed'
  BY <1>1 DEF Typed, Respond
<1>5. Untouched(c)' /\ OneExchange(c)' /\ Whole(c)'
  BY <1>1, <1>2, <1>3 DEF Untouched, OneExchange, Whole, CallInv
<1>6. Numbered(c)'
  BY <1>1, <1>2, <1>3 DEF Numbered, CallInv
<1>7. Fresh(c)'
  BY <1>1, <1>2 DEF Fresh, Latest, CallInv
<1>8. Budget(c)'
  <2>1. IsFiniteSet(wire'[c]) /\ Cardinality(wire'[c]) = Cardinality(wire[c]) - 1
    <3>1. IsFiniteSet(wire[c]) /\ wire'[c] = wire[c] \ {r}
      BY <1>1, <1>2 DEF CallInv, Budget
    <3> QED BY <3>1, FS_RemoveElement
  <2>2. Due(c)' \in {0, 1} /\ Due(c) \in {0, 1}
    BY DEF Due
  <2>3. response.status # 401 => Due(c)' <= Due(c)
    BY <1>2, <1>3 DEF Due
  <2>4. /\ Cardinality(wire[c]) \in Nat /\ Cardinality(wire'[c]) \in Nat
        /\ handled[c] \in Nat /\ handled'[c] \in Nat /\ executions[c] \in Nat
    BY <1>1, <2>1, FS_CardinalityType DEF CallInv, Budget, Typed
  <2>5. handled'[c] + Cardinality(wire'[c]) + Due(c)'
          <= handled[c] + Cardinality(wire[c]) + Due(c)
    BY <2>1, <2>2, <2>3, <2>4
  <2>6. handled'[c] + Cardinality(wire'[c]) + Due(c)' <= executions'[c]
    BY <1>1, <1>2, <2>2, <2>4, <2>5 DEF CallInv, Budget
  <2> QED BY <2>1, <2>6 DEF Budget
<1> QED BY <1>4, <1>5, <1>6, <1>7, <1>8 DEF CallInv

\* A challenge carries nothing out.
LEMMA ChallengeInv ==
  ASSUME SessionInv, NEW c \in Calls, UNCHANGED executions,
         NEW r \in wire[c], NEW kind \in Challenges, Challenge(c, r, kind)
  PROVE  Typed' /\ CallInv(c)'
<1> DEFINE response == [status |-> 401, challenge |-> kind,
                        nonce |-> IF kind = "nonceless" THEN 0 ELSE r.seq]
<1>1. Typed /\ Respond(c, r, response) /\ handled' = handled
  BY DEF SessionInv, Challenge
<1>2. /\ response \in Reply
      /\ response.challenge = "usable" => response.nonce = r.seq
      /\ response.challenge = "nonceless" => response.nonce = 0
  <2>1. r.seq \in Nat /\ kind \in ChallengeKinds
    BY <1>1, ChallengesAssumption DEF Typed, Request
  <2> QED BY <2>1 DEF Reply
<1>3. handled' \in [Calls -> Nat] /\ handled'[c] = handled[c]
  BY <1>1 DEF Typed
<1> HIDE DEF response
<1> QED BY <1>1, <1>2, <1>3, RespondInv

\* Another response does so at most once.
LEMMA ServeInv ==
  ASSUME SessionInv, NEW c \in Calls, UNCHANGED executions,
         NEW r \in wire[c], NEW status \in Statuses, NEW effect \in BOOLEAN,
         Serve(c, r, status, effect)
  PROVE  Typed' /\ CallInv(c)'
<1> DEFINE response == [status |-> status, challenge |-> "none", nonce |-> 0]
<1>1. Typed /\ Respond(c, r, response)
  BY DEF SessionInv, Serve
<1>2. response \in Reply /\ response.challenge = "none" /\ response.status # 401
  <2>1. status \in Nat /\ status # 401
    BY StatusesAssumption
  <2> QED BY <2>1 DEF Reply
<1>3. /\ handled' \in [Calls -> Nat]
      /\ handled'[c] = handled[c] \/ handled'[c] = handled[c] + 1
  <2>1. CASE effect
    <3>1. handled' = [handled EXCEPT ![c] = @ + 1]
      BY <2>1 DEF Serve
    <3>2. handled \in [Calls -> Nat]
      BY <1>1 DEF Typed
    <3> QED BY <3>1, <3>2
  <2>2. CASE ~effect
    BY <1>1, <2>2 DEF Serve, Typed
  <2> QED BY <2>1, <2>2
<1> HIDE DEF response
<1> QED BY <1>1, <1>2, <1>3, RespondInv

(***************************************************************************)
(* Every step, and the specification.                                      *)
(***************************************************************************)
\* A step of one DigestRequest leaves the others as they were.
LEMMA OthersSame ==
  ASSUME SessionInv, NEW c \in Calls, SessionStep(c), NEW d \in Calls, d # c
  PROVE  Same(d)
<1> USE DEF SessionInv, Typed, Same
<1>1. CASE Execute(c)
  <2>1. executions'[d] = executions[d]
    BY <1>1 DEF Execute
  <2>2. CASE RoundTrip(c)
    BY <2>1, <2>2 DEF RoundTrip, Send
  <2>3. CASE ExecuteExisting(c)
    BY <2>1, <2>3 DEF ExecuteExisting, ExecuteRequest, Send
  <2>4. CASE ExecuteUnknown(c)
    BY <2>1, <2>4 DEF ExecuteUnknown, Send
  <2> QED BY <1>1, <2>2, <2>3, <2>4 DEF Execute
<1>2. CASE Answer(c) /\ UNCHANGED executions
  BY <1>2 DEF Answer, ExecuteRequest, Send
<1>3. CASE (Unanswerable(c) \/ Deliver(c) \/ Fail(c)) /\ UNCHANGED executions
  BY <1>3 DEF Unanswerable, Deliver, Fail, Finish
<1>4. CASE (Consume(c) \/ UpdateRequest(c)) /\ UNCHANGED executions
  BY <1>4 DEF Consume, Closed, UpdateRequest
<1>5. CASE Service(c, Statuses) /\ UNCHANGED executions
  BY <1>5 DEF Service, Challenge, Serve, Respond
<1> QED BY <1>1, <1>2, <1>3, <1>4, <1>5 DEF SessionStep

\* A step of one DigestRequest keeps the invariant of that one.
LEMMA StepInv ==
  ASSUME SessionInv, NEW c \in Calls, SessionStep(c)
  PROVE  Typed' /\ CallInv(c)'
<1>1. CASE Execute(c)
  BY <1>1, RoundTripInv, ExecuteExistingInv, ExecuteUnknownInv DEF Execute
<1>2. CASE UNCHANGED executions /\ (Answer(c) \/ Unanswerable(c) \/ Deliver(c) \/ Fail(c))
  BY <1>2, AnswerInv, FailedInv, DeliverInv
<1>3. CASE UNCHANGED executions /\ (Consume(c) \/ (executions[c] > 0 /\ UpdateRequest(c)))
  BY <1>3, ConsumeInv, UpdateRequestInv
<1>4. CASE UNCHANGED executions /\ Service(c, Statuses)
  BY <1>4, ChallengeInv, ServeInv DEF Service
<1> QED BY <1>1, <1>2, <1>3, <1>4 DEF SessionStep

\* Every step keeps the invariant.
LEMMA NextInv == SessionInv /\ [SessionNext]_sessionVars => SessionInv'
<1> SUFFICES ASSUME SessionInv, [SessionNext]_sessionVars PROVE SessionInv'
  OBVIOUS
<1>1. CASE SessionNext
  <2>1. PICK c \in Calls : SessionStep(c)
    BY <1>1 DEF SessionNext
  <2>2. Typed' /\ CallInv(c)'
    BY <2>1, StepInv
  <2>3. ASSUME NEW d \in Calls, d # c PROVE CallInv(d)'
    BY <2>1, <2>3, OthersSame, SameInv DEF SessionInv
  <2> QED BY <2>2, <2>3 DEF SessionInv
<1>2. CASE UNCHANGED sessionVars
  <2>1. Typed'
    BY <1>2 DEF SessionInv, Typed, sessionVars, digestVars
  <2>2. ASSUME NEW d \in Calls PROVE CallInv(d)'
    <3>1. Same(d)
      BY <1>2 DEF Same, sessionVars, digestVars
    <3> QED BY <3>1, SameInv DEF SessionInv
  <2> QED BY <2>1, <2>2 DEF SessionInv
<1> QED BY <1>1, <1>2

\* The invariant holds throughout.
THEOREM Invariance == SessionSpec => []SessionInv
BY InitInv, NextInv, PTL DEF SessionSpec

\* Every variable of the handshake keeps its type, and no request on the wire has a
\* number that was not given out.
THEOREM TypeCorrect == SessionSpec => []DigestTypeOK
<1>1. SessionInv => DigestTypeOK
  <2> SUFFICES ASSUME SessionInv PROVE DigestTypeOK
    OBVIOUS
  <2>1. ASSUME NEW c \in Calls, NEW r \in wire[c]
        PROVE  r \in [seq : 1..sends[c], auths : Seq(Credential), body : BOOLEAN]
    <3>1. r \in Request /\ r.seq \in 1..sends[c]
      BY DEF SessionInv, Typed, CallInv, Numbered
    <3> QED BY <3>1 DEF Request
  <2> QED BY <2>1 DEF SessionInv, Typed, DigestTypeOK, Credential, Reply, Outcome
<1> QED BY <1>1, Invariance, PTL

\* No two credentials of a request name the same nonce with the same count, however
\* often the DigestRequest is executed and updated, whichever of its answers fail, and
\* whichever challenges come without a nonce.
THEOREM Freshness == SessionSpec => []FreshCredentials
<1>1. SessionInv => FreshCredentials
  BY DEF SessionInv, CallInv, Fresh, Distinct, FreshCredentials
<1> QED BY <1>1, Invariance, PTL

\* An Execute is carried out at most once, by however many requests the service takes
\* up late.
THEOREM Once == SessionSpec => []OncePerExecution
<1>1. SessionInv => OncePerExecution
  <2> SUFFICES ASSUME SessionInv, NEW c \in Calls PROVE handled[c] <= executions[c]
    BY DEF OncePerExecution
  <2>1. Cardinality(wire[c]) \in Nat /\ Due(c) \in {0, 1}
    BY FS_CardinalityType DEF SessionInv, CallInv, Budget, Due
  <2>2. handled[c] \in Nat /\ executions[c] \in Nat
    BY DEF SessionInv, Typed
  <2>3. handled[c] + Cardinality(wire[c]) + Due(c) <= executions[c]
    BY DEF SessionInv, CallInv, Budget
  <2> QED BY <2>1, <2>2, <2>3
<1> QED BY <1>1, Invariance, PTL

\* Both requests of every handshake carry the whole body.
THEOREM BodiesWhole == SessionSpec => []WholeBody
<1>1. SessionInv => WholeBody
  BY DEF SessionInv, CallInv, Whole, WholeBody
<1> QED BY <1>1, Invariance, PTL

\* The caller has exactly the response it was given to close.
THEOREM Closing == SessionSpec => []OneToClose
<1>1. SessionInv => OneToClose
  BY DEF SessionInv, CallInv, OneExchange, OneToClose
<1> QED BY <1>1, Invariance, PTL

\* No step takes an authenticated DigestRequest to another nonce.
THEOREM NonceStays == SessionSpec => NonceKept
<1>1. SessionInv /\ [SessionNext]_sessionVars =>
        [\A c \in Calls : auth[c] # NoAuth => auth'[c].nonce = auth[c].nonce]_sessionVars
  <2> SUFFICES ASSUME SessionInv, NEW c \in Calls, SessionStep(c),
                      NEW d \in Calls, auth[d] # NoAuth
               PROVE  auth'[d].nonce = auth[d].nonce
    BY DEF SessionNext
  <2>1. CASE d # c
    BY <2>1, OthersSame DEF Same
  <2>2. CASE d = c
    <3>1. Typed /\ CallInv(d) /\ executions[d] > 0 /\ exchange[d] # "probe"
      BY DEF SessionInv, CallInv, Untouched, Fresh, Typed
    <3>2. CASE ExecuteExisting(d)
      <4>1. auth'[d] = [auth[d] EXCEPT !.nc = @ + 1] /\ auth[d] \in Credential
        BY <3>1, <3>2 DEF ExecuteExisting, Refreshed, Typed
      <4> QED BY <4>1 DEF Credential
    <3>3. CASE Deliver(d)
      BY <3>1, <3>3 DEF Deliver, CallInv, Fresh, Typed
    <3>4. CASE UNCHANGED auth
      BY <3>4
    <3> QED BY <2>2, <3>1, <3>2, <3>3, <3>4
            DEF SessionStep, Execute, ExecuteUnknown, Answer, Challenged, Unanswerable,
                Fail, Consume, UpdateRequest, Service, Challenge, Serve, Respond
  <2> QED BY <2>1, <2>2
<1> QED BY <1>1, Invariance, PTL DEF SessionSpec, NonceKept

=============================================================================
