----------------------- MODULE AtlasClientApiProofs -----------------------
(***************************************************************************)
(* The types of AtlasClient's state, what a method leaves open, how a      *)
(* deadline stops it, and that it implements ApiCall.                      *)
(***************************************************************************)
EXTENDS AtlasClientProofs, SequenceTheorems

(***************************************************************************)
(* The types.                                                              *)
(***************************************************************************)
Credential == [nonce : Nat, nc : Nat]
Message    == [seq : Nat, auths : Seq(Credential), body : BOOLEAN]
Response   == [status : Nat, challenge : Digest!ChallengeKinds \cup {"none"}, nonce : Nat]
Outcome    == [kind : {"none", "error", "panic", "response"}, status : Nat]
Told       == [kind : {"none", "success", "failure", "error", "unknown", "panic"},
               status : Nat]

DigestTyped ==
  /\ unread \in [Calls -> BOOLEAN] /\ body \in [Calls -> BOOLEAN]
  /\ header \in [Calls -> Seq(Credential)] /\ auth \in [Calls -> Credential]
  /\ exchange \in [Calls -> {"none", "probe", "answer"}]
  /\ wire \in [Calls -> SUBSET Message] /\ reply \in [Calls -> Response]
  /\ outcome \in [Calls -> Outcome] /\ open \in [Calls -> Nat]
  /\ sends \in [Calls -> Nat] /\ handled \in [Calls -> Nat]

CallTyped ==
  /\ stage \in [Calls -> {"new", "attempt", "sleep", "done"}]
  /\ request \in [Calls -> Requests \cup {NoRequest}]
  /\ retries \in [Calls -> Nat]
  /\ result \in [Calls -> Told]

(***************************************************************************)
(* The inductive invariant, besides ClientInv.                             *)
(***************************************************************************)
\* Requests are numbered as they are sent, and an answer has its credential.
Numbered(c) ==
  /\ \A r \in wire[c] : r.seq \in 1..sends[c]
  /\ exchange[c] = "answer" => header[c] # <<>>

\* The one open response is the one at hand.
OpenOne(c) == open[c] = IF outcome[c].kind = "response" THEN 1 ELSE 0

\* A round trip has its token, and only an attempt has a turn at the limiter.
Turned(c) ==
  /\ stage[c] \in {"new", "sleep"} => turn[c] = "idle"
  /\ stage[c] = "attempt" /\ ~Digest!Ready(c) => turn[c] = "granted"

\* A method that has returned has nothing under way, and no response at hand.
Ended(c) == stage[c] = "done" => exchange[c] = "none" /\ outcome[c].kind # "response"

\* What is asked for is one of Requests, as often as its policy has it.
Bounded(c) ==
  /\ stage[c] # "new" => request[c] \in Requests
  /\ retries[c] <= Backoffs[request[c].policy]
  /\ stage[c] \in {"attempt", "sleep"} \/ wire[c] # {} => request[c].empty = {}

\* A response below 300 is the success of what was asked for and follows it, and one
\* that rejects a request has carried out nothing in its attempt.
Truthful(c, status) ==
  /\ status < 300 => handled[c] > 0 /\ status = op(c).success
  /\ status \in 300..499 => handled[c] <= retries[c]

Honest(c) ==
  /\ reply[c] # Digest!NoReply => Truthful(c, reply[c].status)
  /\ outcome[c].kind = "response" => Truthful(c, outcome[c].status)

\* What is told of a response is told at the end, when nothing of the call is on the wire.
Closed(c) ==
  /\ stage[c] # "done" => result[c] = NoResult
  /\ stage[c] = "done" /\ result[c].kind \in {"success", "failure"} => wire[c] = {}

CallFacts(c) ==
  /\ Numbered(c) /\ OpenOne(c) /\ Turned(c) /\ Ended(c) /\ Bounded(c)
  /\ Honest(c) /\ Closed(c)

Shaped == Limiter!LimiterTypeOK /\ DigestTyped /\ CallTyped

ApiInv == Shaped /\ \A c \in Calls : CallFacts(c)

(***************************************************************************)
(* The limiter keeps its types, whatever it is asked to do.                *)
(***************************************************************************)
\* A full bucket is a number of ticks.
LEMMA CapFacts == Limiter!Cap \in Nat /\ Period \in Nat \ {0}
<1>1. \A p, b \in Nat : b * p \in Nat
  OBVIOUS
<1> QED BY <1>1, LimiterAssumption DEF Limiter!Cap

\* Waiting for a token.
LEMMA LimiterStepTyped ==
  ASSUME Limiter!LimiterTypeOK, NEW c \in Calls, Limiter!LimiterStep(c)
  PROVE  Limiter!LimiterTypeOK'
<1> USE CapFacts DEF Limiter!LimiterTypeOK, Limiter!Overdue
<1>1. CASE Limiter!Reserve(c)
  <2>1. /\ credit' = credit - Period /\ horizon' = Limiter!Delay
        /\ \E w \in {Limiter!Overdue, Limiter!Delay} : wait' = [wait EXCEPT ![c] = w]
        /\ \E t \in {"granted", "waiting"} : turn' = [turn EXCEPT ![c] = t]
        /\ ttl' = ttl
    BY <1>1 DEF Limiter!Reserve
  <2>2. Limiter!Delay \in Nat
    BY DEF Limiter!Delay, Limiter!Larger
  <2> QED BY <2>1, <2>2
<1>2. CASE Limiter!Refuse(c)
  BY <1>2 DEF Limiter!Refuse
<1>3. CASE Limiter!Fire(c)
  BY <1>3 DEF Limiter!Fire
<1>4. CASE Limiter!Cancel(c)
  <2>1. /\ credit' = Limiter!Smaller(Limiter!Cap, credit + Limiter!Restored(c))
        /\ horizon' = IF wait[c] = horizon /\ horizon >= Period
                      THEN horizon - Period ELSE horizon
        /\ wait' = [wait EXCEPT ![c] = Limiter!Overdue]
        /\ turn' = [turn EXCEPT ![c] = "refused"] /\ ttl' = ttl
    BY <1>4 DEF Limiter!Cancel
  <2>2. Limiter!Restored(c) \in Nat
    BY DEF Limiter!Restored, Limiter!Larger
  <2>3. credit' \in Int /\ credit' <= Limiter!Cap
    BY <2>1, <2>2 DEF Limiter!Smaller
  <2>4. horizon' \in Nat
    BY <2>1
  <2> QED BY <2>1, <2>3, <2>4
<1> QED BY <1>1, <1>2, <1>3, <1>4 DEF Limiter!LimiterStep

\* A context for a new call.
LEMMA NewContextTyped ==
  ASSUME Limiter!LimiterTypeOK, NEW c \in Calls, NEW life \in Lives,
         Limiter!NewContext(c, life)
  PROVE  Limiter!LimiterTypeOK'
BY LimiterAssumption DEF Limiter!LimiterTypeOK, Limiter!Overdue, Limiter!NoDeadline,
   Limiter!NewContext

\* A round trip that ends, and a context that is cancelled.
LEMMA ReturnTyped ==
  ASSUME Limiter!LimiterTypeOK, NEW c \in Calls,
         Limiter!Return(c) \/ Limiter!CancelContext(c)
  PROVE  Limiter!LimiterTypeOK'
BY DEF Limiter!LimiterTypeOK, Limiter!Overdue, Limiter!NoDeadline,
   Limiter!Return, Limiter!CancelContext

\* Time.
LEMMA TickTyped ==
  ASSUME Limiter!LimiterTypeOK, Limiter!Tick
  PROVE  Limiter!LimiterTypeOK'
<1> USE CapFacts DEF Limiter!LimiterTypeOK, Limiter!Overdue, Limiter!NoDeadline, Limiter!Tick
<1>1. credit' \in Int /\ credit' <= Limiter!Cap
  BY DEF Limiter!Refilled, Limiter!Smaller
<1>2. horizon' \in Nat
  BY DEF Limiter!Larger
<1>3. wait' \in [Calls -> Nat \cup {-1}]
  BY DEF Limiter!Larger
<1>4. ttl' \in [Calls -> Nat \cup {-1}]
  <2>1. ASSUME NEW c \in Calls
        PROVE  (IF ttl[c] \in {0, -1} THEN ttl[c] ELSE ttl[c] - 1) \in Nat \cup {-1}
    BY <2>1
  <2> QED BY <2>1
<1> QED BY <1>1, <1>2, <1>3, <1>4

(***************************************************************************)
(* A call that a step does not concern.                                    *)
(***************************************************************************)
Unconcerned(c) ==
  /\ SameCall(c)
  /\ open'[c] = open[c] /\ turn'[c] = turn[c] /\ header'[c] = header[c]
  /\ result'[c] = result[c]

\* It keeps its facts.
LEMMA UnconcernedFacts ==
  ASSUME NEW c \in Calls, CallFacts(c), Unconcerned(c)
  PROVE  CallFacts(c)'
<1> USE DEF CallFacts, Unconcerned, SameCall
<1>1. Numbered(c)' /\ OpenOne(c)' /\ Turned(c)'
  BY DEF Numbered, OpenOne, Turned, Digest!Ready, Digest!NoOutcome
<1>2. Ended(c)' /\ Bounded(c)' /\ Closed(c)'
  BY DEF Ended, Bounded, Closed
<1>3. Honest(c)'
  BY DEF Honest, Truthful, Digest!NoReply, op
<1> QED BY <1>1, <1>2, <1>3

\* A new client.
LEMMA InitApi == Init => ApiInv
<1> SUFFICES ASSUME Init PROVE ApiInv
  OBVIOUS
<1>1. Limiter!LimiterTypeOK
  BY CapFacts DEF Init, Limiter!LimiterInit, Limiter!LimiterTypeOK, Limiter!Overdue,
     Limiter!NoDeadline
<1>2. DigestTyped
  BY EmptySeq DEF Init, Digest!DigestInit, DigestTyped, Credential, Response, Outcome,
     Digest!NoAuth, Digest!NoReply, Digest!NoOutcome
<1>3. CallTyped
  BY DEF Init, CallTyped, Told, NoResult, Result
<1>4. ASSUME NEW c \in Calls PROVE CallFacts(c)
  <2>1. Numbered(c) /\ OpenOne(c) /\ Turned(c) /\ Ended(c) /\ Closed(c)
    BY DEF Init, Digest!DigestInit, Limiter!LimiterInit, Numbered, OpenOne, Turned, Ended,
       Closed, Digest!Ready, Digest!NoOutcome
  <2>2. Bounded(c)
    BY DEF Init, Digest!DigestInit, Bounded, NoRequest, Backoffs
  <2>3. Honest(c)
    BY DEF Init, Digest!DigestInit, Honest, Digest!NoOutcome
  <2> QED BY <2>1, <2>2, <2>3 DEF CallFacts
<1> QED BY <1>1, <1>2, <1>3, <1>4 DEF ApiInv, Shaped

(***************************************************************************)
(* The steps of a method around its attempts.                              *)
(***************************************************************************)
\* What every step may assume.
Before == ClientInv /\ ClientInv' /\ ApiInv

\* A request that is asked for has a policy whose backoffs are known.
LEMMA RequestFacts ==
  ASSUME NEW r \in Requests
  PROVE  r.op \in Operations /\ r.policy \in DOMAIN Backoffs /\ Backoffs[r.policy] \in Nat
<1>1. r.op \in Operations /\ r.policy \in DOMAIN Backoffs
  BY RequestsAssumption
<1> QED BY <1>1 DEF Backoffs

\* Making a call: an attempt with a new context, or an error at once.
LEMMA StartFacts ==
  ASSUME Before, NEW c \in Calls, NEW r \in Requests, NEW life \in Lives,
         Start(c, r, life)
  PROVE  Shaped' /\ CallFacts(c)'
<1> USE DEF Before, ApiInv, Shaped
<1>1. /\ stage[c] = "new" /\ request' = [request EXCEPT ![c] = r]
      /\ retries' = retries /\ digestVars' = digestVars /\ turn' = turn
      /\ \/ /\ r.empty = {} /\ stage' = [stage EXCEPT ![c] = "attempt"]
            /\ result' = result /\ Limiter!NewContext(c, life)
         \/ /\ stage' = [stage EXCEPT ![c] = "done"] /\ limiterVars' = limiterVars
            /\ result' = [result EXCEPT ![c] = ErrorResult]
  BY DEF Start, Return, Limiter!NewContext, limiterVars
<1>2. Limiter!LimiterTypeOK'
  <2>1. CASE limiterVars' = limiterVars
    BY <2>1 DEF limiterVars, Limiter!LimiterTypeOK
  <2> QED BY <1>1, <2>1, NewContextTyped
<1>3. DigestTyped'
  BY <1>1 DEF DigestTyped, digestVars
<1>4. CallTyped'
  <2>1. ErrorResult \in Told
    BY DEF ErrorResult, Result, Told
  <2> QED BY <1>1, <2>1 DEF CallTyped
<1>5. /\ request'[c] = r /\ stage'[c] \in {"attempt", "done"} /\ retries[c] = 0
      /\ stage'[c] = "attempt" => r.empty = {}
      /\ stage'[c] = "done" => result'[c] = ErrorResult
      /\ exchange[c] = "none" /\ outcome[c] = Digest!NoOutcome /\ wire[c] = {}
      /\ reply[c] = Digest!NoReply /\ turn[c] = "idle"
  BY <1>1 DEF CallTyped, ClientInv, CallInv, Rests, AtRest, NotRetried, CallFacts, Turned
<1>6. Numbered(c)' /\ OpenOne(c)' /\ Turned(c)' /\ Ended(c)'
  BY <1>1, <1>5 DEF digestVars, CallFacts, Numbered, OpenOne, Turned, Ended, Digest!Ready,
     Digest!NoOutcome
<1>7. Bounded(c)'
  BY <1>1, <1>5, RequestFacts DEF Bounded, digestVars
<1>8. Closed(c)'
  <2>1. result[c] = NoResult /\ (stage'[c] = "attempt" => result'[c] = result[c])
    BY <1>1 DEF CallFacts, Closed, CallTyped
  <2> QED BY <1>5, <2>1 DEF Closed, ErrorResult, Result
<1>9. Honest(c)'
  BY <1>1, <1>5 DEF digestVars, Honest, Digest!NoOutcome
<1> QED BY <1>2, <1>3, <1>4, <1>6, <1>7, <1>8, <1>9 DEF CallFacts

\* A turn at the limiter, which nothing else of the call has a part in.
LEMMA WaitFacts ==
  ASSUME Before, NEW c \in Calls, WaitForToken(c)
  PROVE  Shaped' /\ CallFacts(c)'
<1> USE DEF Before, ApiInv, Shaped, digestVars, callVars
<1>1. /\ stage[c] = "attempt" /\ Limiter!LimiterStep(c) /\ turn[c] \in {"idle", "waiting"}
      /\ digestVars' = digestVars /\ callVars' = callVars
  BY DEF WaitForToken, Limiter!LimiterStep, Limiter!Reserve, Limiter!Refuse, Limiter!Fire,
     Limiter!Cancel
<1>2. Shaped'
  BY <1>1, LimiterStepTyped DEF DigestTyped, CallTyped
<1>3. Turned(c)'
  BY <1>1 DEF CallFacts, Turned, Digest!Ready, Digest!NoOutcome
<1>4. Numbered(c)' /\ OpenOne(c)' /\ Ended(c)' /\ Bounded(c)' /\ Closed(c)'
  BY <1>1 DEF CallFacts, Numbered, OpenOne, Ended, Bounded, Closed
<1>5. Honest(c)'
  BY <1>1 DEF CallFacts, Honest, Truthful, Digest!NoReply, op
<1> QED BY <1>2, <1>3, <1>4, <1>5 DEF CallFacts

\* The next attempt.
LEMMA WakeFacts ==
  ASSUME Before, NEW c \in Calls, Wake(c)
  PROVE  Shaped' /\ CallFacts(c)'
<1> USE DEF Before, ApiInv, Shaped, limiterVars
<1>1. /\ stage[c] = "sleep" /\ stage' = [stage EXCEPT ![c] = "attempt"]
      /\ unread' = [unread EXCEPT ![c] = TRUE] /\ limiterVars' = limiterVars
      /\ UNCHANGED <<body, header, auth, exchange, wire, reply, outcome, open, sends,
                     handled, request, retries, result>>
  BY DEF Wake
<1>2. Shaped'
  BY <1>1 DEF Limiter!LimiterTypeOK, DigestTyped, CallTyped
<1>3. stage'[c] = "attempt" /\ Digest!Ready(c) /\ turn'[c] = turn[c]
  BY <1>1 DEF CallTyped, ClientInv, CallInv, Rests, AtRest, Digest!Ready
<1>4. Turned(c)'
  BY <1>1, <1>3 DEF Turned, Digest!Ready, Digest!NoOutcome
<1>5. Numbered(c)' /\ OpenOne(c)' /\ Ended(c)' /\ Bounded(c)' /\ Closed(c)'
  BY <1>1, <1>3 DEF CallFacts, Numbered, OpenOne, Ended, Bounded, Closed
<1>6. Honest(c)'
  BY <1>1 DEF CallFacts, Honest, Truthful, Digest!NoReply, op
<1> QED BY <1>2, <1>4, <1>5, <1>6 DEF CallFacts

\* What Classify says is something a method returns.
LEMMA ClassifyTold ==
  ASSUME NEW o, NEW status \in Nat, NEW decodes
  PROVE  Classify(o, status, decodes) \in Told
<1>1. \/ Classify(o, status, decodes) = Result("unknown", 0)
      \/ Classify(o, status, decodes) = Result("error", 0)
      \/ Classify(o, status, decodes) = Result("success", status)
      \/ Classify(o, status, decodes) = Result("failure", status)
  BY DEF Classify
<1> QED BY <1>1 DEF Result, Told

\* What Consume does to the state of c.
LEMMA ConsumeEffect ==
  ASSUME ApiInv, NEW c \in Calls, Digest!Consume(c)
  PROVE  /\ DigestTyped' /\ OpenOne(c)' /\ outcome'[c] = Digest!NoOutcome
         /\ UNCHANGED <<unread, body, header, auth, exchange, wire, reply, sends, handled>>
<1>1. /\ outcome[c].kind \in {"response", "error"}
      /\ outcome' = [outcome EXCEPT ![c] = Digest!NoOutcome]
      /\ open' = IF outcome[c].kind = "response" THEN [open EXCEPT ![c] = @ - 1] ELSE open
      /\ UNCHANGED <<unread, body, header, auth, exchange, wire, reply, sends, handled>>
  BY DEF Digest!Consume, Digest!Closed
<1>2. /\ DigestTyped
      /\ open[c] = IF outcome[c].kind = "response" THEN 1 ELSE 0
  BY DEF ApiInv, Shaped, CallFacts, OpenOne
<1>3. open' \in [Calls -> Nat] /\ open'[c] = 0
  <2>1. CASE outcome[c].kind = "response"
    BY <1>1, <1>2, <2>1 DEF DigestTyped
  <2>2. CASE outcome[c].kind # "response"
    BY <1>1, <1>2, <2>2 DEF DigestTyped
  <2> QED BY <2>1, <2>2
<1>4. Digest!NoOutcome \in Outcome /\ Digest!NoOutcome.kind = "none"
  BY DEF Digest!NoOutcome, Outcome
<1>5. DigestTyped'
  BY <1>1, <1>2, <1>3, <1>4 DEF DigestTyped
<1>6. outcome'[c] = Digest!NoOutcome
  BY <1>1, <1>2 DEF DigestTyped
<1> QED BY <1>1, <1>3, <1>4, <1>5, <1>6 DEF OpenOne

\* A call that is consumed has nothing under way.
LEMMA AtHand ==
  ASSUME ClientInv, NEW c \in Calls, outcome[c].kind # "none"
  PROVE  exchange[c] = "none" /\ outcome[c] # Digest!NoOutcome
<1>1. outcome[c] # Digest!NoOutcome
  BY DEF Digest!NoOutcome
<1> QED BY <1>1 DEF ClientInv, CallInv, OneOut, Typed

\* An attempt that is to be repeated.
LEMMA RetryFacts ==
  ASSUME Before, NEW c \in Calls, Retry(c)
  PROVE  Shaped' /\ CallFacts(c)'
<1> USE DEF Before
<1>1. /\ stage[c] = "attempt" /\ outcome[c].kind = "response" /\ RetriesLeft(c)
      /\ Limiter!Return(c) /\ Digest!Consume(c)
      /\ stage' = [stage EXCEPT ![c] = "sleep"]
      /\ retries' = [retries EXCEPT ![c] = @ + 1]
      /\ request' = request /\ result' = result
  BY DEF Retry, Answered, MayRetry
<1>2. /\ Shaped /\ CallFacts(c)
  BY DEF ApiInv
<1>3. /\ DigestTyped' /\ OpenOne(c)' /\ outcome'[c] = Digest!NoOutcome
      /\ UNCHANGED <<unread, body, header, auth, exchange, wire, reply, sends, handled>>
  BY <1>1, ConsumeEffect
<1>4. wire[c] = {} /\ exchange[c] = "none" /\ reply[c] = Digest!NoReply
  BY <1>1 DEF ClientInv, CallInv, OneOut
<1>5. Shaped'
  BY <1>1, <1>2, <1>3, ReturnTyped DEF Shaped, CallTyped
<1>6. /\ stage'[c] = "sleep" /\ turn'[c] = "idle" /\ retries'[c] = retries[c] + 1
      /\ exchange'[c] = "none"
  BY <1>1, <1>2, <1>3, <1>4 DEF Shaped, CallTyped, Limiter!Return, Limiter!LimiterTypeOK
<1>7. Turned(c)' /\ Ended(c)' /\ Numbered(c)' /\ Closed(c)'
  BY <1>1, <1>2, <1>3, <1>4, <1>6 DEF CallFacts, Turned, Ended, Numbered, Closed
<1>8. Bounded(c)'
  <2>1. request[c] \in Requests /\ retries[c] \in Nat
    BY <1>1, <1>2 DEF Shaped, CallTyped, CallFacts, Bounded
  <2>2. retries[c] + 1 <= Backoffs[request[c].policy]
    BY <1>1, <1>2, <2>1, RequestFacts DEF CallFacts, Bounded, RetriesLeft
  <2> QED BY <1>1, <1>2, <1>6, <2>1, <2>2 DEF CallFacts, Bounded
<1>9. Honest(c)'
  BY <1>3, <1>4 DEF Honest, Digest!NoOutcome
<1> QED BY <1>3, <1>5, <1>7, <1>8, <1>9 DEF CallFacts

\* The facts of a call that has just returned.
LEMMA DoneFacts ==
  ASSUME Before, NEW c \in Calls, stage[c] = "attempt",
         Shaped', OpenOne(c)', stage'[c] = "done", exchange'[c] = "none",
         outcome'[c].kind # "response",
         result'[c].kind \in {"success", "failure"} => wire[c] = {},
         UNCHANGED <<request, retries, wire, reply, header, sends, handled>>
  PROVE  CallFacts(c)'
<1>1. CallFacts(c)
  BY DEF Before, ApiInv
<1>2. Turned(c)' /\ Ended(c)' /\ Numbered(c)' /\ Closed(c)'
  BY <1>1 DEF CallFacts, Turned, Ended, Numbered, Closed
<1>3. Bounded(c)'
  BY <1>1 DEF CallFacts, Bounded
<1>4. Honest(c)'
  BY <1>1 DEF CallFacts, Honest, Truthful, Digest!NoReply, op
<1> QED BY <1>2, <1>3, <1>4 DEF CallFacts

\* A response that decides the call.
LEMMA ConcludeFacts ==
  ASSUME Before, NEW c \in Calls, Conclude(c)
  PROVE  Shaped' /\ CallFacts(c)'
<1> USE DEF Before
<1>1. Shaped /\ CallFacts(c) /\ outcome[c].kind = "response" /\ outcome[c].status \in Nat
  BY DEF ApiInv, Shaped, DigestTyped, Outcome, Conclude, Answered
<1>2. PICK decodes \in BOOLEAN : Return(c, Classify(op(c), outcome[c].status, decodes))
  BY DEF Conclude
<1>3. /\ stage[c] = "attempt" /\ Limiter!Return(c) /\ Digest!Consume(c)
      /\ UNCHANGED <<request, retries>>
  BY DEF Conclude, Answered
<1>4. /\ DigestTyped' /\ OpenOne(c)' /\ outcome'[c] = Digest!NoOutcome
      /\ UNCHANGED <<unread, body, header, auth, exchange, wire, reply, sends, handled>>
  BY <1>3, ConsumeEffect
<1>5. CallTyped' /\ stage'[c] = "done"
  BY <1>1, <1>2, <1>3, ClassifyTold DEF Return, Shaped, CallTyped
<1>6. Shaped'
  BY <1>1, <1>3, <1>4, <1>5, ReturnTyped DEF Shaped
<1>7. wire[c] = {} /\ exchange[c] = "none"
  BY <1>1 DEF ClientInv, CallInv, OneOut
<1>8. outcome'[c].kind # "response"
  BY <1>4 DEF Digest!NoOutcome
<1> QED BY <1>3, <1>4, <1>5, <1>6, <1>7, <1>8, DoneFacts

\* An error that does.
LEMMA GiveUpFacts ==
  ASSUME Before, NEW c \in Calls, GiveUp(c)
  PROVE  Shaped' /\ CallFacts(c)'
<1> USE DEF Before
<1>1. /\ Shaped /\ CallFacts(c) /\ stage[c] = "attempt" /\ Limiter!Return(c)
      /\ Return(c, ErrorResult) /\ UNCHANGED <<request, retries>>
  BY DEF ApiInv, GiveUp, Errored
<1>2. /\ DigestTyped' /\ OpenOne(c)' /\ exchange'[c] = "none"
      /\ outcome'[c].kind # "response"
      /\ UNCHANGED <<wire, reply, header, sends, handled>>
  <2>1. CASE turn[c] = "refused"
    <3>1. UNCHANGED digestVars /\ Digest!Ready(c)
      BY <1>1, <2>1 DEF GiveUp, CallFacts, Turned
    <3> QED BY <1>1, <3>1 DEF Shaped, digestVars, DigestTyped, CallFacts, OpenOne,
               Digest!Ready, Digest!NoOutcome
  <2>2. CASE turn[c] # "refused"
    <3>1. Digest!Consume(c) /\ outcome[c].kind = "error"
      BY <2>2 DEF GiveUp, Errored
    <3>2. exchange[c] = "none"
      BY <3>1, AtHand
    <3>3. /\ DigestTyped' /\ OpenOne(c)' /\ outcome'[c] = Digest!NoOutcome
          /\ UNCHANGED <<header, exchange, wire, reply, sends, handled>>
      BY <3>1, ConsumeEffect
    <3> QED BY <3>2, <3>3 DEF Digest!NoOutcome
  <2> QED BY <2>1, <2>2
<1>3. CallTyped' /\ stage'[c] = "done" /\ result'[c] = ErrorResult
  <2>1. ErrorResult \in Told
    BY DEF ErrorResult, Result, Told
  <2> QED BY <1>1, <2>1 DEF Return, Shaped, CallTyped
<1>4. Shaped'
  BY <1>1, <1>2, <1>3, ReturnTyped DEF Shaped
<1>5. result'[c].kind \notin {"success", "failure"}
  BY <1>3 DEF ErrorResult, Result
<1> QED BY <1>1, <1>2, <1>3, <1>4, <1>5, DoneFacts

\* A panic that unwinds the method.
LEMMA UnwindFacts ==
  ASSUME Before, NEW c \in Calls, Unwind(c)
  PROVE  Shaped' /\ CallFacts(c)'
<1> USE DEF Before
<1>1. /\ Shaped /\ CallFacts(c) /\ stage[c] = "attempt"
      /\ Return(c, Result("panic", 0))
      /\ UNCHANGED <<request, retries, limiterVars, digestVars>>
      /\ turn[c] = "refused" \/ outcome[c].kind \in {"panic", "error"}
  BY DEF ApiInv, Unwind, Errored
<1>2. exchange[c] = "none" /\ outcome[c].kind # "response"
  <2>1. CASE turn[c] = "refused"
    BY <1>1, <2>1 DEF CallFacts, Turned, Digest!Ready, Digest!NoOutcome
  <2>2. CASE outcome[c].kind \in {"panic", "error"}
    BY <2>2, AtHand
  <2> QED BY <1>1, <2>1, <2>2
<1>3. CallTyped' /\ stage'[c] = "done" /\ result'[c] = Result("panic", 0)
  <2>1. Result("panic", 0) \in Told
    BY DEF Result, Told
  <2> QED BY <1>1, <2>1 DEF Return, Shaped, CallTyped
<1>4. Shaped' /\ OpenOne(c)'
  BY <1>1, <1>3 DEF Shaped, limiterVars, digestVars, Limiter!LimiterTypeOK, DigestTyped,
     CallFacts, OpenOne
<1>5. result'[c].kind \notin {"success", "failure"}
  BY <1>3 DEF Result
<1> QED BY <1>1, <1>2, <1>3, <1>4, <1>5, DoneFacts DEF digestVars

(***************************************************************************)
(* The steps of an attempt.                                                *)
(***************************************************************************)
\* Digest's Send: its request is numbered, and the attempt has its turn.
LEMMA SendFacts ==
  ASSUME Before, NEW c \in Calls, NEW leg \in {"probe", "answer"},
         NEW auths \in Seq(Credential), NEW payload \in BOOLEAN,
         Digest!Send(c, leg, auths, payload), leg = "answer" => auths # <<>>,
         stage[c] = "attempt", turn[c] = "granted",
         unread' \in [Calls -> BOOLEAN], body' \in [Calls -> BOOLEAN],
         auth' \in [Calls -> Credential],
         reply' \in [Calls -> Response], reply'[c] = Digest!NoReply,
         UNCHANGED <<limiterVars, callVars, outcome, open, handled>>
  PROVE  Shaped' /\ CallFacts(c)'
<1> USE DEF Before, limiterVars, callVars
<1> DEFINE m == [seq |-> sends[c] + 1, auths |-> auths, body |-> payload]
<1>1. /\ exchange' = [exchange EXCEPT ![c] = leg] /\ header' = [header EXCEPT ![c] = auths]
      /\ sends' = [sends EXCEPT ![c] = @ + 1] /\ wire' = [wire EXCEPT ![c] = @ \cup {m}]
  BY DEF Digest!Send
<1>2. Shaped /\ CallFacts(c) /\ sends[c] \in Nat
  BY DEF ApiInv, Shaped, DigestTyped
<1>3. m \in Message /\ m.seq = sends[c] + 1
  BY <1>2 DEF Message
<1> HIDE DEF m
<1>4. Shaped'
  <2>1. DigestTyped'
    BY <1>1, <1>2, <1>3 DEF Shaped, DigestTyped
  <2> QED BY <1>2, <2>1 DEF Shaped, Limiter!LimiterTypeOK, CallTyped
<1>5. /\ exchange'[c] = leg /\ header'[c] = auths /\ sends'[c] = sends[c] + 1
      /\ wire'[c] = wire[c] \cup {m}
  BY <1>1, <1>2 DEF Shaped, DigestTyped
<1>6. Numbered(c)'
  BY <1>2, <1>3, <1>5 DEF CallFacts, Numbered
<1>7. OpenOne(c)' /\ Turned(c)' /\ Ended(c)' /\ Closed(c)'
  BY <1>2 DEF CallFacts, OpenOne, Turned, Ended, Closed
<1>8. Bounded(c)'
  BY <1>2 DEF CallFacts, Bounded
<1>9. Honest(c)'
  BY <1>2 DEF CallFacts, Honest, Truthful, Digest!NoReply, op
<1> QED BY <1>4, <1>6, <1>7, <1>8, <1>9 DEF CallFacts

\* The first request of an attempt.
LEMMA RoundTripFacts ==
  ASSUME Before, NEW c \in Calls, RoundTrip(c)
  PROVE  Shaped' /\ CallFacts(c)'
<1>1. /\ stage[c] = "attempt" /\ turn[c] = "granted" /\ Digest!Ready(c)
      /\ unread' = [unread EXCEPT ![c] = FALSE] /\ body' = [body EXCEPT ![c] = unread[c]]
      /\ auth' = [auth EXCEPT ![c] = Digest!NoAuth]
      /\ Digest!Send(c, "probe", header[c], unread[c])
      /\ UNCHANGED <<reply, outcome, open, handled, limiterVars, callVars>>
  BY DEF RoundTrip, Digest!RoundTrip
<1>2. DigestTyped /\ Digest!NoAuth \in Credential
  BY DEF Before, ApiInv, Shaped, Digest!NoAuth, Credential
<1>3. /\ header[c] \in Seq(Credential) /\ unread[c] \in BOOLEAN
      /\ unread' \in [Calls -> BOOLEAN] /\ body' \in [Calls -> BOOLEAN]
      /\ auth' \in [Calls -> Credential] /\ reply' \in [Calls -> Response]
  BY <1>1, <1>2 DEF DigestTyped
<1>4. reply'[c] = Digest!NoReply
  BY <1>1 DEF Before, ClientInv, CallInv, Rests, AtRest
<1> QED BY <1>1, <1>3, <1>4, SendFacts

\* An exchange is part of an attempt that has its turn.
LEMMA UnderWay ==
  ASSUME Before, NEW c \in Calls, exchange[c] # "none"
  PROVE  stage[c] = "attempt" /\ turn[c] = "granted" /\ outcome[c] = Digest!NoOutcome
<1> USE DEF Before, ApiInv
<1>1. stage[c] = "attempt"
  BY DEF Shaped, CallTyped, CallFacts, Ended, ClientInv, CallInv, Rests, AtRest
<1> QED BY <1>1 DEF CallFacts, Turned, Digest!Ready, ClientInv, CallInv, OneOut

\* The second request.
LEMMA AnswerFacts ==
  ASSUME Before, NEW c \in Calls, Digest!Answer(c), UNCHANGED <<limiterVars, callVars>>
  PROVE  Shaped' /\ CallFacts(c)'
<1> DEFINE a == [nonce |-> reply[c].nonce, nc |-> 1]
<1> DEFINE h == Append(header[c], a)
<1>1. /\ exchange[c] = "probe" /\ Digest!Send(c, "answer", h, body[c])
      /\ reply' = [reply EXCEPT ![c] = Digest!NoReply]
      /\ UNCHANGED <<unread, body, auth, outcome, open, handled>>
  BY DEF Digest!Answer, Digest!Challenged, Digest!ExecuteRequest
<1>2. DigestTyped /\ Digest!NoReply \in Response
  BY DEF Before, ApiInv, Shaped, Digest!NoReply, Response
<1>3. header[c] \in Seq(Credential) /\ a \in Credential /\ body[c] \in BOOLEAN
  BY <1>2 DEF DigestTyped, Response, Credential
<1>4. h \in Seq(Credential) /\ h # <<>>
  <2> HIDE DEF a
  <2> QED BY <1>3, AppendProperties
<1>5. /\ reply' \in [Calls -> Response] /\ reply'[c] = Digest!NoReply
      /\ unread' \in [Calls -> BOOLEAN] /\ body' \in [Calls -> BOOLEAN]
      /\ auth' \in [Calls -> Credential]
  BY <1>1, <1>2 DEF DigestTyped
<1> HIDE DEF h
<1> QED BY <1>1, <1>3, <1>4, <1>5, UnderWay, SendFacts

\* The end of an attempt, with a response that is as truthful as the reply it was.
LEMMA FinishFacts ==
  ASSUME Before, NEW c \in Calls, exchange[c] # "none",
         NEW value \in Outcome, Digest!Finish(c, value),
         value.kind = "response" => Truthful(c, value.status),
         auth' \in [Calls -> Credential], open' \in [Calls -> Nat],
         open'[c] = IF value.kind = "response" THEN 1 ELSE 0,
         UNCHANGED <<limiterVars, callVars>>
  PROVE  Shaped' /\ CallFacts(c)'
<1> USE DEF Before, limiterVars, callVars
<1>1. /\ exchange' = [exchange EXCEPT ![c] = "none"]
      /\ reply' = [reply EXCEPT ![c] = Digest!NoReply]
      /\ outcome' = [outcome EXCEPT ![c] = value]
      /\ UNCHANGED <<unread, body, header, wire, sends, handled>>
  BY DEF Digest!Finish
<1>2. /\ Shaped /\ CallFacts(c) /\ Digest!NoReply \in Response
      /\ stage[c] = "attempt" /\ turn[c] = "granted"
  BY UnderWay DEF ApiInv, Digest!NoReply, Response
<1>3. Shaped'
  <2>1. DigestTyped'
    BY <1>1, <1>2 DEF Shaped, DigestTyped
  <2> QED BY <1>2, <2>1 DEF Shaped, Limiter!LimiterTypeOK, CallTyped
<1>4. exchange'[c] = "none" /\ reply'[c] = Digest!NoReply /\ outcome'[c] = value
  BY <1>1, <1>2 DEF Shaped, DigestTyped
<1>5. Numbered(c)' /\ OpenOne(c)' /\ Turned(c)' /\ Ended(c)' /\ Closed(c)'
  BY <1>1, <1>2, <1>4 DEF CallFacts, Numbered, OpenOne, Turned, Ended, Closed
<1>6. Bounded(c)'
  BY <1>1, <1>2 DEF CallFacts, Bounded
<1>7. Honest(c)'
  BY <1>1, <1>4 DEF Honest, Truthful, op
<1> QED BY <1>3, <1>5, <1>6, <1>7 DEF CallFacts

\* An error, or the panic of hash.
LEMMA FailedFacts ==
  ASSUME Before, NEW c \in Calls, Digest!Unanswerable(c) \/ Digest!Fail(c),
         UNCHANGED <<limiterVars, callVars>>
  PROVE  Shaped' /\ CallFacts(c)'
<1>1. exchange[c] # "none"
  BY DEF Digest!Unanswerable, Digest!Fail, Digest!Challenged, Digest!Arrived
<1>2. PICK value \in {Digest!Failed, Digest!Panicked} :
        Digest!Finish(c, value) /\ UNCHANGED <<auth, open>>
  BY DEF Digest!Unanswerable, Digest!Fail
<1>3. value \in Outcome /\ value.kind # "response"
  BY <1>2 DEF Digest!Failed, Digest!Panicked, Outcome
<1>4. DigestTyped /\ open[c] = 0
  BY <1>1, UnderWay DEF Before, ApiInv, Shaped, CallFacts, OpenOne, Digest!NoOutcome
<1>5. auth' \in [Calls -> Credential] /\ open' \in [Calls -> Nat] /\ open'[c] = 0
  BY <1>2, <1>4 DEF DigestTyped
<1> QED BY <1>1, <1>2, <1>3, <1>5, FinishFacts

\* A response.
LEMMA DeliverFacts ==
  ASSUME Before, NEW c \in Calls, Digest!Deliver(c), UNCHANGED <<limiterVars, callVars>>
  PROVE  Shaped' /\ CallFacts(c)'
<1> DEFINE value == Digest!Response(reply[c].status)
<1>1. /\ exchange[c] # "none" /\ reply[c] # Digest!NoReply /\ Digest!Finish(c, value)
      /\ open' = [open EXCEPT ![c] = @ + 1]
      /\ auth' = IF exchange[c] = "answer"
                 THEN [auth EXCEPT ![c] = Digest!Last(header[c])] ELSE auth
  BY DEF Digest!Deliver, Digest!Arrived
<1>2. /\ DigestTyped /\ CallFacts(c) /\ open[c] = 0
  BY <1>1, UnderWay DEF Before, ApiInv, Shaped, CallFacts, OpenOne, Digest!NoOutcome
<1>3. /\ value \in Outcome /\ value.kind = "response" /\ value.status = reply[c].status
  BY <1>2 DEF DigestTyped, Response, Outcome, Digest!Response
<1>4. Truthful(c, value.status)
  BY <1>1, <1>2, <1>3 DEF CallFacts, Honest
<1>5. open' \in [Calls -> Nat] /\ open'[c] = 1
  BY <1>1, <1>2 DEF DigestTyped
<1>6. auth' \in [Calls -> Credential]
  <2>1. CASE exchange[c] = "answer"
    <3>1. header[c] \in Seq(Credential) /\ header[c] # <<>>
      BY <1>2, <2>1 DEF DigestTyped, CallFacts, Numbered
    <3>2. Len(header[c]) \in 1..Len(header[c])
      BY <3>1, EmptySeq, LenProperties
    <3>3. header[c][Len(header[c])] \in Credential
      BY <3>1, <3>2, ElementOfSeq
    <3>4. auth' = [auth EXCEPT ![c] = header[c][Len(header[c])]]
      BY <1>1, <2>1 DEF Digest!Last
    <3> QED BY <1>2, <3>3, <3>4 DEF DigestTyped
  <2>2. CASE exchange[c] # "answer"
    BY <1>1, <1>2, <2>2 DEF DigestTyped
  <2> QED BY <2>1, <2>2
<1> HIDE DEF value
<1> QED BY <1>1, <1>3, <1>4, <1>5, <1>6, FinishFacts

(***************************************************************************)
(* The service, the caller and time.                                       *)
(***************************************************************************)
\* What the service takes up was asked for, and had not been carried out in its attempt.
LEMMA Unserved ==
  ASSUME Before, NEW c \in Calls, wire[c] # {}
  PROVE  /\ handled[c] <= retries[c] /\ stage[c] # "new"
         /\ request[c] \in Requests /\ request[c].empty = {}
<1> USE DEF Before, ApiInv
<1>1. handled[c] <= retries[c] /\ stage[c] # "new"
  BY DEF ClientInv, CallInv, Rests, AtRest, Budget, Open
<1> QED BY <1>1 DEF CallFacts, Bounded

\* A success is below 300, and a number.
LEMMA Successes ==
  ASSUME NEW o \in Operations
  PROVE  o.success \in {200, 201, 202}
BY DEF Operations, Operation,
   GetClusters, CreateCluster, DeleteCluster, GetCluster, UpdateCluster, RestartPrimaries,
   GetRestoreJobs, CreateRestoreJob, GetSnapshotSchedule, UpdateSnapshotSchedule,
   GetSnapshots, GetRestoreJob, GetContainers, CreateContainer, GetContainer,
   UpdateContainer, GetDatabaseUsers, CreateDatabaseUser, DeleteDatabaseUser,
   GetDatabaseUser, UpdateDatabaseUser, GetEvents, GetPeers, CreatePeer, DeletePeer,
   GetPeer, UpdatePeer, GetProcesses, GetProcessDatabases,
   GetProcessDatabaseMeasurements, GetProcessDisks, GetProcessDiskMeasurements,
   GetProcessMeasurements

\* The service takes up a request, and what it says of it is true.
LEMMA RespondFacts ==
  ASSUME Before, NEW c \in Calls, NEW r \in wire[c], NEW response \in Response,
         Digest!Respond(c, r, response), UNCHANGED <<limiterVars, callVars>>,
         handled' \in [Calls -> Nat], handled'[c] >= handled[c],
         response.status < 300 => handled'[c] > 0 /\ response.status = op(c).success,
         response.status \in 300..499 => handled'[c] = handled[c]
  PROVE  Shaped' /\ CallFacts(c)'
<1> USE DEF Before, limiterVars, callVars
<1>1. /\ Shaped /\ CallFacts(c) /\ handled[c] <= retries[c] /\ stage[c] # "new"
      /\ handled[c] \in Nat /\ handled'[c] \in Nat /\ retries[c] \in Nat
  BY Unserved DEF ApiInv, Shaped, DigestTyped, CallTyped
<1>2. /\ wire' = [wire EXCEPT ![c] = @ \ {r}]
      /\ reply' = reply \/ reply' = [reply EXCEPT ![c] = response]
      /\ UNCHANGED <<unread, body, header, auth, exchange, outcome, open, sends>>
  BY DEF Digest!Respond
<1>3. Shaped'
  <2>1. DigestTyped'
    BY <1>1, <1>2 DEF Shaped, DigestTyped
  <2> QED BY <1>1, <2>1 DEF Shaped, Limiter!LimiterTypeOK, CallTyped
<1>4. /\ wire'[c] = wire[c] \ {r} /\ reply'[c] \in {reply[c], response}
      /\ reply[c] = Digest!NoReply /\ outcome[c].kind # "response"
  <2>1. wire'[c] = wire[c] \ {r} /\ reply'[c] \in {reply[c], response}
    BY <1>1, <1>2 DEF Shaped, DigestTyped
  <2>2. reply[c] = Digest!NoReply /\ outcome[c].kind # "response"
    BY DEF ClientInv, CallInv, OneOut
  <2> QED BY <2>1, <2>2
<1>5. Numbered(c)' /\ OpenOne(c)' /\ Turned(c)' /\ Ended(c)' /\ Closed(c)'
  BY <1>1, <1>2, <1>4 DEF CallFacts, Numbered, OpenOne, Turned, Ended, Closed, Digest!Ready,
     Digest!NoOutcome
<1>6. Bounded(c)'
  BY <1>1, <1>2, <1>4 DEF CallFacts, Bounded
<1>7. Honest(c)'
  <2>1. reply'[c] # Digest!NoReply => reply'[c] = response
    BY <1>4
  <2>2. response.status < 300 => handled'[c] > 0 /\ response.status = op(c)'.success
    BY DEF op
  <2>3. response.status \in 300..499 => handled'[c] <= retries[c]
    BY <1>1
  <2> QED BY <1>2, <1>4, <2>1, <2>2, <2>3 DEF Honest, Truthful, Digest!NoReply
<1> QED BY <1>3, <1>5, <1>6, <1>7 DEF CallFacts

\* A challenge, or a response of the statuses a service has.
LEMMA ServiceFacts ==
  ASSUME Before, NEW c \in Calls, Service(c)
  PROVE  Shaped' /\ CallFacts(c)'
<1>1. PICK r \in wire[c] :
        \/ \E kind \in Challenges : Digest!Challenge(c, r, kind)
        \/ \E status \in Failing \cup {op(c).success}, effect \in BOOLEAN :
             Digest!Serve(c, r, status, effect)
  BY DEF Service, Digest!Service
<1>2. UNCHANGED <<limiterVars, callVars>>
  BY DEF Service
<1>3. DigestTyped /\ handled[c] \in Nat
  BY DEF Before, ApiInv, Shaped, DigestTyped
<1>4. ASSUME NEW kind \in Challenges, Digest!Challenge(c, r, kind)
      PROVE  Shaped' /\ CallFacts(c)'
  <2> DEFINE response == [status |-> 401, challenge |-> kind,
                          nonce |-> IF kind = "nonceless" THEN 0 ELSE r.seq]
  <2>1. Digest!Respond(c, r, response) /\ handled' = handled
    BY <1>4 DEF Digest!Challenge
  <2>2. response \in Response /\ response.status = 401
    <3>1. r.seq \in Nat /\ kind \in Digest!ChallengeKinds
      BY <1>3, ChallengesAssumption DEF DigestTyped, Message
    <3> QED BY <3>1 DEF Response
  <2>3. /\ handled' \in [Calls -> Nat] /\ handled'[c] = handled[c]
        /\ ~(response.status < 300)
    BY <1>3, <2>1, <2>2 DEF DigestTyped
  <2> HIDE DEF response
  <2> QED BY <1>2, <1>3, <2>1, <2>2, <2>3, RespondFacts
<1>5. ASSUME NEW status \in Failing \cup {op(c).success}, NEW effect \in BOOLEAN,
             Digest!Serve(c, r, status, effect)
      PROVE  Shaped' /\ CallFacts(c)'
  <2> DEFINE response == [status |-> status, challenge |-> "none", nonce |-> 0]
  <2>1. /\ Digest!Respond(c, r, response)
        /\ status < 300 => effect
        /\ effect => status \notin 300..499
        /\ handled' = IF effect THEN [handled EXCEPT ![c] = @ + 1] ELSE handled
    BY <1>5 DEF Digest!Serve
  <2>2. status \in Nat /\ (status < 300 => status = op(c).success)
    <3>1. request[c] \in Requests
      BY Unserved
    <3>2. op(c).success \in {200, 201, 202}
      BY <3>1, RequestFacts, Successes DEF op
    <3>3. \A n \in Failing : n \in Nat /\ ~(n < 300)
      BY FailingAssumption
    <3> QED BY <3>2, <3>3
  <2>3. response \in Response /\ response.status = status
    BY <2>2 DEF Response
  <2>4. /\ handled' \in [Calls -> Nat] /\ handled'[c] >= handled[c]
        /\ response.status < 300 => handled'[c] > 0 /\ response.status = op(c).success
        /\ response.status \in 300..499 => handled'[c] = handled[c]
    <3>1. CASE effect
      <4>1. handled' = [handled EXCEPT ![c] = @ + 1] /\ handled \in [Calls -> Nat]
        BY <1>3, <2>1, <3>1 DEF DigestTyped
      <4>2. handled' \in [Calls -> Nat] /\ handled'[c] = handled[c] + 1
        BY <4>1
      <4>3. status \notin 300..499
        BY <2>1, <3>1
      <4> QED BY <1>3, <2>2, <2>3, <4>2, <4>3
    <3>2. CASE ~effect
      <4>1. handled' = handled /\ handled \in [Calls -> Nat]
        BY <1>3, <2>1, <3>2 DEF DigestTyped
      <4>2. ~(status < 300)
        BY <2>1, <3>2
      <4> QED BY <1>3, <2>3, <4>1, <4>2
    <3> QED BY <3>1, <3>2
  <2>5. Digest!Respond(c, r, response)
    BY <2>1
  <2> HIDE DEF response
  <2> QED BY <1>2, <2>3, <2>4, <2>5, RespondFacts
<1> QED BY <1>1, <1>4, <1>5

\* A caller that loses patience, and time, change contexts and the limiter alone.
LEMMA LimiterFacts ==
  ASSUME Before, \/ Tick
                 \/ \E c \in Calls : CancelCall(c)
  PROVE  ApiInv'
<1> USE DEF Before, ApiInv, Shaped, digestVars, callVars
<1>1. UNCHANGED <<digestVars, callVars>> /\ turn' = turn
  BY DEF Tick, CancelCall, Limiter!Tick, Limiter!CancelContext
<1>2. Shaped'
  <2>1. Limiter!LimiterTypeOK'
    BY TickTyped, ReturnTyped DEF Tick, CancelCall
  <2> QED BY <1>1, <2>1 DEF DigestTyped, CallTyped
<1>3. ASSUME NEW d \in Calls PROVE CallFacts(d)'
  <2>1. Unconcerned(d)
    BY <1>1 DEF Unconcerned, SameCall
  <2> QED BY <2>1, UnconcernedFacts
<1> QED BY <1>2, <1>3

(***************************************************************************)
(* Every step.                                                             *)
(***************************************************************************)
\* A step of one call leaves the others as they were.
LEMMA OthersUnconcerned ==
  ASSUME ApiInv, NEW c \in Calls, NEW d \in Calls, d # c,
         \/ \E r \in Requests, life \in Lives : Start(c, r, life)
         \/ ClientStep(c)
         \/ Service(c)
  PROVE  Unconcerned(d)
<1> USE DEF ApiInv, Shaped, DigestTyped, CallTyped, Limiter!LimiterTypeOK,
            Unconcerned, SameCall
<1>1. CASE \E r \in Requests, life \in Lives : Start(c, r, life)
  <2>1. PICK r \in Requests, life \in Lives : Start(c, r, life)
    BY <1>1
  <2> QED BY <2>1 DEF Start, Return, Limiter!NewContext, limiterVars, digestVars
<1>2. CASE WaitForToken(c)
  BY <1>2 DEF WaitForToken, Limiter!LimiterStep, Limiter!Reserve, Limiter!Refuse,
     Limiter!Fire, Limiter!Cancel, digestVars, callVars
<1>3. CASE RoundTrip(c)
  BY <1>3 DEF RoundTrip, Digest!RoundTrip, Digest!Send, limiterVars, callVars
<1>4. CASE Handshake(c)
  <2> USE <1>4 DEF Handshake, limiterVars, callVars
  <2>1. CASE Digest!Answer(c)
    BY <2>1 DEF Digest!Answer, Digest!ExecuteRequest, Digest!Send
  <2>2. CASE Digest!Unanswerable(c) \/ Digest!Deliver(c) \/ Digest!Fail(c)
    BY <2>2 DEF Digest!Unanswerable, Digest!Deliver, Digest!Fail, Digest!Finish
  <2> QED BY <2>1, <2>2
<1>5. CASE Retry(c) \/ Conclude(c) \/ GiveUp(c)
  BY <1>5 DEF Retry, Conclude, GiveUp, Return, Limiter!Return, Digest!Consume,
     Digest!Closed, digestVars
<1>6. CASE Wake(c) \/ Unwind(c)
  BY <1>6 DEF Wake, Unwind, Return, limiterVars, digestVars
<1>7. CASE Service(c)
  <2>1. /\ UNCHANGED <<unread, body, header, exchange, outcome, open, sends,
                       limiterVars, callVars>>
        /\ wire'[d] = wire[d] /\ reply'[d] = reply[d] /\ handled'[d] = handled[d]
    <3>1. PICK r \in wire[c] :
            \/ \E kind \in Challenges : Digest!Challenge(c, r, kind)
            \/ \E status \in Failing \cup {op(c).success}, effect \in BOOLEAN :
                 Digest!Serve(c, r, status, effect)
      BY <1>7 DEF Service, Digest!Service
    <3>2. UNCHANGED <<limiterVars, callVars>>
      BY <1>7 DEF Service
    <3>3. CASE \E kind \in Challenges : Digest!Challenge(c, r, kind)
      BY <3>2, <3>3 DEF Digest!Challenge, Digest!Respond
    <3>4. CASE \E status \in Failing \cup {op(c).success}, effect \in BOOLEAN :
                 Digest!Serve(c, r, status, effect)
      <4>1. PICK response : Digest!Respond(c, r, response)
        BY <3>4 DEF Digest!Serve
      <4>2. handled' = [handled EXCEPT ![c] = @ + 1] \/ handled' = handled
        BY <3>4 DEF Digest!Serve
      <4> QED BY <3>2, <4>1, <4>2 DEF Digest!Respond
    <3> QED BY <3>1, <3>3, <3>4
  <2> QED BY <2>1 DEF limiterVars, callVars
<1> QED BY <1>1, <1>2, <1>3, <1>4, <1>5, <1>6, <1>7 DEF ClientStep

\* The invariant is kept by every step.
LEMMA NextApi == ClientInv /\ ClientInv' /\ ApiInv /\ [Next]_vars => ApiInv'
<1> SUFFICES ASSUME Before, [Next]_vars PROVE ApiInv'
  BY DEF Before
<1>1. ASSUME NEW c \in Calls,
             \/ \E r \in Requests, life \in Lives : Start(c, r, life)
             \/ ClientStep(c)
             \/ Service(c)
      PROVE  ApiInv'
  <2>1. Shaped' /\ CallFacts(c)'
    BY <1>1, StartFacts, WaitFacts, RoundTripFacts, AnswerFacts, FailedFacts, DeliverFacts,
       RetryFacts, WakeFacts, ConcludeFacts, GiveUpFacts, UnwindFacts, ServiceFacts
       DEF ClientStep, Handshake
  <2>2. ASSUME NEW d \in Calls, d # c PROVE CallFacts(d)'
    BY <1>1, <2>2, OthersUnconcerned, UnconcernedFacts DEF Before, ApiInv
  <2> QED BY <2>1, <2>2 DEF ApiInv
<1>2. CASE UNCHANGED vars
  <2>1. Shaped'
    BY <1>2 DEF Before, ApiInv, Shaped, Limiter!LimiterTypeOK, DigestTyped, CallTyped,
       vars, limiterVars, digestVars, callVars
  <2>2. ASSUME NEW d \in Calls PROVE CallFacts(d)'
    <3>1. Unconcerned(d)
      BY <1>2 DEF Unconcerned, SameCall, vars, limiterVars, digestVars, callVars
    <3> QED BY <3>1, UnconcernedFacts DEF Before, ApiInv
  <2> QED BY <2>1, <2>2 DEF ApiInv
<1>3. CASE Tick \/ \E c \in Calls : CancelCall(c)
  BY <1>3, LimiterFacts
<1> QED BY <1>1, <1>2, <1>3 DEF Next

\* The invariant holds throughout.
THEOREM ApiInvariant == Spec => []ApiInv
BY ClientInvariant, InitApi, NextApi, PTL DEF Spec

\* The variables of the client keep their types, and a call is retried no more often
\* than its policy has backoffs.
THEOREM ClientTypeCorrect == Spec => []ClientTypeOK
<1>1. ApiInv => ClientTypeOK
  <2> SUFFICES ASSUME ApiInv PROVE ClientTypeOK
    OBVIOUS
  <2>1. Digest!DigestTypeOK
    <3>1. ASSUME NEW c \in Calls, NEW r \in wire[c]
          PROVE  r \in [seq : 1..sends[c], auths : Seq(Credential), body : BOOLEAN]
      <4>1. r \in Message /\ r.seq \in 1..sends[c]
        BY DEF ApiInv, Shaped, DigestTyped, CallFacts, Numbered
      <4> QED BY <4>1 DEF Message
    <3> QED BY <3>1 DEF ApiInv, Shaped, DigestTyped, Digest!DigestTypeOK, Credential,
               Response, Outcome
  <2>2. ASSUME NEW c \in Calls PROVE retries[c] \in 0..Backoffs[request[c].policy]
    <3>1. retries[c] \in Nat /\ retries[c] <= Backoffs[request[c].policy]
      BY DEF ApiInv, Shaped, CallTyped, CallFacts, Bounded
    <3>2. Backoffs[request[c].policy] \in Nat
      BY RequestFacts DEF ApiInv, Shaped, CallTyped, NoRequest, Backoffs
    <3> QED BY <3>1, <3>2
  <2> QED BY <2>1, <2>2 DEF ApiInv, Shaped, CallTyped, Told, ClientTypeOK
<1> QED BY <1>1, ApiInvariant, PTL

\* A method that has returned has closed every response it received, and one that has
\* not holds at most one.
THEOREM AllClosed == Spec => []NothingLeftOpen
<1>1. ApiInv => NothingLeftOpen
  BY DEF ApiInv, CallFacts, OpenOne, Ended, NothingLeftOpen
<1> QED BY <1>1, ApiInvariant, PTL

\* A call whose context is done reserves no token, and sends nothing but the round trip
\* it was let through for before or, if it had reserved, by a timer that fires with the
\* end of the context.
THEOREM DeadlineStops == Spec => NoNewTurnAfterDeadline
<1>1. ClientInv /\ ClientInv' /\ ApiInv /\ [Next]_vars =>
        [\A c \in Calls : ttl[c] = 0 =>
           /\ turn[c] \in {"idle", "refused"} => turn'[c] \in {"idle", "refused"}
           /\ sends'[c] # sends[c] => turn[c] = "granted"]_vars
  <2> SUFFICES ASSUME Before, Next, NEW d \in Calls, ttl[d] = 0, turn[d] # "granted"
               PROVE  /\ turn[d] \in {"idle", "refused"} => turn'[d] \in {"idle", "refused"}
                      /\ sends'[d] = sends[d]
    <3>1. ASSUME NEW c \in Calls, turn[c] = "granted"
          PROVE  turn[c] \notin {"idle", "refused"}
      BY <3>1
    <3> QED BY <3>1 DEF Before
  <2>1. /\ DigestTyped /\ turn \in [Calls -> {"idle", "waiting", "granted", "refused"}]
        /\ exchange[d] = "none"
    BY UnderWay DEF Before, ApiInv, Shaped, Limiter!LimiterTypeOK
  <2>2. ASSUME NEW c \in Calls, c # d,
               \/ \E r \in Requests, life \in Lives : Start(c, r, life)
               \/ ClientStep(c)
               \/ Service(c)
        PROVE  turn'[d] = turn[d] /\ sends'[d] = sends[d]
    BY <2>2, OthersUnconcerned DEF Before, Unconcerned, SameCall
  <2>3. CASE Tick \/ \E c \in Calls : CancelCall(c)
    BY <2>3 DEF Tick, CancelCall, Limiter!Tick, Limiter!CancelContext, digestVars
  <2>4. CASE \E r \in Requests, life \in Lives : Start(d, r, life)
    BY <2>4 DEF Start, Limiter!NewContext, limiterVars, digestVars
  <2>5. CASE WaitForToken(d)
    <3>1. ~Limiter!Reserve(d)
      BY DEF Limiter!Reserve, Limiter!Affordable, Limiter!ContextDone, Limiter!Deadline
    <3>2. turn'[d] \in {"refused", "granted"} /\ sends' = sends
          /\ (turn[d] \in {"idle", "refused"} => turn'[d] = "refused")
      BY <2>1, <2>5, <3>1 DEF WaitForToken, Limiter!LimiterStep, Limiter!Refuse,
         Limiter!Fire, Limiter!Cancel, digestVars
    <3> QED BY <3>2
  <2>6. CASE RoundTrip(d)
    BY <2>6 DEF RoundTrip
  <2>7. CASE Handshake(d)
    BY <2>1, <2>7 DEF Handshake, Digest!Answer, Digest!Unanswerable, Digest!Deliver,
       Digest!Fail, Digest!Challenged, Digest!Arrived
  <2>8. CASE Retry(d) \/ Conclude(d) \/ GiveUp(d)
    BY <2>1, <2>8 DEF Retry, Conclude, GiveUp, Limiter!Return, Digest!Consume, digestVars
  <2>9. CASE Wake(d) \/ Unwind(d)
    BY <2>9 DEF Wake, Unwind, limiterVars, digestVars
  <2>10. CASE Service(d)
    BY <2>10 DEF Service, Digest!Service, Digest!Challenge, Digest!Serve, Digest!Respond,
       limiterVars
  <2> QED BY <2>2, <2>3, <2>4, <2>5, <2>6, <2>7, <2>8, <2>9, <2>10 DEF Next, ClientStep
<1> QED BY <1>1, ClientInvariant, ApiInvariant, PTL DEF Spec, NoNewTurnAfterDeadline

(***************************************************************************)
(* The refinement of ApiCall.                                              *)
(***************************************************************************)
\* What AtlasClient puts for the variables of ApiCall.
Limit(c) ==
  IF ~Asked(c) THEN 0
  ELSE IF OnceOnly(request[c]) THEN 1 ELSE Backoffs[request[c].policy] + 1

LimitsOf  == [c \in Calls |-> Limit(c)]
AnswersOf == [c \in Calls |-> Answer(c)]

\* A call that is being made is asked for as often as its policy allows.
LEMMA AskedLimit ==
  ASSUME ApiInv, NEW c \in Calls, Asked(c)
  PROVE  /\ Limit(c) \in {Backoffs[policy] + 1 : policy \in DOMAIN Backoffs}
         /\ Limit(c) \in Nat /\ Limit(c) > 0
         /\ Limit(c) = 1 => OnceOnly(request[c]) \/ Backoffs[request[c].policy] = 0
<1>1. request[c] \in Requests
  BY DEF Asked, ApiInv, CallFacts, Bounded
<1>2. /\ request[c].policy \in DOMAIN Backoffs /\ Backoffs[request[c].policy] \in Nat
      /\ Backoffs["NoRetryPolicy"] = 0 /\ "NoRetryPolicy" \in DOMAIN Backoffs
  BY <1>1, RequestFacts DEF Backoffs
<1>3. \/ Limit(c) = Backoffs["NoRetryPolicy"] + 1 /\ OnceOnly(request[c])
      \/ Limit(c) = Backoffs[request[c].policy] + 1
  BY <1>2 DEF Limit
<1> QED BY <1>2, <1>3

\* A step of ApiCall as one call sees it.
Settles(c, told) ==
  /\ Answer(c) = "pending" /\ Answer(c)' = told
  /\ Limit(c)' = Limit(c) /\ handled'[c] = handled[c]

ApiMove(c) ==
  \/ Limit(c)' = Limit(c) /\ handled'[c] = handled[c] /\ Answer(c)' = Answer(c)
  \/ /\ Limit(c) = 0 /\ Limit(c)' \in {Backoffs[policy] + 1 : policy \in DOMAIN Backoffs}
     /\ Answer(c) = "pending" /\ Answer(c)' = "pending" /\ handled'[c] = handled[c]
  \/ Limit(c) = 0 /\ Settles(c, "declined")
  \/ /\ handled[c] < Limit(c) /\ handled'[c] = handled[c] + 1
     /\ Answer(c) \in {"pending", "unknown"}
     /\ Limit(c)' = Limit(c) /\ Answer(c)' = Answer(c)
  \/ handled[c] > 0 /\ Settles(c, "done")
  \/ Limit(c) > 0 /\ (Limit(c) = 1 => handled[c] = 0) /\ Settles(c, "rejected")
  \/ Limit(c) > 0 /\ Settles(c, "unknown")

\* A call that a step does not concern has the limit and the answer it had.
LEMMA UnconcernedMove ==
  ASSUME NEW c \in Calls, Unconcerned(c)
  PROVE  Limit(c)' = Limit(c) /\ Answer(c)' = Answer(c) /\ handled'[c] = handled[c]
<1> USE DEF Unconcerned, SameCall
<1>1. Asked(c)' = Asked(c) /\ OnceOnly(request[c])' = OnceOnly(request[c])
  BY DEF Asked, OnceOnly
<1>2. Limit(c)' = Limit(c)
  BY <1>1 DEF Limit
<1>3. Answer(c)' = Answer(c)
  BY <1>1 DEF Answer
<1> QED BY <1>2, <1>3

\* A step that is one of ApiCall's for one call and does not concern the others is one.
LEMMA MoveImplements ==
  ASSUME DigestTyped, DigestTyped', NEW c \in Calls, ApiMove(c),
         \A d \in Calls \ {c} : Unconcerned(d)
  PROVE  [Api!Next]_(Api!vars)
<1>1. /\ LimitsOf' = [LimitsOf EXCEPT ![c] = Limit(c)']
      /\ AnswersOf' = [AnswersOf EXCEPT ![c] = Answer(c)']
      /\ handled' = [handled EXCEPT ![c] = handled'[c]]
  <2>1. \A d \in Calls \ {c} :
          Limit(d)' = Limit(d) /\ Answer(d)' = Answer(d) /\ handled'[d] = handled[d]
    BY UnconcernedMove
  <2> QED BY <2>1 DEF LimitsOf, AnswersOf, DigestTyped
<1>2. LimitsOf[c] = Limit(c) /\ AnswersOf[c] = Answer(c)
  BY DEF LimitsOf, AnswersOf
<1>3. /\ LimitsOf = [d \in Calls |-> Limit(d)] /\ AnswersOf = [d \in Calls |-> Answer(d)]
  BY DEF LimitsOf, AnswersOf
<1>4. CASE Limit(c)' = Limit(c) /\ handled'[c] = handled[c] /\ Answer(c)' = Answer(c)
  <2>1. LimitsOf' = LimitsOf /\ AnswersOf' = AnswersOf /\ handled' = handled
    BY <1>1, <1>2, <1>3, <1>4 DEF DigestTyped
  <2> QED BY <2>1 DEF Api!vars, LimitsOf, Limit, AnswersOf
<1>5. CASE /\ Limit(c) = 0
           /\ Limit(c)' \in {Backoffs[policy] + 1 : policy \in DOMAIN Backoffs}
           /\ Answer(c) = "pending" /\ Answer(c)' = "pending" /\ handled'[c] = handled[c]
  <2>1. AnswersOf' = AnswersOf /\ handled' = handled
    BY <1>1, <1>2, <1>3, <1>5 DEF DigestTyped
  <2>2. PICK n \in {Backoffs[policy] + 1 : policy \in DOMAIN Backoffs} : n = Limit(c)'
    BY <1>5
  <2>3. LimitsOf[c] = 0 /\ AnswersOf[c] = "pending" /\ LimitsOf' = [LimitsOf EXCEPT ![c] = n]
    BY <1>1, <1>2, <1>5, <2>2
  <2>4. Api!Ask(c, n)
    BY <2>1, <2>3 DEF Api!Ask, LimitsOf, Limit, AnswersOf
  <2> QED BY <2>2, <2>4 DEF Api!Next
<1>6. ASSUME NEW told, Settles(c, told) PROVE Api!Reply(c, told)
  <2>1. LimitsOf' = LimitsOf /\ handled' = handled
    <3>1. Limit(c)' = Limit(c) /\ handled'[c] = handled[c]
      BY <1>6 DEF Settles
    <3> QED BY <1>1, <1>2, <1>3, <3>1 DEF DigestTyped
  <2>2. AnswersOf[c] = "pending" /\ AnswersOf' = [AnswersOf EXCEPT ![c] = told]
    BY <1>1, <1>2, <1>6 DEF Settles
  <2> QED BY <2>1, <2>2 DEF Api!Reply, LimitsOf, Limit, AnswersOf
<1>7. CASE Limit(c) = 0 /\ Settles(c, "declined")
  <2>1. Api!Decline(c)
    BY <1>2, <1>6, <1>7 DEF Api!Decline, LimitsOf, Limit
  <2> QED BY <2>1 DEF Api!Next
<1>8. CASE /\ handled[c] < Limit(c) /\ handled'[c] = handled[c] + 1
           /\ Answer(c) \in {"pending", "unknown"}
           /\ Limit(c)' = Limit(c) /\ Answer(c)' = Answer(c)
  <2>1. LimitsOf' = LimitsOf /\ AnswersOf' = AnswersOf
    BY <1>1, <1>2, <1>3, <1>8
  <2>2. handled[c] < LimitsOf[c] /\ AnswersOf[c] \in {"pending", "unknown"}
        /\ handled' = [handled EXCEPT ![c] = @ + 1]
    BY <1>1, <1>2, <1>8
  <2>3. Api!Act(c)
    BY <2>1, <2>2 DEF Api!Act, LimitsOf, Limit, AnswersOf
  <2> QED BY <2>3 DEF Api!Next
<1>9. CASE handled[c] > 0 /\ Settles(c, "done")
  <2>1. Api!Succeed(c)
    BY <1>6, <1>9 DEF Api!Succeed
  <2> QED BY <2>1 DEF Api!Next
<1>10. CASE Limit(c) > 0 /\ (Limit(c) = 1 => handled[c] = 0) /\ Settles(c, "rejected")
  <2>1. Api!Reject(c)
    BY <1>2, <1>6, <1>10 DEF Api!Reject, LimitsOf, Limit
  <2> QED BY <2>1 DEF Api!Next
<1>11. CASE Limit(c) > 0 /\ Settles(c, "unknown")
  <2>1. Api!GiveUp(c)
    BY <1>2, <1>6, <1>11 DEF Api!GiveUp, LimitsOf, Limit
  <2> QED BY <2>1 DEF Api!Next
<1> QED BY <1>4, <1>5, <1>7, <1>8, <1>9, <1>10, <1>11 DEF ApiMove

\* What the caller of a method is told, case by case.
Telling(at, asked, value) ==
  CASE at # "done"           -> "pending"
    [] at = "done" /\ ~asked -> "declined"
    [] asked /\ value.kind = "success" -> "done"
    [] asked /\ value.kind = "failure" /\ value.status < 500 -> "rejected"
    [] OTHER -> "unknown"

\* Its cases exclude one another, given that a call has no result before it is done.
LEMMA TellingCases ==
  ASSUME NEW at, NEW asked \in BOOLEAN, NEW value,
         at # "done" => value = NoResult
  PROVE  /\ at # "done" => Telling(at, asked, value) = "pending"
         /\ at = "done" /\ ~asked => Telling(at, asked, value) = "declined"
         /\ at = "done" /\ asked /\ value.kind = "success" =>
              Telling(at, asked, value) = "done"
         /\ at = "done" /\ asked /\ value.kind = "failure" /\ value.status < 500 =>
              Telling(at, asked, value) = "rejected"
         /\ at = "done" /\ asked /\ value.kind # "success"
            /\ ~(value.kind = "failure" /\ value.status < 500) =>
              Telling(at, asked, value) = "unknown"
<1>1. at # "done" => value.kind = "none"
  BY DEF NoResult, Result
<1> QED BY <1>1 DEF Telling


\* Answer is one of these, before and after a step.
AnswerFits(c) ==
  /\ stage[c] # "done" => Answer(c) = "pending"
  /\ stage[c] = "done" /\ ~Asked(c) => Answer(c) = "declined"
  /\ stage[c] = "done" /\ Asked(c) /\ result[c].kind = "success" => Answer(c) = "done"
  /\ stage[c] = "done" /\ Asked(c) /\ result[c].kind = "failure"
     /\ result[c].status < 500 => Answer(c) = "rejected"
  /\ stage[c] = "done" /\ Asked(c) /\ result[c].kind # "success"
     /\ ~(result[c].kind = "failure" /\ result[c].status < 500) => Answer(c) = "unknown"

\* The answer of a call is the one Telling gives, so it is known on both sides of a step.
LEMMA AnswerCases ==
  ASSUME ApiInv, ApiInv', NEW c \in Calls
  PROVE  AnswerFits(c) /\ AnswerFits(c)'
<1>1. /\ Answer(c) = Telling(stage[c], Asked(c), result[c])
      /\ Answer(c)' = Telling(stage'[c], Asked(c)', result'[c])
  BY DEF Answer, Telling
<1>2. Asked(c) \in BOOLEAN /\ Asked(c)' \in BOOLEAN
  BY DEF Asked
<1>3. /\ stage[c] # "done" => result[c] = NoResult
      /\ stage'[c] # "done" => result'[c] = NoResult
  BY DEF ApiInv, CallFacts, Closed, NoResult, Result
<1>4. AnswerFits(c)
  BY <1>1, <1>2, <1>3, TellingCases DEF AnswerFits
<1>5. AnswerFits(c)'
  BY <1>1, <1>2, <1>3, TellingCases DEF AnswerFits
<1> QED BY <1>4, <1>5

\* Both sides of a step: the invariants before it and after it.
Around == Before /\ ApiInv'

\* As long as a method runs, ApiCall sees nothing of it.
LEMMA RunningMove ==
  ASSUME Around, NEW c \in Calls, stage[c] \in {"attempt", "sleep"},
         stage'[c] \in {"attempt", "sleep"},
         request'[c] = request[c], handled'[c] = handled[c]
  PROVE  ApiMove(c)
<1>1. Answer(c) = "pending" /\ Answer(c)' = "pending"
  BY AnswerCases DEF Around, Before, AnswerFits
<1>2. Asked(c)' = Asked(c) /\ OnceOnly(request[c])' = OnceOnly(request[c])
  BY DEF Asked, OnceOnly
<1>3. Limit(c)' = Limit(c)
  BY <1>2 DEF Limit
<1> QED BY <1>1, <1>3 DEF ApiMove

\* Making a call asks, or declines to.
LEMMA StartMove ==
  ASSUME Around, NEW c \in Calls, NEW r \in Requests, NEW life \in Lives, Start(c, r, life)
  PROVE  ApiMove(c)
<1> USE DEF Around, Before
<1>1. /\ stage[c] = "new" /\ request' = [request EXCEPT ![c] = r] /\ handled' = handled
      /\ \/ r.empty = {} /\ stage' = [stage EXCEPT ![c] = "attempt"]
         \/ r.empty # {} /\ stage' = [stage EXCEPT ![c] = "done"]
  BY DEF Start, Return, digestVars
<1>2. request'[c] = r /\ CallTyped
  BY <1>1 DEF ApiInv, Shaped, CallTyped
<1>3. ~Asked(c) /\ Limit(c) = 0 /\ Answer(c) = "pending"
  BY <1>1, AnswerCases DEF Asked, Limit, AnswerFits
<1>4. CASE r.empty = {}
  <2>1. stage'[c] = "attempt" /\ Answer(c)' = "pending"
    BY <1>1, <1>2, <1>4, AnswerCases DEF CallTyped, AnswerFits
  <2>2. Asked(c)'
    BY <1>2, <1>4, <2>1 DEF Asked
  <2>3. Limit(c)' \in {Backoffs[policy] + 1 : policy \in DOMAIN Backoffs}
    <3>1. /\ r.policy \in DOMAIN Backoffs
          /\ Backoffs["NoRetryPolicy"] + 1 = 1 /\ "NoRetryPolicy" \in DOMAIN Backoffs
      BY RequestFacts DEF Backoffs
    <3>2. Limit(c)' \in {1, Backoffs[r.policy] + 1}
      BY <1>2, <2>2 DEF Limit, Backoffs
    <3> QED BY <3>1, <3>2
  <2> QED BY <1>1, <1>3, <2>1, <2>3 DEF ApiMove
<1>5. CASE r.empty # {}
  <2>1. stage'[c] = "done" /\ ~Asked(c)'
    BY <1>1, <1>2, <1>5 DEF CallTyped, Asked
  <2>2. Limit(c)' = 0 /\ Answer(c)' = "declined"
    BY <2>1, AnswerCases DEF Limit, AnswerFits
  <2> QED BY <1>1, <1>3, <2>2 DEF ApiMove, Settles
<1> QED BY <1>4, <1>5

\* The service acts within the limit, and only while the caller may have to reckon with it.
LEMMA ServiceMove ==
  ASSUME Around, NEW c \in Calls, Service(c)
  PROVE  ApiMove(c)
<1> USE DEF Around, Before
<1>1. PICK r \in wire[c] :
        \/ \E kind \in Challenges : Digest!Challenge(c, r, kind)
        \/ \E status \in Failing \cup {op(c).success}, effect \in BOOLEAN :
             Digest!Serve(c, r, status, effect)
  BY DEF Service, Digest!Service
<1>2. UNCHANGED callVars
  BY DEF Service
<1>3. handled'[c] \in {handled[c], handled[c] + 1}
  BY <1>1 DEF Digest!Challenge, Digest!Serve, ApiInv, Shaped, DigestTyped
<1>4. Limit(c)' = Limit(c) /\ Answer(c)' = Answer(c)
  <2>1. Asked(c)' = Asked(c) /\ OnceOnly(request[c])' = OnceOnly(request[c])
    BY <1>2 DEF callVars, Asked, OnceOnly
  <2>2. Limit(c)' = Limit(c)
    BY <1>2, <2>1 DEF callVars, Limit
  <2>3. Answer(c)' = Answer(c)
    BY <1>2, <2>1 DEF callVars, Answer
  <2> QED BY <2>2, <2>3
<1>5. handled[c] <= retries[c] /\ Asked(c)
  BY Unserved DEF Asked
<1>6. handled[c] < Limit(c)
  <2>1. handled[c] \in Nat /\ retries[c] \in Nat /\ retries[c] <= Backoffs[request[c].policy]
    BY DEF ApiInv, Shaped, DigestTyped, CallTyped, CallFacts, Bounded
  <2>2. Backoffs[request[c].policy] \in Nat
    BY Unserved, RequestFacts
  <2>3. CASE OnceOnly(request[c])
    <3>1. retries[c] = 0
      BY <2>3 DEF ClientInv, CallInv, NotRetried
    <3>2. Limit(c) = 1
      BY <1>5, <2>3 DEF Limit
    <3> QED BY <1>5, <2>1, <3>1, <3>2
  <2>4. CASE ~OnceOnly(request[c])
    <3>1. Limit(c) = Backoffs[request[c].policy] + 1
      BY <1>5, <2>4 DEF Limit
    <3> QED BY <1>5, <2>1, <2>2, <3>1
  <2> QED BY <2>3, <2>4
<1>7. Answer(c) \in {"pending", "unknown"}
  <2>1. stage[c] = "done" => result[c].kind \notin {"success", "failure"}
    BY DEF ApiInv, CallFacts, Closed
  <2> QED BY <1>5, <2>1, AnswerCases DEF AnswerFits
<1> QED BY <1>3, <1>4, <1>6, <1>7 DEF ApiMove

\* A method that returns: what ApiCall has to be told then.
LEMMA ReturnMove ==
  ASSUME Around, NEW c \in Calls, stage[c] = "attempt", stage'[c] = "done",
         request'[c] = request[c], handled'[c] = handled[c],
         result'[c].kind = "success" => handled[c] > 0,
         result'[c].kind = "failure" /\ result'[c].status < 500 => handled[c] <= retries[c]
  PROVE  ApiMove(c)
<1> USE DEF Around, Before
<1>1. Answer(c) = "pending" /\ Asked(c)
  BY AnswerCases DEF AnswerFits, Asked, ApiInv, CallFacts, Bounded
<1>2. Asked(c)' /\ OnceOnly(request[c])' = OnceOnly(request[c])
  BY <1>1 DEF Asked, OnceOnly
<1>3. Limit(c)' = Limit(c) /\ Limit(c) > 0
  BY <1>1, <1>2, AskedLimit DEF Limit
<1>4. CASE result'[c].kind = "success"
  BY <1>1, <1>2, <1>3, <1>4, AnswerCases DEF AnswerFits, ApiMove, Settles
<1>5. CASE result'[c].kind = "failure" /\ result'[c].status < 500
  <2>1. Limit(c) = 1 => retries[c] = 0
    <3>1. OnceOnly(request[c]) => retries[c] = 0
      BY DEF ClientInv, CallInv, NotRetried
    <3>2. retries[c] \in Nat /\ retries[c] <= Backoffs[request[c].policy]
      BY DEF ApiInv, Shaped, CallTyped, CallFacts, Bounded
    <3> QED BY <1>1, <3>1, <3>2, AskedLimit
  <2>2. handled[c] \in Nat /\ handled[c] <= retries[c]
    BY <1>5 DEF ApiInv, Shaped, DigestTyped
  <2>3. Limit(c) = 1 => handled[c] = 0
    BY <2>1, <2>2
  <2>4. Answer(c)' = "rejected"
    BY <1>2, <1>5, AnswerCases DEF AnswerFits
  <2> QED BY <1>1, <1>3, <2>3, <2>4 DEF ApiMove, Settles
<1>6. CASE /\ result'[c].kind # "success"
           /\ ~(result'[c].kind = "failure" /\ result'[c].status < 500)
  <2>1. Answer(c)' = "unknown"
    BY <1>2, <1>6, AnswerCases DEF AnswerFits
  <2> QED BY <1>1, <1>3, <2>1 DEF ApiMove, Settles
<1> QED BY <1>4, <1>5, <1>6

\* What Classify says of a response.
LEMMA ClassifySays ==
  ASSUME NEW o, NEW status \in Nat, NEW decodes
  PROVE  /\ Classify(o, status, decodes).kind = "success" => status = o.success
         /\ Classify(o, status, decodes).kind = "failure" =>
              status # o.success /\ Classify(o, status, decodes).status = status
<1>1. \/ Classify(o, status, decodes) = Result("unknown", 0)
      \/ Classify(o, status, decodes) = Result("error", 0)
      \/ Classify(o, status, decodes) = Result("success", status) /\ status = o.success
      \/ Classify(o, status, decodes) = Result("failure", status) /\ status # o.success
  BY DEF Classify
<1> QED BY <1>1 DEF Result

\* A response decides: what says success was carried out, what rejects a request was not.
LEMMA ConcludeMove ==
  ASSUME Around, NEW c \in Calls, Conclude(c)
  PROVE  ApiMove(c)
<1> USE DEF Around, Before
<1> DEFINE status == outcome[c].status
<1>1. /\ stage[c] = "attempt" /\ outcome[c].kind = "response"
      /\ request' = request /\ handled' = handled /\ CallFacts(c) /\ CallTyped
      /\ status \in Nat /\ handled[c] \in Nat /\ retries[c] \in Nat
  BY DEF Conclude, Answered, Digest!Consume, ApiInv, Shaped, CallTyped, DigestTyped, Outcome
<1>2. PICK decodes \in BOOLEAN : Return(c, Classify(op(c), status, decodes))
  BY DEF Conclude
<1>3. stage'[c] = "done" /\ result'[c] = Classify(op(c), status, decodes)
  BY <1>1, <1>2 DEF Return, CallTyped
<1>4. Truthful(c, status)
  BY <1>1 DEF CallFacts, Honest
<1>5. op(c).success < 300
  BY <1>1, RequestFacts, Successes DEF CallFacts, Bounded, op
<1> HIDE DEF status
<1>6. result'[c].kind = "success" => handled[c] > 0
  BY <1>1, <1>3, <1>4, <1>5, ClassifySays DEF Truthful
<1>7. result'[c].kind = "failure" /\ result'[c].status < 500 => handled[c] <= retries[c]
  <2>1. SUFFICES ASSUME result'[c].kind = "failure", result'[c].status < 500
                 PROVE  handled[c] <= retries[c]
    OBVIOUS
  <2>2. status # op(c).success /\ status < 500
    <3>1. status # op(c).success /\ result'[c].status = status
      BY <1>1, <1>3, <2>1, ClassifySays
    <3> QED BY <2>1, <3>1
  <2>3. status \in 300..499
    BY <1>1, <1>4, <2>2 DEF Truthful
  <2> QED BY <1>4, <2>3 DEF Truthful
<1> QED BY <1>1, <1>3, <1>6, <1>7, ReturnMove

\* An error or a panic leaves open what became of the call.
LEMMA LostMove ==
  ASSUME Around, NEW c \in Calls, GiveUp(c) \/ Unwind(c)
  PROVE  ApiMove(c)
<1> USE DEF Around, Before
<1>1. /\ stage[c] = "attempt" /\ request' = request /\ handled' = handled /\ CallTyped
      /\ Return(c, ErrorResult) \/ Return(c, Result("panic", 0))
  BY DEF GiveUp, Unwind, Errored, digestVars, Digest!Consume, ApiInv, Shaped
<1>2. stage'[c] = "done" /\ result'[c].kind \in {"error", "panic"}
  BY <1>1 DEF Return, CallTyped, ErrorResult, Result
<1> QED BY <1>1, <1>2, ReturnMove

\* The steps of an attempt and between two.
LEMMA AttemptMove ==
  ASSUME Around, NEW c \in Calls,
         WaitForToken(c) \/ RoundTrip(c) \/ Handshake(c) \/ Retry(c) \/ Wake(c)
  PROVE  ApiMove(c)
<1> USE DEF Around, Before
<1>1. stage[c] \in {"attempt", "sleep"}
  <2>1. Handshake(c) => exchange[c] # "none"
    BY DEF Handshake, Digest!Answer, Digest!Unanswerable, Digest!Deliver, Digest!Fail,
       Digest!Challenged, Digest!Arrived
  <2> QED BY <2>1, UnderWay DEF WaitForToken, RoundTrip, Retry, Wake, Answered
<1>2. request' = request /\ handled' = handled
  BY DEF WaitForToken, RoundTrip, Handshake, Retry, Wake, digestVars, callVars,
     Digest!RoundTrip, Digest!Answer, Digest!Unanswerable, Digest!Deliver, Digest!Fail,
     Digest!Finish, Digest!Consume
<1>3. \/ stage' = stage
      \/ \E s \in {"attempt", "sleep"} : stage' = [stage EXCEPT ![c] = s]
  BY DEF WaitForToken, RoundTrip, Handshake, Retry, Wake, callVars
<1>4. stage'[c] \in {"attempt", "sleep"}
  BY <1>1, <1>3 DEF ApiInv, Shaped, CallTyped
<1> QED BY <1>1, <1>2, <1>4, RunningMove

\* Every step is one of ApiCall's, or none that it sees.
LEMMA StepImplements == Around /\ [Next]_vars => [Api!Next]_(Api!vars)
<1> SUFFICES ASSUME Around, [Next]_vars PROVE [Api!Next]_(Api!vars)
  OBVIOUS
<1> USE DEF Around, Before
<1>1. ASSUME NEW c \in Calls,
             \/ \E r \in Requests, life \in Lives : Start(c, r, life)
             \/ ClientStep(c)
             \/ Service(c)
      PROVE  [Api!Next]_(Api!vars)
  <2>1. ApiMove(c)
    BY <1>1, StartMove, AttemptMove, ConcludeMove, LostMove, ServiceMove DEF ClientStep
  <2>2. \A d \in Calls \ {c} : Unconcerned(d)
    BY <1>1, OthersUnconcerned
  <2> QED BY <2>1, <2>2, MoveImplements DEF ApiInv, Shaped
<1>2. CASE UNCHANGED <<digestVars, callVars>>
  BY <1>2 DEF digestVars, callVars, Api!vars, Answer, Asked
<1> QED BY <1>1, <1>2 DEF Next, Tick, CancelCall, vars

\* The client implements ApiCall: the service carries a call out no more often than it was
\* asked to, an answer of success is true, one that rejects a call asked for once means that
\* nothing was done, and nothing is done once the caller has an answer that settles the matter.
THEOREM Implementation == Spec => ImplementsApiCall
<1>1. Init => Api!Init
  <2>1. ASSUME Init, NEW c \in Calls PROVE Answer(c) = "pending" /\ ~Asked(c)
    <3>1. stage[c] = "new" /\ result[c] = NoResult /\ ~Asked(c)
      BY <2>1 DEF Init, Asked
    <3>2. Answer(c) = Telling(stage[c], Asked(c), result[c])
      BY DEF Answer, Telling
    <3>3. Asked(c) \in BOOLEAN
      BY DEF Asked
    <3> QED BY <3>1, <3>2, <3>3, TellingCases
  <2> QED BY <2>1 DEF Init, Digest!DigestInit, Api!Init
<1>2. Around /\ [Next]_vars => [Api!Next]_(Api!vars)
  BY StepImplements
<1> QED BY <1>1, <1>2, ClientInvariant, ApiInvariant, PTL
        DEF Spec, ImplementsApiCall, Api!Spec, Around, Before

=============================================================================
