------------------------- MODULE AtlasClientProofs -------------------------
(***************************************************************************)
(* What AtlasClient promises, for every number of calls, every limiter and *)
(* every service.                                                          *)
(***************************************************************************)
EXTENDS AtlasClient, TLAPS

(***************************************************************************)
(* The inductive invariant.                                                *)
(***************************************************************************)
\* What the parts below need to know of the state's types.
Typed ==
  /\ stage \in [Calls -> {"new", "attempt", "sleep", "done"}]
  /\ retries \in [Calls -> Nat] /\ sends \in [Calls -> Nat] /\ handled \in [Calls -> Nat]
  /\ exchange \in [Calls -> {"none", "probe", "answer"}]
  /\ DOMAIN request = Calls /\ DOMAIN outcome = Calls /\ DOMAIN reply = Calls
  /\ DOMAIN wire = Calls /\ DOMAIN unread = Calls /\ DOMAIN body = Calls

\* c has nothing under way and will not send before its next attempt does.
AtRest(c) ==
  \/ stage[c] \in {"new", "sleep"}
  \/ stage[c] = "attempt" /\ Digest!Ready(c)

Rests(c) ==
  AtRest(c) => /\ wire[c] = {} /\ reply[c] = Digest!NoReply
               /\ exchange[c] = "none" /\ outcome[c] = Digest!NoOutcome
               /\ (stage[c] # "sleep" => unread[c] = TRUE)

\* The service holds at most one request of c, the last one sent, and none once
\* its response is on the way or in the caller's hands.
OneOut(c) ==
  /\ \A r, s \in wire[c] : r = s /\ r.seq = sends[c] /\ r.body = TRUE
  /\ reply[c] # Digest!NoReply => wire[c] = {} /\ exchange[c] # "none"
  /\ outcome[c].kind = "response" =>
       wire[c] = {} /\ exchange[c] = "none" /\ reply[c] = Digest!NoReply
  /\ exchange[c] # "none" => body[c] = TRUE /\ outcome[c] = Digest!NoOutcome

\* c may still be carried out in this attempt.
Open(c) ==
  AtRest(c) \/ wire[c] # {} \/ (exchange[c] = "probe" /\ reply[c].status = 401)

Budget(c) ==
  /\ handled[c] <= retries[c] + 1
  /\ Open(c) => handled[c] <= retries[c]

Legs(c) ==
  /\ sends[c] <= 2 * (retries[c] + 1)
  /\ AtRest(c) => sends[c] <= 2 * retries[c]
  /\ exchange[c] = "probe" => sends[c] <= 2 * retries[c] + 1

NotRetried(c) ==
  /\ stage[c] = "new" => retries[c] = 0
  /\ OnceOnly(request[c]) => retries[c] = 0

CallInv(c) == Rests(c) /\ OneOut(c) /\ Budget(c) /\ Legs(c) /\ NotRetried(c)

ClientInv == Typed /\ \A c \in Calls : CallInv(c)

\* The state of one call, on which its CallInv depends.
SameCall(c) ==
  /\ stage'[c] = stage[c] /\ retries'[c] = retries[c] /\ request'[c] = request[c]
  /\ sends'[c] = sends[c] /\ handled'[c] = handled[c] /\ unread'[c] = unread[c]
  /\ body'[c] = body[c] /\ exchange'[c] = exchange[c] /\ outcome'[c] = outcome[c]
  /\ reply'[c] = reply[c] /\ wire'[c] = wire[c]

\* A call that a step does not concern keeps its part of the invariant.
LEMMA SameCallInv ==
  ASSUME NEW c \in Calls, CallInv(c), SameCall(c)
  PROVE  CallInv(c)'
BY DEF SameCall, CallInv, Rests, AtRest, OneOut, Open, Budget, Legs, NotRetried,
       OnceOnly, Digest!Ready

\* A new client satisfies the invariant.
LEMMA InitClient == Init => ClientInv
BY DEF Init, Digest!DigestInit, ClientInv, Typed, CallInv, Rests, AtRest, OneOut,
       Open, Budget, Legs, NotRetried, OnceOnly, NoRequest, Digest!Ready

\* So a step that concerns one call only has to keep that call's part.
LEMMA OneCallInv ==
  ASSUME ClientInv, NEW c \in Calls, Typed', CallInv(c)',
         \A d \in Calls \ {c} : SameCall(d)
  PROVE  ClientInv'
<1>1. ASSUME NEW d \in Calls, d # c PROVE CallInv(d)'
  BY <1>1, SameCallInv DEF ClientInv
<1> QED BY <1>1 DEF ClientInv

\* Steps of the limiter, of the contexts and of time concern no call's part.
LEMMA QuietInv ==
  ASSUME ClientInv, UNCHANGED <<digestVars, callVars>>
  PROVE  ClientInv'
<1>1. Typed'
  BY DEF ClientInv, Typed, digestVars, callVars
<1>2. \A c \in Calls : SameCall(c)
  BY DEF SameCall, digestVars, callVars
<1> QED BY <1>1, <1>2, SameCallInv DEF ClientInv

\* Making a call.
LEMMA StartInv ==
  ASSUME ClientInv, NEW c \in Calls, NEW r, NEW life, Start(c, r, life)
  PROVE  ClientInv'
<1>1. /\ stage[c] = "new" /\ retries' = retries /\ digestVars' = digestVars
      /\ request' = [request EXCEPT ![c] = r]
      /\ \E s \in {"attempt", "done"} : stage' = [stage EXCEPT ![c] = s]
  BY DEF Start, Return
<1> USE DEF digestVars
<1>2. Typed'
  BY <1>1 DEF ClientInv, Typed
<1>3. ASSUME NEW d \in Calls, d # c PROVE SameCall(d)
  BY <1>1, <1>3 DEF ClientInv, Typed, SameCall
<1>4. CallInv(c)'
  <2>1. Rests(c)' /\ OneOut(c)' /\ Budget(c)' /\ Legs(c)'
    BY <1>1 DEF ClientInv, Typed, CallInv, Rests, AtRest, OneOut, Open, Budget,
                Legs, Digest!Ready
  <2>2. NotRetried(c)'
    BY <1>1 DEF ClientInv, Typed, CallInv, NotRetried
  <2> QED BY <2>1, <2>2 DEF CallInv
<1> QED BY <1>2, <1>3, <1>4, OneCallInv

\* The first request of an attempt.
LEMMA RoundTripInv ==
  ASSUME ClientInv, NEW c \in Calls, RoundTrip(c)
  PROVE  ClientInv'
<1> DEFINE probe == [seq |-> sends[c] + 1, auths |-> header[c], body |-> unread[c]]
<1>1. /\ stage[c] = "attempt" /\ Digest!Ready(c) /\ callVars' = callVars
      /\ unread' = [unread EXCEPT ![c] = FALSE]
      /\ body' = [body EXCEPT ![c] = unread[c]]
      /\ exchange' = [exchange EXCEPT ![c] = "probe"]
      /\ sends' = [sends EXCEPT ![c] = @ + 1]
      /\ wire' = [wire EXCEPT ![c] = @ \cup {probe}]
      /\ reply' = reply /\ outcome' = outcome /\ handled' = handled
  BY DEF RoundTrip, Digest!RoundTrip, Digest!Send
<1>0. probe.seq = sends[c] + 1 /\ probe.body = unread[c]
  OBVIOUS
<1> HIDE DEF probe
<1> USE DEF callVars
<1>2. Typed'
  BY <1>1 DEF ClientInv, Typed
<1>3. ASSUME NEW d \in Calls, d # c PROVE SameCall(d)
  BY <1>1, <1>3 DEF ClientInv, Typed, SameCall
<1>4. CallInv(c)'
  <2>1. /\ AtRest(c) /\ wire[c] = {} /\ reply[c] = Digest!NoReply /\ unread[c] = TRUE
        /\ outcome[c] = Digest!NoOutcome
    BY <1>1 DEF ClientInv, CallInv, Rests, AtRest
  <2>2. /\ ~AtRest(c)' /\ wire'[c] = {probe} /\ exchange'[c] = "probe"
        /\ sends'[c] = sends[c] + 1 /\ body'[c] = TRUE
    BY <1>1, <2>1 DEF ClientInv, Typed, AtRest, Digest!Ready
  <2>3. Rests(c)' /\ OneOut(c)'
    BY <1>0, <1>1, <2>1, <2>2 DEF Rests, OneOut, Digest!NoOutcome
  <2>4. Budget(c)'
    BY <1>1, <2>1 DEF ClientInv, CallInv, Budget, Open
  <2>5. Legs(c)'
    BY <1>1, <2>1, <2>2 DEF ClientInv, Typed, CallInv, Legs
  <2>6. NotRetried(c)'
    BY <1>1 DEF ClientInv, CallInv, NotRetried, OnceOnly
  <2> QED BY <2>3, <2>4, <2>5, <2>6 DEF CallInv
<1> QED BY <1>2, <1>3, <1>4, OneCallInv

\* The second one.
LEMMA AnswerInv ==
  ASSUME ClientInv, NEW c \in Calls, Digest!Answer(c), callVars' = callVars
  PROVE  ClientInv'
<1> DEFINE answer ==
      [seq |-> sends[c] + 1,
       auths |-> Append(header[c], [nonce |-> reply[c].nonce, nc |-> 1]),
       body |-> body[c]]
<1>1. /\ exchange[c] = "probe" /\ reply[c].status = 401 /\ reply[c] # Digest!NoReply
      /\ exchange' = [exchange EXCEPT ![c] = "answer"]
      /\ sends' = [sends EXCEPT ![c] = @ + 1]
      /\ wire' = [wire EXCEPT ![c] = @ \cup {answer}]
      /\ reply' = [reply EXCEPT ![c] = Digest!NoReply]
      /\ unread' = unread /\ body' = body /\ outcome' = outcome /\ handled' = handled
  BY DEF Digest!Answer, Digest!Challenged, Digest!Arrived, Digest!ExecuteRequest,
         Digest!Send
<1>0. answer.seq = sends[c] + 1 /\ answer.body = body[c]
  OBVIOUS
<1> HIDE DEF answer
<1> USE DEF callVars
<1>2. Typed'
  BY <1>1 DEF ClientInv, Typed
<1>3. ASSUME NEW d \in Calls, d # c PROVE SameCall(d)
  BY <1>1, <1>3 DEF ClientInv, Typed, SameCall
<1>4. CallInv(c)'
  <2>1. /\ ~AtRest(c) /\ wire[c] = {} /\ body[c] = TRUE /\ outcome[c] = Digest!NoOutcome
        /\ Open(c)
    BY <1>1 DEF ClientInv, CallInv, Rests, OneOut, Open
  <2>2. /\ ~AtRest(c)' /\ wire'[c] = {answer} /\ exchange'[c] = "answer"
        /\ sends'[c] = sends[c] + 1 /\ reply'[c] = Digest!NoReply
    BY <1>1, <2>1 DEF ClientInv, Typed, AtRest, Digest!Ready
  <2>3. Rests(c)' /\ OneOut(c)'
    BY <1>0, <1>1, <2>1, <2>2 DEF Rests, OneOut, Digest!NoOutcome
  <2>4. Budget(c)' /\ Legs(c)'
    BY <1>1, <2>1, <2>2 DEF ClientInv, Typed, CallInv, Budget, Legs
  <2>5. NotRetried(c)'
    BY <1>1 DEF ClientInv, CallInv, NotRetried, OnceOnly
  <2> QED BY <2>3, <2>4, <2>5 DEF CallInv
<1> QED BY <1>2, <1>3, <1>4, OneCallInv

\* The end of an exchange: what Execute returns.
LEMMA FinishInv ==
  ASSUME ClientInv, NEW c \in Calls, callVars' = callVars,
         Digest!Unanswerable(c) \/ Digest!Deliver(c) \/ Digest!Fail(c)
  PROVE  ClientInv'
<1>1. /\ exchange[c] # "none" /\ outcome'[c] # Digest!NoOutcome
      /\ exchange' = [exchange EXCEPT ![c] = "none"]
      /\ reply' = [reply EXCEPT ![c] = Digest!NoReply]
      /\ outcome' = [outcome EXCEPT ![c] = outcome'[c]]
      /\ outcome'[c].kind = "response" => reply[c] # Digest!NoReply
      /\ unread' = unread /\ body' = body /\ wire' = wire
      /\ sends' = sends /\ handled' = handled
  <2> USE DEF Digest!Finish, Digest!Failed, Digest!Panicked, Digest!Response,
              Digest!NoOutcome, ClientInv, Typed
  <2>1. CASE Digest!Unanswerable(c)
    BY <2>1 DEF Digest!Unanswerable, Digest!Challenged, Digest!Arrived
  <2>2. CASE Digest!Deliver(c)
    BY <2>2 DEF Digest!Deliver, Digest!Arrived
  <2>3. CASE Digest!Fail(c)
    BY <2>3 DEF Digest!Fail
  <2> QED BY <2>1, <2>2, <2>3
<1> USE DEF callVars
<1>2. Typed'
  BY <1>1 DEF ClientInv, Typed
<1>3. ASSUME NEW d \in Calls, d # c PROVE SameCall(d)
  BY <1>1, <1>3 DEF ClientInv, Typed, SameCall
<1>4. CallInv(c)'
  <2>1. ~AtRest(c) /\ (reply[c] # Digest!NoReply => wire[c] = {})
    BY <1>1 DEF ClientInv, CallInv, Rests, OneOut
  <2>2. /\ ~AtRest(c)' /\ exchange'[c] = "none" /\ reply'[c] = Digest!NoReply
    BY <1>1, <2>1 DEF ClientInv, Typed, AtRest, Digest!Ready
  <2>3. Rests(c)' /\ OneOut(c)'
    BY <1>1, <2>1, <2>2 DEF ClientInv, CallInv, Rests, OneOut
  <2>4. Budget(c)' /\ Legs(c)'
    BY <1>1, <2>1, <2>2 DEF ClientInv, CallInv, Budget, Open, Legs
  <2>5. NotRetried(c)'
    BY <1>1 DEF ClientInv, CallInv, NotRetried, OnceOnly
  <2> QED BY <2>3, <2>4, <2>5 DEF CallInv
<1> QED BY <1>2, <1>3, <1>4, OneCallInv

\* retryDoer taking up the result of an attempt and closing the response.
LEMMA ConsumeInv ==
  ASSUME ClientInv, NEW c \in Calls, Retry(c) \/ Conclude(c) \/ GiveUp(c) \/ Unwind(c)
  PROVE  ClientInv'
<1>1. /\ stage[c] = "attempt" /\ request' = request
      /\ unread' = unread /\ body' = body /\ exchange' = exchange /\ wire' = wire
      /\ reply' = reply /\ sends' = sends /\ handled' = handled
      /\ \E s \in {"sleep", "done"} :
           /\ stage' = [stage EXCEPT ![c] = s]
           /\ s = "done" => retries' = retries
           /\ s = "sleep" => /\ outcome[c].kind = "response"
                            /\ outcome'[c] = Digest!NoOutcome
                            /\ retries' = [retries EXCEPT ![c] = @ + 1]
                            /\ ~OnceOnly(request[c])
      /\ \/ outcome' = outcome
         \/ outcome' = [outcome EXCEPT ![c] = Digest!NoOutcome]
  <2> USE DEF Return, Digest!Consume, digestVars, ClientInv, Typed
  <2>1. CASE Retry(c)
    <3>1. ~OnceOnly(request[c])
      BY <2>1 DEF Retry, MayRetry, Verdicts, Retryable, OnceOnly
    <3> QED BY <2>1, <3>1 DEF Retry, Answered
  <2>2. CASE Conclude(c)
    BY <2>2 DEF Conclude, Answered
  <2>3. CASE GiveUp(c)
    BY <2>3 DEF GiveUp, Errored
  <2>4. CASE Unwind(c)
    BY <2>4 DEF Unwind, Errored
  <2> QED BY <2>1, <2>2, <2>3, <2>4
<1>2. Typed'
  BY <1>1 DEF ClientInv, Typed
<1>3. ASSUME NEW d \in Calls, d # c PROVE SameCall(d)
  BY <1>1, <1>3 DEF ClientInv, Typed, SameCall
<1>4. CASE stage'[c] = "sleep"
  <2>1. /\ outcome[c].kind = "response" /\ outcome'[c] = Digest!NoOutcome
        /\ retries'[c] = retries[c] + 1 /\ ~OnceOnly(request[c])
    BY <1>1, <1>4 DEF ClientInv, Typed
  <2>2. wire[c] = {} /\ exchange[c] = "none" /\ reply[c] = Digest!NoReply
    BY <2>1 DEF ClientInv, CallInv, OneOut
  <2>3. Rests(c)' /\ OneOut(c)'
    BY <1>1, <1>4, <2>1, <2>2 DEF Rests, OneOut, Digest!NoOutcome
  <2>4. Budget(c)' /\ Legs(c)'
    BY <1>1, <2>1, <2>2 DEF ClientInv, Typed, CallInv, Budget, Legs
  <2>5. NotRetried(c)'
    BY <1>1, <1>4, <2>1 DEF NotRetried, OnceOnly
  <2>6. CallInv(c)'
    BY <2>3, <2>4, <2>5 DEF CallInv
  <2> QED BY <2>6, <1>2, <1>3, OneCallInv
<1>5. CASE stage'[c] = "done"
  <2>1. retries' = retries /\ ~AtRest(c)'
    BY <1>1, <1>5 DEF ClientInv, Typed, AtRest
  <2>2. outcome'[c] \in {outcome[c], Digest!NoOutcome}
    BY <1>1 DEF ClientInv, Typed
  <2>3. Rests(c)' /\ OneOut(c)'
    BY <1>1, <2>1, <2>2 DEF ClientInv, CallInv, Rests, OneOut, Digest!NoOutcome
  <2>4. Budget(c)' /\ Legs(c)'
    BY <1>1, <2>1 DEF ClientInv, CallInv, Budget, Open, Legs
  <2>5. NotRetried(c)'
    BY <1>1, <1>5, <2>1 DEF ClientInv, CallInv, NotRetried, OnceOnly
  <2>6. CallInv(c)'
    BY <2>3, <2>4, <2>5 DEF CallInv
  <2> QED BY <2>6, <1>2, <1>3, OneCallInv
<1> QED BY <1>1, <1>4, <1>5 DEF ClientInv, Typed

\* The next attempt, its body restored.
LEMMA WakeInv ==
  ASSUME ClientInv, NEW c \in Calls, Wake(c)
  PROVE  ClientInv'
<1>1. /\ stage[c] = "sleep" /\ stage' = [stage EXCEPT ![c] = "attempt"]
      /\ unread' = [unread EXCEPT ![c] = TRUE] /\ request' = request
      /\ retries' = retries /\ outcome' = outcome
      /\ body' = body /\ exchange' = exchange /\ wire' = wire
      /\ reply' = reply /\ sends' = sends /\ handled' = handled
  BY DEF Wake
<1>2. Typed'
  BY <1>1 DEF ClientInv, Typed
<1>3. ASSUME NEW d \in Calls, d # c PROVE SameCall(d)
  BY <1>1, <1>3 DEF ClientInv, Typed, SameCall
<1>4. CallInv(c)'
  <2>1. AtRest(c) /\ stage'[c] = "attempt" /\ unread'[c] = TRUE
    BY <1>1 DEF ClientInv, Typed, AtRest
  <2> QED BY <1>1, <2>1 DEF ClientInv, CallInv, Rests, OneOut, Budget, Open, Legs,
             NotRetried, OnceOnly
<1> QED BY <1>2, <1>3, <1>4, OneCallInv

\* The service taking up a request, whether or not its sender still waits.
LEMMA ServiceInv ==
  ASSUME ClientInv, NEW c \in Calls, Service(c)
  PROVE  ClientInv'
<1>1. PICK r \in wire[c] :
        /\ wire' = [wire EXCEPT ![c] = @ \ {r}]
        /\ reply' = IF exchange[c] # "none" /\ r.seq = sends[c]
                    THEN [reply EXCEPT ![c] = reply'[c]] ELSE reply
        /\ handled' \in {handled, [handled EXCEPT ![c] = @ + 1]}
        /\ exchange[c] # "none" /\ r.seq = sends[c] /\ reply'[c].status = 401 =>
             handled' = handled
  <2>1. PICK r \in wire[c] :
          \/ \E kind \in Challenges : Digest!Challenge(c, r, kind)
          \/ \E status \in Failing \cup {op(c).success}, effect \in BOOLEAN :
               Digest!Serve(c, r, status, effect)
    BY DEF Service, Digest!Service
  <2>2. ASSUME NEW kind, Digest!Challenge(c, r, kind)
        PROVE  \E response : Digest!Respond(c, r, response) /\ handled' = handled
    BY <2>2 DEF Digest!Challenge
  <2>3. ASSUME NEW status, NEW effect \in BOOLEAN, Digest!Serve(c, r, status, effect)
        PROVE  \E response :
                 /\ Digest!Respond(c, r, response)
                 /\ handled' \in {handled, [handled EXCEPT ![c] = @ + 1]}
                 /\ response.status = 401 => handled' = handled
    <3> DEFINE served == [status |-> status, challenge |-> "none", nonce |-> 0]
    <3>1. /\ Digest!Respond(c, r, served)
          /\ effect => status \notin 300..499
          /\ handled' = IF effect THEN [handled EXCEPT ![c] = @ + 1] ELSE handled
      BY <2>3 DEF Digest!Serve
    <3>2. served.status = 401 => handled' = handled
      BY <3>1
    <3> HIDE DEF served
    <3> QED BY <3>1, <3>2
  <2>4. PICK response :
          /\ Digest!Respond(c, r, response)
          /\ handled' \in {handled, [handled EXCEPT ![c] = @ + 1]}
          /\ response.status = 401 => handled' = handled
    BY <2>1, <2>2, <2>3
  <2> QED BY <2>4 DEF Digest!Respond, ClientInv, Typed
<1>2. /\ unread' = unread /\ body' = body /\ exchange' = exchange
      /\ outcome' = outcome /\ sends' = sends /\ callVars' = callVars
  BY DEF Service, Digest!Service, Digest!Challenge, Digest!Serve, Digest!Respond
<1> USE DEF callVars
<1>3. Typed'
  BY <1>1, <1>2 DEF ClientInv, Typed
<1>4. ASSUME NEW d \in Calls, d # c PROVE SameCall(d)
  BY <1>1, <1>2, <1>4 DEF ClientInv, Typed, SameCall
<1>5. CallInv(c)'
  <2>1. /\ ~AtRest(c) /\ Open(c) /\ wire[c] = {r} /\ r.seq = sends[c]
        /\ reply[c] = Digest!NoReply
    BY DEF ClientInv, CallInv, Rests, OneOut, Open
  <2>2. wire'[c] = {} /\ ~AtRest(c)'
    BY <1>1, <1>2, <2>1 DEF ClientInv, Typed, AtRest, Digest!Ready
  <2>3. /\ handled[c] <= retries[c] /\ handled[c] \in Nat /\ retries[c] \in Nat
        /\ handled'[c] \in {handled[c], handled[c] + 1}
    BY <1>1, <2>1 DEF ClientInv, Typed, CallInv, Budget
  <2>4. exchange[c] # "none" /\ reply'[c].status = 401 => handled'[c] = handled[c]
    BY <1>1, <2>1
  <2>5. Rests(c)' /\ OneOut(c)'
    BY <1>1, <1>2, <2>1, <2>2 DEF ClientInv, CallInv, Rests, OneOut
  <2>6. Budget(c)'
    BY <1>1, <1>2, <2>2, <2>3, <2>4 DEF Budget, Open
  <2>7. Legs(c)' /\ NotRetried(c)'
    BY <1>2, <2>2 DEF ClientInv, CallInv, Legs, NotRetried, OnceOnly
  <2> QED BY <2>5, <2>6, <2>7 DEF CallInv
<1> QED BY <1>3, <1>4, <1>5, OneCallInv

(***************************************************************************)
(* The theorems.                                                           *)
(***************************************************************************)
\* The inductive invariant holds in every state of the client.
THEOREM ClientInvariant == Spec => []ClientInv
<1>1. ASSUME ClientInv, [Next]_vars PROVE ClientInv'
  <2>1. CASE UNCHANGED vars
    BY <1>1, <2>1, QuietInv DEF vars
  <2>2. CASE Tick
    BY <1>1, <2>2, QuietInv DEF Tick
  <2>3. ASSUME NEW c \in Calls, NEW r \in Requests, NEW life \in Lives, Start(c, r, life)
        PROVE  ClientInv'
    BY <1>1, <2>3, StartInv
  <2>4. ASSUME NEW c \in Calls, ClientStep(c) PROVE ClientInv'
    BY <1>1, <2>4, QuietInv, RoundTripInv, AnswerInv, FinishInv, ConsumeInv, WakeInv
       DEF ClientStep, WaitForToken, Handshake
  <2>5. ASSUME NEW c \in Calls, CancelCall(c) \/ Service(c) PROVE ClientInv'
    BY <1>1, <2>5, QuietInv, ServiceInv DEF CancelCall
  <2> QED BY <1>1, <2>1, <2>2, <2>3, <2>4, <2>5 DEF Next
<1> QED BY <1>1, InitClient, PTL DEF Spec

\* No creation or change is carried out twice (doer.go:90 and 115).
THEOREM CarriedOutOnce == Spec => []AtMostOnce
<1>1. ClientInv => AtMostOnce
  BY DEF ClientInv, Typed, CallInv, Budget, NotRetried, AtMostOnce
<1> QED BY <1>1, ClientInvariant, PTL

\* A retried operation is not carried out more often than it was attempted.
THEOREM AttemptsKept == Spec => []OncePerAttempt
<1>1. ClientInv => OncePerAttempt
  BY DEF ClientInv, Typed, CallInv, Budget, OncePerAttempt
<1> QED BY <1>1, ClientInvariant, PTL

\* Every request on the wire has its whole body.
THEOREM BodiesWhole == Spec => []WholeBody
<1>1. ClientInv => WholeBody
  BY DEF ClientInv, CallInv, OneOut, WholeBody
<1> QED BY <1>1, ClientInvariant, PTL

\* A token of the rate limiter pays for two requests at most.
THEOREM TokensPay == Spec => []TwoSendsPerToken
<1>1. ClientInv => TwoSendsPerToken
  BY DEF ClientInv, Typed, CallInv, OneOut, Legs, TwoSendsPerToken
<1> QED BY <1>1, ClientInvariant, PTL

\* The limiter in the client is run as RateLimiter has it, whatever calls do between one
\* token and the next (client.go:15, one limiter in front of every round trip).  The
\* history of RateLimiterHistory only records its steps, so what RateLimiterProofs says
\* of reservations holds of the client's.
THEOREM LimiterInside == Spec => Limiter!LimiterSpec
<1>1. Init => Limiter!LimiterInit
  BY DEF Init
<1>2. [Next]_vars => [Limiter!LimiterNext]_(Limiter!limiterVars)
  <2> SUFFICES ASSUME [Next]_vars
               PROVE  Limiter!LimiterNext \/ UNCHANGED Limiter!limiterVars
    OBVIOUS
  <2> USE DEF limiterVars, Limiter!limiterVars
  <2>1. CASE UNCHANGED vars
    BY <2>1 DEF vars
  <2>2. CASE Tick
    BY <2>2 DEF Tick, Limiter!LimiterNext
  <2>3. ASSUME NEW c \in Calls, NEW r \in Requests, NEW life \in Lives, Start(c, r, life)
        PROVE  Limiter!LimiterNext \/ UNCHANGED limiterVars
    <3>1. CASE r.empty = {}
      BY <2>3, <3>1 DEF Start, Limiter!LimiterNext
    <3>2. CASE r.empty # {}
      BY <2>3, <3>2 DEF Start
    <3> QED BY <3>1, <3>2
  <2>4. ASSUME NEW c \in Calls, ClientStep(c)
        PROVE  Limiter!LimiterNext \/ UNCHANGED limiterVars
    <3>1. CASE WaitForToken(c)
      BY <3>1 DEF WaitForToken, Limiter!LimiterNext
    <3>2. CASE RoundTrip(c) \/ Handshake(c) \/ Wake(c) \/ Unwind(c)
      BY <3>2 DEF RoundTrip, Handshake, Wake, Unwind
    <3>3. CASE Retry(c) \/ Conclude(c) \/ GiveUp(c)
      <4>1. Limiter!Return(c)
        BY <3>3 DEF Retry, Conclude, GiveUp
      <4> QED BY <4>1 DEF Limiter!LimiterNext
    <3> QED BY <2>4, <3>1, <3>2, <3>3 DEF ClientStep
  <2>5. ASSUME NEW c \in Calls, CancelCall(c) \/ Service(c)
        PROVE  Limiter!LimiterNext \/ UNCHANGED limiterVars
    BY <2>5 DEF CancelCall, Service, Limiter!LimiterNext
  <2> QED BY <2>1, <2>2, <2>3, <2>4, <2>5 DEF Next
<1> QED BY <1>1, <1>2, PTL DEF Spec, Limiter!LimiterSpec

=============================================================================
