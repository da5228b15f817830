------------------------ MODULE CircuitBreakerProofs ------------------------
(***************************************************************************)
(* The circuit breaker of CircuitBreaker, for any calls and any settings   *)
(* of the circuit, whatever hystrix does when.                             *)
(***************************************************************************)
EXTENDS CircuitBreaker, FiniteSetTheorems, TLAPS

Came == Outcomes \ {"panic"}

\* A call that has not been made.
Fresh(c) ==
  stage[c] = "new" =>
    /\ ~passes[c] /\ visits[c] = 0 /\ came[c] = "none"
    /\ resp[c] = Nil /\ ~open[c] /\ command[c] = "none"

\* What the command of a call has told, and who has ended it.
CommandKept(c) ==
  /\ command[c] \in {"none", "begun"} => claimed[c] = "nobody"
  /\ command[c] \in {"none", "begun", "running", "writing"} => ~done[c]
  /\ claimed[c] = "nobody"  => fault[c] = Nil /\ command[c] # "over"
  /\ claimed[c] = "timer"   => fault[c] = "timeout"
  /\ claimed[c] = "command" => command[c] = "over"

\* A response is open until the method returns.
RespKept(c) ==
  /\ resp[c] = RespOf(came[c])
  /\ stage[c] # "done" => (open[c] <=> resp[c] # Nil)

\* In debug mode what came is in the variables of Do before there is a command.
Passing(c) ==
  passes[c] =>
    /\ stage[c] \in {"inside", "waiting", "done"} /\ visits[c] = 1
    /\ command[c] # "writing"
    /\ stage[c] = "inside" => command[c] = "none"
    /\ stage[c] = "waiting" => err[c] = ErrOf(came[c])
    /\ command[c] # "none" \/ stage[c] = "waiting" => came[c] \in Came
    /\ stage[c] = "done" => result[c] = came[c] /\ ~open[c]

TurnedAway(c) == command[c] = "over" /\ fault[c] \in Refusals

\* Without debug, what came follows the command, as far as it got.
Commanded(c) ==
  stage[c] # "new" /\ ~passes[c] =>
    /\ stage[c] # "inside" /\ command[c] # "none"
    /\ command[c] = "begun" \/ TurnedAway(c) =>
         visits[c] = 0 /\ came[c] = "none" /\ ~done[c]
    /\ command[c] = "running" => visits[c] = 1 /\ came[c] = "none"
    /\ command[c] = "writing" => visits[c] = 1 /\ came[c] \in Came
    /\ command[c] \in {"ran", "over"} /\ ~TurnedAway(c) =>
         /\ visits[c] = 1 /\ came[c] \in Came
         /\ done[c] <=> Verdict(came[c]) = Nil
         /\ claimed[c] = "command" => fault[c] = Verdict(came[c])

\* What hystrix.Do answers, unless the timer has fired.
AnswerOf(c) == IF TurnedAway(c) THEN fault[c] ELSE Verdict(came[c])

\* Then it is the same as what the closure has assigned, and nothing is assigned
\* any more while it is read.
Agreed(c) ==
  ~passes[c] /\ ~TimedOut(c) =>
    /\ stage[c] \in {"assigned", "loaded", "done"} => command[c] \in {"ran", "over"}
    /\ stage[c] \in {"assigned", "loaded"} => err[c] = AnswerOf(c)
    /\ stage[c] = "loaded" => held[c] = resp[c]
    /\ stage[c] = "done" =>
         /\ result[c] = IF AnswerOf(c) = Nil THEN "answered" ELSE AnswerOf(c)
         /\ open[c] <=> came[c] = "5XX"

CallInv(c) ==
  /\ Fresh(c) /\ CommandKept(c) /\ RespKept(c)
  /\ Passing(c) /\ Commanded(c) /\ Agreed(c)

\* Who has a ticket.
Holders ==
  {c \in Calls : command[c] \in {"running", "writing", "ran"} /\ claimed[c] = "nobody"}

TicketsKept ==
  /\ IsFiniteSet(Holders)
  /\ tickets + Cardinality(Holders) = MaxConcurrentRequests

BreakerInv ==
  /\ CircuitTypeOK /\ TicketsKept
  /\ \A c \in Calls : CallInv(c)

(***************************************************************************)
(* Types.                                                                  *)
(***************************************************************************)
\* What is made of what came is an error or none.
LEMMA Verdicts ==
  ASSUME NEW outcome \in Came
  PROVE  /\ Verdict(outcome) \in {Nil, "opaque", "failed"}
         /\ Verdict(outcome) = Nil <=> outcome = "answered"
         /\ Verdict(outcome) = "opaque" <=> outcome = "5XX"
BY DEF Came, Outcomes, Verdict, Nil

\* A command that runs has something to tell of.
LEMMA RanCame ==
  ASSUME NEW c \in Calls, CallInv(c),
         \/ command[c] \in {"writing", "ran"}
         \/ command[c] = "running" /\ passes[c]
  PROVE  came[c] \in Came
BY DEF CallInv, Passing, Commanded, TurnedAway, Fresh

\* Do keeps the types.
LEMMA DoTyped ==
  ASSUME CircuitTypeOK, NEW c \in Calls, DoDebug(c) \/ DoProtected(c)
  PROVE  CircuitTypeOK'
<1>1. CASE DoDebug(c)
  BY <1>1 DEF CircuitTypeOK, DoDebug, hystrixVars
<1>2. CASE DoProtected(c)
  BY <1>2 DEF CircuitTypeOK, DoProtected
<1> QED BY <1>1, <1>2

\* A report to the circuit keeps the types of its counts.
LEMMA ReportTyped ==
  ASSUME CircuitTypeOK, NEW failed \in BOOLEAN, Report(failed)
  PROVE  /\ broken' \in BOOLEAN /\ testable' \in BOOLEAN
         /\ attempts' \in Nat /\ errors' \in 0..attempts'
<1>1. CASE broken /\ ~failed
  <2>1. broken' = FALSE /\ testable' = FALSE /\ attempts' = 1 /\ errors' = 0
    BY <1>1 DEF Report
  <2>2. attempts' \in Nat /\ errors' \in 0..attempts'
    BY <2>1
  <2> QED BY <2>1, <2>2, Zenon
<1>2. CASE ~(broken /\ ~failed)
  <2>1. Tally(failed) /\ UNCHANGED <<broken, testable>>
    BY <1>2 DEF Report
  <2>2. attempts \in Nat /\ errors \in 0..attempts
    BY DEF CircuitTypeOK
  <2>3. attempts' \in Nat /\ errors' \in 0..attempts'
    BY <2>1, <2>2 DEF Tally
  <2> QED BY <2>1, <2>3 DEF CircuitTypeOK
<1> QED BY <1>1, <1>2

\* The caller's goroutine keeps the types.
LEMMA CallerTyped ==
  ASSUME BreakerInv, NEW c \in Calls, CallerStep(c)
  PROVE  CircuitTypeOK'
<1>1. CASE PassedOn(c)
  BY <1>1 DEF BreakerInv, CircuitTypeOK, PassedOn, Outcomes, RespOf, ErrOf, Errors, Nil
<1>2. CASE DoneDebug(c)
  BY <1>2 DEF BreakerInv, CircuitTypeOK, DoneDebug, Return, hystrixVars, Outcomes, Nil
<1>3. CASE AssignAnswer(c)
  BY <1>3 DEF BreakerInv, CircuitTypeOK, AssignAnswer, Answers, hystrixVars
<1>4. CASE LoadResp(c)
  BY <1>4 DEF BreakerInv, CircuitTypeOK, LoadResp, hystrixVars
<1>5. CASE LoadErr(c)
  BY <1>5 DEF BreakerInv, CircuitTypeOK, LoadErr, Return, hystrixVars, Outcomes, Nil
<1> QED BY <1>1, <1>2, <1>3, <1>4, <1>5 DEF CallerStep

\* The command's goroutine keeps the types, its ticket included.
LEMMA CommandTyped ==
  ASSUME BreakerInv, NEW c \in Calls, CommandStep(c)
  PROVE  CircuitTypeOK'
<1>1. CASE Begin(c)
  <2>1. tickets' \in 0..MaxConcurrentRequests
    BY <1>1, SettingsAssumption DEF Begin, Enter, BreakerInv, CircuitTypeOK
  <2>2. broken' \in BOOLEAN /\ testable' \in BOOLEAN
    BY <1>1 DEF Begin, Enter, IsOpen, BreakerInv, CircuitTypeOK
  <2>3. visits' \in [Calls -> Nat]
    BY <1>1 DEF Begin, BreakerInv, CircuitTypeOK
  <2>4. command' \in [Calls -> {"none", "begun", "running", "writing", "ran", "over"}]
    BY <1>1 DEF Begin, Enter, BreakerInv, CircuitTypeOK
  <2> QED BY <1>1, <2>1, <2>2, <2>3, <2>4 DEF Begin, Enter, BreakerInv, CircuitTypeOK
<1>2. CASE Look(c)
  BY <1>2, RanCame, Verdicts
     DEF Look, Ran, BreakerInv, CircuitTypeOK, doVars
<1>3. CASE AssignResp(c)
  BY <1>3 DEF AssignResp, BreakerInv, CircuitTypeOK, Outcomes, RespOf, Nil
<1>4. CASE AssignErr(c)
  BY <1>4, RanCame, Verdicts
     DEF AssignErr, Ran, BreakerInv, CircuitTypeOK, ErrOf, Errors, Nil
<1>5. CASE Crash(c)
  BY <1>5 DEF Crash, BreakerInv, CircuitTypeOK, hystrixVars
<1>6. CASE Refuse(c) /\ UNCHANGED doVars
  <2>1. attempts' \in Nat /\ errors' \in 0..attempts'
    BY <1>6 DEF Refuse, Tally, BreakerInv, CircuitTypeOK
  <2> QED BY <1>6, <2>1
          DEF Refuse, BreakerInv, CircuitTypeOK, doVars, IsOpen, Unhealthy, Errors, Refusals
<1>7. CASE Finish(c) /\ UNCHANGED doVars
  <2>1. came[c] \in Came
    BY <1>7, RanCame DEF Finish, BreakerInv
  <2>2. CASE claimed[c] = "nobody"
    <3>1. /\ broken' \in BOOLEAN /\ testable' \in BOOLEAN
          /\ attempts' \in Nat /\ errors' \in 0..attempts'
      BY <1>7, <2>2, ReportTyped DEF Finish, BreakerInv
    <3>2. tickets' \in 0..MaxConcurrentRequests
      <4>1. c \in Holders
        BY <1>7, <2>2 DEF Finish, Holders
      <4>2. Cardinality(Holders) >= 1
        BY <4>1, FS_CardinalityType, FS_EmptySet DEF BreakerInv, TicketsKept
      <4> QED BY <1>7, <2>2, <4>2, FS_CardinalityType, SettingsAssumption
              DEF Finish, BreakerInv, TicketsKept, CircuitTypeOK
    <3> QED BY <1>7, <2>1, <2>2, <3>1, <3>2, Verdicts
            DEF Finish, BreakerInv, CircuitTypeOK, doVars, Errors, Nil
  <2>3. CASE claimed[c] # "nobody"
    BY <1>7, <2>3 DEF Finish, BreakerInv, CircuitTypeOK, doVars
  <2> QED BY <2>2, <2>3
<1> QED BY <1>1, <1>2, <1>3, <1>4, <1>5, <1>6, <1>7 DEF CommandStep

\* What hystrix does by itself keeps the types.
LEMMA CircuitTyped ==
  ASSUME BreakerInv, CircuitStep
  PROVE  CircuitTypeOK'
<1>1. ASSUME NEW c \in Calls, TimeOut(c), UNCHANGED doVars
      PROVE  CircuitTypeOK'
  <2>1. /\ broken' \in BOOLEAN /\ testable' \in BOOLEAN
        /\ attempts' \in Nat /\ errors' \in 0..attempts'
    BY <1>1, ReportTyped DEF TimeOut, BreakerInv
  <2>2. tickets' \in 0..MaxConcurrentRequests
    <3>1. c \in Holders
      BY <1>1 DEF TimeOut, Holders
    <3>2. Cardinality(Holders) >= 1
      BY <3>1, FS_CardinalityType, FS_EmptySet DEF BreakerInv, TicketsKept
    <3> QED BY <1>1, <3>2, FS_CardinalityType, SettingsAssumption
            DEF TimeOut, BreakerInv, TicketsKept, CircuitTypeOK
  <2> QED BY <1>1, <2>1, <2>2
          DEF TimeOut, BreakerInv, CircuitTypeOK, doVars, Errors, Nil
<1>2. CASE (SleepWindowOver \/ Forget) /\ UNCHANGED doVars
  <2>1. broken' \in BOOLEAN /\ testable' \in BOOLEAN
    BY <1>2 DEF SleepWindowOver, Forget, BreakerInv, CircuitTypeOK
  <2>2. attempts' \in Nat /\ errors' \in 0..attempts'
    BY <1>2 DEF SleepWindowOver, Forget, BreakerInv, CircuitTypeOK
  <2> QED BY <1>2, <2>1, <2>2
          DEF SleepWindowOver, Forget, BreakerInv, CircuitTypeOK, doVars
<1> QED BY <1>1, <1>2 DEF CircuitStep

(***************************************************************************)
(* What a step does to the call it is about, and not to the others.        *)
(***************************************************************************)
Untouched(c) ==
  /\ stage'[c] = stage[c] /\ passes'[c] = passes[c] /\ visits'[c] = visits[c]
  /\ came'[c] = came[c] /\ resp'[c] = resp[c] /\ err'[c] = err[c]
  /\ held'[c] = held[c] /\ result'[c] = result[c] /\ open'[c] = open[c]
  /\ command'[c] = command[c] /\ claimed'[c] = claimed[c]
  /\ done'[c] = done[c] /\ fault'[c] = fault[c]

\* A call that a step leaves alone keeps its part of the invariant.
LEMMA UntouchedInv ==
  ASSUME NEW c \in Calls, CallInv(c), Untouched(c)
  PROVE  CallInv(c)'
BY DEF CallInv, Untouched, Fresh, CommandKept, RespKept, Passing, Commanded, Agreed,
       TurnedAway, AnswerOf, TimedOut

\* A call that begins, begins with nothing said or claimed of it.
LEMMA DoInv ==
  ASSUME BreakerInv, NEW c \in Calls, DoDebug(c) \/ DoProtected(c)
  PROVE  CallInv(c)' /\ \A d \in Calls \ {c} : Untouched(d)
<1>1. \A d \in Calls \ {c} : Untouched(d)
  BY DEF DoDebug, DoProtected, hystrixVars, Untouched, BreakerInv, CircuitTypeOK
<1> SUFFICES CallInv(c)'
  BY <1>1
<1>2. CASE DoDebug(c)
  <2>1. /\ stage[c] = "new" /\ stage'[c] = "inside" /\ passes'[c]
        /\ visits'[c] = visits[c] + 1
        /\ UNCHANGED <<came, resp, open, command, claimed, done, fault>>
    BY <1>2 DEF DoDebug, BreakerInv, CircuitTypeOK, hystrixVars
  <2>2. visits[c] = 0 /\ command[c] = "none"
    BY <2>1 DEF BreakerInv, CallInv, Fresh
  <2>3. CommandKept(c)' /\ RespKept(c)'
    BY <2>1 DEF BreakerInv, CallInv, CommandKept, RespKept
  <2>4. Passing(c)'
    BY <2>1, <2>2 DEF Passing
  <2>5. Fresh(c)' /\ Commanded(c)' /\ Agreed(c)'
    BY <2>1 DEF Fresh, Commanded, Agreed
  <2> QED BY <2>3, <2>4, <2>5 DEF CallInv
<1>3. CASE DoProtected(c)
  <2>1. /\ stage[c] = "new" /\ stage'[c] = "waiting" /\ command'[c] = "begun"
        /\ UNCHANGED <<passes, visits, came, resp, err, held, result, open,
                       claimed, done, fault>>
    BY <1>3 DEF DoProtected, BreakerInv, CircuitTypeOK
  <2>2. ~passes[c] /\ command[c] = "none" /\ visits[c] = 0 /\ came[c] = "none"
    BY <2>1 DEF BreakerInv, CallInv, Fresh
  <2>3. CommandKept(c)' /\ RespKept(c)'
    BY <2>1, <2>2 DEF BreakerInv, CallInv, CommandKept, RespKept
  <2>4. Commanded(c)'
    BY <2>1, <2>2, <2>3 DEF Commanded, CommandKept, TurnedAway
  <2>5. Fresh(c)' /\ Passing(c)' /\ Agreed(c)'
    BY <2>1, <2>2 DEF Fresh, Passing, Agreed
  <2> QED BY <2>3, <2>4, <2>5 DEF CallInv
<1> QED BY <1>2, <1>3

\* The caller's steps agree with what its command has done.
LEMMA CallerInv ==
  ASSUME BreakerInv, NEW c \in Calls, CallerStep(c)
  PROVE  CallInv(c)' /\ \A d \in Calls \ {c} : Untouched(d)
<1> USE DEF BreakerInv
<1>1. \A d \in Calls \ {c} : Untouched(d)
  BY DEF CallerStep, PassedOn, DoneDebug, AssignAnswer, LoadResp, LoadErr, Return,
         hystrixVars, Untouched, CircuitTypeOK
<1> SUFFICES CallInv(c)'
  BY <1>1
<1>2. CASE PassedOn(c)
  <2>1. PICK outcome \in Outcomes :
          /\ came'[c] = outcome /\ resp'[c] = RespOf(outcome) /\ err'[c] = ErrOf(outcome)
          /\ open'[c] <=> RespOf(outcome) # Nil
          /\ IF outcome = "panic"
             THEN stage'[c] = "done" /\ result'[c] = "panic" /\ command'[c] = command[c]
             ELSE stage'[c] = "waiting" /\ command'[c] = "begun" /\ result'[c] = result[c]
    <3>1. PICK outcome \in Outcomes :
            /\ came' = [came EXCEPT ![c] = outcome]
            /\ resp' = [resp EXCEPT ![c] = RespOf(outcome)]
            /\ err' = [err EXCEPT ![c] = ErrOf(outcome)]
            /\ open' = [open EXCEPT ![c] = RespOf(outcome) # Nil]
            /\ IF outcome = "panic"
               THEN /\ stage' = [stage EXCEPT ![c] = "done"]
                    /\ result' = [result EXCEPT ![c] = "panic"]
                    /\ UNCHANGED command
               ELSE /\ stage' = [stage EXCEPT ![c] = "waiting"]
                    /\ command' = [command EXCEPT ![c] = "begun"]
                    /\ UNCHANGED result
      BY <1>2 DEF PassedOn
    <3>2. open'[c] <=> RespOf(outcome) # Nil
      BY <3>1 DEF CircuitTypeOK
    <3> QED BY <3>1, <3>2 DEF CircuitTypeOK
  <2>2. /\ stage[c] = "inside"
        /\ UNCHANGED <<passes, visits, held, claimed, done, fault>>
    BY <1>2 DEF PassedOn
  <2>3. passes[c] /\ command[c] = "none" /\ visits[c] = 1
    BY <2>2 DEF CallInv, Fresh, Passing, Commanded
  <2>4. CommandKept(c)'
    BY <2>1, <2>2, <2>3 DEF CallInv, CommandKept
  <2>5. RespKept(c)'
    BY <2>1 DEF RespKept
  <2>6. Passing(c)'
    BY <2>1, <2>2, <2>3 DEF Passing, Came, Outcomes, RespOf, Nil
  <2>7. Fresh(c)' /\ Commanded(c)' /\ Agreed(c)'
    BY <2>1, <2>2, <2>3 DEF Fresh, Commanded, Agreed
  <2> QED BY <2>4, <2>5, <2>6, <2>7 DEF CallInv
<1>3. CASE DoneDebug(c)
  <2>1. /\ stage[c] = "waiting" /\ passes[c] /\ stage'[c] = "done"
        /\ result'[c] = IF err[c] # Nil THEN err[c]
                        ELSE IF resp[c] = Nil THEN "panic" ELSE resp[c]
        /\ open'[c] <=> open[c] /\ (err[c] # Nil \/ resp[c] = Nil)
        /\ UNCHANGED <<passes, visits, came, resp, command, claimed, done, fault>>
    BY <1>3 DEF DoneDebug, Return, CircuitTypeOK, hystrixVars
  <2>2. came[c] \in Came /\ err[c] = ErrOf(came[c]) /\ resp[c] = RespOf(came[c])
    BY <2>1 DEF CallInv, Passing, RespKept
  <2>3. result'[c] = came[c] /\ ~open'[c]
    BY <2>1, <2>2 DEF CallInv, RespKept, Came, Outcomes, RespOf, ErrOf, Nil
  <2>4. CommandKept(c)' /\ RespKept(c)'
    BY <2>1 DEF CallInv, CommandKept, RespKept
  <2>5. Passing(c)'
    BY <2>1, <2>2, <2>3 DEF CallInv, Passing
  <2>6. Fresh(c)' /\ Commanded(c)' /\ Agreed(c)'
    BY <2>1 DEF Fresh, Commanded, Agreed
  <2> QED BY <2>4, <2>5, <2>6 DEF CallInv
<1>4. CASE AssignAnswer(c)
  <2>1. /\ stage[c] = "waiting" /\ ~passes[c] /\ stage'[c] = "assigned"
        /\ err'[c] \in Answers(c)
        /\ UNCHANGED <<passes, visits, came, resp, open, command, claimed, done, fault>>
    BY <1>4 DEF AssignAnswer, CircuitTypeOK, hystrixVars
  <2>2. CommandKept(c)' /\ RespKept(c)'
    BY <2>1 DEF CallInv, CommandKept, RespKept
  <2>3. Commanded(c)'
    BY <2>1 DEF CallInv, Commanded, TurnedAway
  <2>4. ~TimedOut(c) => command[c] \in {"ran", "over"} /\ err'[c] = AnswerOf(c)
    <3> SUFFICES ASSUME ~TimedOut(c)
                 PROVE  command[c] \in {"ran", "over"} /\ err'[c] = AnswerOf(c)
      OBVIOUS
    <3>1. done[c] \/ fault[c] # Nil
      BY <2>1 DEF Answers
    <3>2. command[c] \in {"ran", "over"}
      BY <2>1, <3>1 DEF CallInv, CommandKept, TimedOut, CircuitTypeOK
    <3>3. CASE TurnedAway(c)
      <4>1. ~done[c] /\ fault[c] # Nil
        BY <2>1, <3>3 DEF CallInv, Commanded, TurnedAway, Refusals, Nil
      <4> QED BY <2>1, <3>2, <3>3, <4>1 DEF Answers, AnswerOf
    <3>4. CASE ~TurnedAway(c)
      <4>1. claimed[c] = "command" => fault[c] = Verdict(came[c])
        BY <2>1, <3>2, <3>4 DEF CallInv, Commanded
      <4>2. claimed[c] = "nobody" => fault[c] = Nil
        BY DEF CallInv, CommandKept
      <4>3. done[c] <=> Verdict(came[c]) = Nil
        BY <2>1, <3>2, <3>4 DEF CallInv, Commanded
      <4>4. claimed[c] \in {"command", "nobody"}
        BY DEF TimedOut, CircuitTypeOK
      <4> QED BY <2>1, <3>2, <3>4, <4>1, <4>2, <4>3, <4>4 DEF Answers, AnswerOf
    <3> QED BY <3>2, <3>3, <3>4
  <2>5. Agreed(c)'
    BY <2>1, <2>4 DEF Agreed, AnswerOf, TurnedAway, TimedOut
  <2>6. Fresh(c)' /\ Passing(c)'
    BY <2>1 DEF Fresh, Passing
  <2> QED BY <2>2, <2>3, <2>5, <2>6 DEF CallInv
<1>5. CASE LoadResp(c)
  <2>1. /\ stage[c] = "assigned" /\ stage'[c] = "loaded" /\ held'[c] = resp[c]
        /\ UNCHANGED <<passes, visits, came, resp, err, open, command, claimed, done,
                       fault>>
    BY <1>5 DEF LoadResp, CircuitTypeOK, hystrixVars
  <2>2. ~passes[c]
    BY <2>1 DEF CallInv, Passing
  <2>3. CommandKept(c)' /\ RespKept(c)'
    BY <2>1 DEF CallInv, CommandKept, RespKept
  <2>4. Commanded(c)'
    BY <2>1 DEF CallInv, Commanded, TurnedAway
  <2>5. Agreed(c)'
    BY <2>1, <2>2 DEF CallInv, Agreed, AnswerOf, TurnedAway, TimedOut
  <2>6. Fresh(c)' /\ Passing(c)'
    BY <2>1, <2>2 DEF Fresh, Passing
  <2> QED BY <2>3, <2>4, <2>5, <2>6 DEF CallInv
<1>6. CASE LoadErr(c)
  <2>1. /\ stage[c] = "loaded" /\ stage'[c] = "done"
        /\ result'[c] = IF err[c] # Nil THEN err[c]
                        ELSE IF held[c] = Nil THEN "panic" ELSE held[c]
        /\ open'[c] <=> open[c] /\ (err[c] # Nil \/ held[c] = Nil)
        /\ UNCHANGED <<passes, visits, came, resp, err, held, command, claimed, done,
                       fault>>
    BY <1>6 DEF LoadErr, Return, CircuitTypeOK, hystrixVars
  <2>2. ~passes[c]
    BY <2>1 DEF CallInv, Passing
  <2>3. CommandKept(c)' /\ RespKept(c)'
    BY <2>1 DEF CallInv, CommandKept, RespKept
  <2>4. Commanded(c)'
    BY <2>1 DEF CallInv, Commanded, TurnedAway
  <2>5. ~TimedOut(c) =>
          /\ result'[c] = IF AnswerOf(c) = Nil THEN "answered" ELSE AnswerOf(c)
          /\ open'[c] <=> came[c] = "5XX"
    <3> SUFFICES ASSUME ~TimedOut(c)
                 PROVE  /\ result'[c] = IF AnswerOf(c) = Nil THEN "answered" ELSE AnswerOf(c)
                        /\ open'[c] <=> came[c] = "5XX"
      OBVIOUS
    <3>1. /\ command[c] \in {"ran", "over"} /\ err[c] = AnswerOf(c) /\ held[c] = resp[c]
          /\ resp[c] = RespOf(came[c]) /\ (open[c] <=> resp[c] # Nil)
      BY <2>1, <2>2 DEF CallInv, Agreed, RespKept
    <3>2. CASE TurnedAway(c)
      <4>1. came[c] = "none" /\ err[c] \in Refusals
        BY <2>1, <2>2, <3>1, <3>2 DEF CallInv, Commanded, AnswerOf, TurnedAway
      <4> QED BY <2>1, <3>1, <4>1 DEF RespOf, Refusals, Nil
    <3>3. CASE ~TurnedAway(c)
      <4>1. came[c] \in Came /\ err[c] = Verdict(came[c])
        BY <2>1, <2>2, <3>1, <3>3 DEF CallInv, Commanded, AnswerOf
      <4> QED BY <2>1, <3>1, <4>1, Verdicts DEF RespOf, Came, Outcomes, Nil
    <3> QED BY <3>2, <3>3
  <2>6. Agreed(c)'
    BY <2>1, <2>2, <2>5 DEF CallInv, Agreed, AnswerOf, TurnedAway, TimedOut
  <2>7. Fresh(c)' /\ Passing(c)'
    BY <2>1, <2>2 DEF Fresh, Passing
  <2> QED BY <2>3, <2>4, <2>6, <2>7 DEF CallInv
<1> QED BY <1>2, <1>3, <1>4, <1>5, <1>6 DEF CallerStep

\* The command's steps agree with what its caller waits for.
LEMMA CommandInv ==
  ASSUME BreakerInv, NEW c \in Calls, CommandStep(c)
  PROVE  CallInv(c)' /\ \A d \in Calls \ {c} : Untouched(d)
<1> USE DEF BreakerInv
<1>1. \A d \in Calls \ {c} : Untouched(d)
  <2>1. CASE Begin(c)
    BY <2>1 DEF Begin, Enter, Untouched, CircuitTypeOK
  <2>2. CASE Look(c) \/ AssignErr(c)
    BY <2>2 DEF Look, AssignErr, Ran, doVars, Untouched, CircuitTypeOK
  <2>3. CASE AssignResp(c)
    BY <2>3 DEF AssignResp, Untouched, CircuitTypeOK
  <2>4. CASE Crash(c)
    BY <2>4 DEF Crash, hystrixVars, Untouched
  <2>5. CASE Refuse(c) /\ UNCHANGED doVars
    BY <2>5 DEF Refuse, doVars, Untouched, CircuitTypeOK
  <2>6. CASE Finish(c) /\ UNCHANGED doVars
    BY <2>6 DEF Finish, doVars, Untouched, CircuitTypeOK
  <2> QED BY <2>1, <2>2, <2>3, <2>4, <2>5, <2>6 DEF CommandStep
<1> SUFFICES CallInv(c)'
  BY <1>1
<1>2. CASE Begin(c)
  <2>1. /\ command[c] = "begun" /\ command'[c] = "running"
        /\ visits'[c] = IF passes[c] THEN visits[c] ELSE visits[c] + 1
        /\ UNCHANGED <<stage, passes, came, resp, err, held, result, open, claimed,
                       done, fault>>
    BY <1>2 DEF Begin, Enter, CircuitTypeOK
  <2>2. Fresh(c)' /\ RespKept(c)' /\ Agreed(c)'
    BY <2>1 DEF CallInv, Fresh, RespKept, Agreed, TimedOut
  <2>3. CommandKept(c)'
    BY <2>1 DEF CallInv, CommandKept
  <2>4. Passing(c)'
    BY <2>1 DEF CallInv, Passing
  <2>5. Commanded(c)'
    BY <2>1 DEF CallInv, Commanded, TurnedAway
  <2> QED BY <2>2, <2>3, <2>4, <2>5 DEF CallInv
<1>3. CASE Look(c)
  <2>1. /\ command[c] = "running" /\ command'[c] = "ran" /\ passes[c]
        /\ UNCHANGED <<stage, passes, visits, came, resp, err, held, result, open,
                       claimed, fault>>
    BY <1>3 DEF Look, Ran, doVars, CircuitTypeOK
  <2>2. Fresh(c)' /\ RespKept(c)' /\ Commanded(c)' /\ Agreed(c)'
    BY <2>1 DEF CallInv, Fresh, RespKept, Commanded, Agreed
  <2>3. CommandKept(c)'
    BY <2>1 DEF CallInv, CommandKept
  <2>4. Passing(c)'
    BY <2>1 DEF CallInv, Passing
  <2> QED BY <2>2, <2>3, <2>4 DEF CallInv
<1>4. CASE AssignResp(c)
  <2>1. /\ command[c] = "running" /\ command'[c] = "writing" /\ ~passes[c]
        /\ came'[c] \in Came /\ resp'[c] = RespOf(came'[c])
        /\ UNCHANGED <<stage, passes, visits, err, held, result, claimed, done, fault>>
    BY <1>4 DEF AssignResp, CircuitTypeOK, Came
  <2>2. open'[c] <=> resp'[c] # Nil
    BY <1>4 DEF AssignResp, CircuitTypeOK
  <2>3. Fresh(c)' /\ RespKept(c)' /\ Passing(c)' /\ Agreed(c)'
    BY <2>1, <2>2 DEF CallInv, Fresh, RespKept, Passing, Agreed, TimedOut
  <2>4. CommandKept(c)'
    BY <2>1 DEF CallInv, CommandKept
  <2>5. Commanded(c)'
    BY <2>1 DEF CallInv, Commanded, TurnedAway
  <2> QED BY <2>3, <2>4, <2>5 DEF CallInv
<1>5. CASE AssignErr(c)
  <2>1. /\ command[c] = "writing" /\ command'[c] = "ran"
        /\ UNCHANGED <<stage, passes, visits, came, resp, held, result, open, claimed,
                       fault>>
    BY <1>5 DEF AssignErr, Ran, CircuitTypeOK
  <2>2. ~passes[c] /\ stage[c] # "new" /\ visits[c] = 1 /\ came[c] \in Came
    BY <2>1 DEF CallInv, Passing, Fresh, Commanded
  <2>3. done'[c] <=> Verdict(came[c]) = Nil
    BY <1>5 DEF AssignErr, Ran, CircuitTypeOK
  <2>4. Fresh(c)' /\ RespKept(c)' /\ Passing(c)' /\ Agreed(c)'
    BY <2>1, <2>2 DEF CallInv, Fresh, RespKept, Passing, Agreed, TimedOut
  <2>5. CommandKept(c)'
    BY <2>1 DEF CallInv, CommandKept
  <2>6. Commanded(c)'
    <3>1. stage[c] # "inside" /\ claimed[c] # "command"
      BY <2>1, <2>2 DEF CallInv, Commanded, CommandKept
    <3> QED BY <2>1, <2>2, <2>3, <3>1 DEF Commanded, TurnedAway
  <2> QED BY <2>4, <2>5, <2>6 DEF CallInv
<1>6. CASE Crash(c)
  <2>1. Untouched(c)
    BY <1>6 DEF Crash, hystrixVars, Untouched
  <2> QED BY <2>1, UntouchedInv
<1>7. CASE Refuse(c) /\ UNCHANGED doVars
  <2>1. /\ command[c] = "begun" /\ command'[c] = "over" /\ claimed'[c] = "command"
        /\ fault'[c] \in Refusals
        /\ UNCHANGED <<stage, passes, visits, came, resp, err, held, result, open, done>>
    BY <1>7 DEF Refuse, doVars, CircuitTypeOK, Refusals
  <2>2. stage[c] # "new" /\ claimed[c] = "nobody"
    BY <2>1 DEF CallInv, Fresh, CommandKept
  <2>3. Fresh(c)' /\ RespKept(c)' /\ Agreed(c)'
    BY <2>1, <2>2 DEF CallInv, Fresh, RespKept, Agreed, TimedOut
  <2>4. CommandKept(c)'
    BY <2>1 DEF CallInv, CommandKept
  <2>5. Passing(c)'
    BY <2>1 DEF CallInv, Passing
  <2>6. Commanded(c)'
    BY <2>1 DEF CallInv, Commanded, TurnedAway
  <2> QED BY <2>3, <2>4, <2>5, <2>6 DEF CallInv
<1>8. CASE Finish(c) /\ UNCHANGED doVars
  <2>1. /\ command[c] = "ran" /\ command'[c] = "over"
        /\ IF claimed[c] = "nobody"
           THEN claimed'[c] = "command" /\ fault'[c] = Verdict(came[c])
           ELSE claimed'[c] = claimed[c] /\ fault'[c] = fault[c]
        /\ UNCHANGED <<stage, passes, visits, came, resp, err, held, result, open, done>>
    BY <1>8 DEF Finish, doVars, CircuitTypeOK
  <2>2. came[c] \in Came
    BY <2>1, RanCame
  <2>3. claimed[c] \in {"nobody", "timer"} /\ (claimed[c] = "timer" => fault[c] = "timeout")
    BY <2>1 DEF CallInv, CommandKept, CircuitTypeOK
  <2>4. ~TurnedAway(c) /\ ~TurnedAway(c)'
    BY <2>1, <2>2, <2>3, Verdicts DEF TurnedAway, Refusals, Nil
  <2>5. Fresh(c)' /\ RespKept(c)'
    BY <2>1 DEF CallInv, Fresh, RespKept
  <2>6. CommandKept(c)'
    BY <2>1, <2>3 DEF CallInv, CommandKept
  <2>7. Passing(c)'
    BY <2>1 DEF CallInv, Passing
  <2>8. Commanded(c)'
    BY <2>1, <2>2, <2>3, <2>4 DEF CallInv, Commanded
  <2>9. Agreed(c)'
    BY <2>1, <2>3, <2>4 DEF CallInv, Agreed, AnswerOf, TimedOut
  <2> QED BY <2>5, <2>6, <2>7, <2>8, <2>9 DEF CallInv
<1> QED BY <1>2, <1>3, <1>4, <1>5, <1>6, <1>7, <1>8 DEF CommandStep

\* A timer that fires, a sleep window that ends and counts that are forgotten keep it, too.
LEMMA CircuitStepInv ==
  ASSUME BreakerInv, CircuitStep
  PROVE  \A c \in Calls : CallInv(c)'
<1> USE DEF BreakerInv
<1>1. ASSUME NEW c \in Calls, TimeOut(c), UNCHANGED doVars
      PROVE  \A d \in Calls : CallInv(d)'
  <2>1. /\ command[c] \in {"running", "writing", "ran"}
        /\ claimed'[c] = "timer" /\ fault'[c] = "timeout"
        /\ UNCHANGED <<stage, passes, visits, came, resp, err, held, result, open,
                       command, done>>
    BY <1>1 DEF TimeOut, doVars, CircuitTypeOK
  <2>2. Fresh(c)' /\ RespKept(c)' /\ Passing(c)' /\ Agreed(c)'
    BY <2>1 DEF CallInv, Fresh, RespKept, Passing, Agreed, TimedOut
  <2>3. CommandKept(c)'
    BY <2>1 DEF CallInv, CommandKept
  <2>4. Commanded(c)'
    BY <2>1 DEF CallInv, Commanded, TurnedAway
  <2>5. CallInv(c)'
    BY <2>2, <2>3, <2>4 DEF CallInv
  <2>6. \A d \in Calls \ {c} : Untouched(d)
    BY <1>1 DEF TimeOut, doVars, Untouched, CircuitTypeOK
  <2> QED BY <2>5, <2>6, UntouchedInv
<1>2. CASE (SleepWindowOver \/ Forget) /\ UNCHANGED doVars
  <2>1. \A d \in Calls : Untouched(d)
    BY <1>2 DEF SleepWindowOver, Forget, doVars, Untouched
  <2> QED BY <2>1, UntouchedInv
<1> QED BY <1>1, <1>2 DEF CircuitStep

(***************************************************************************)
(* Who has a ticket, and who has ended the program.                        *)
(***************************************************************************)
\* Admission takes a ticket, and whoever ends the command gives it back.
LEMMA TicketsInv ==
  ASSUME BreakerInv, CircuitNext
  PROVE  TicketsKept'
<1> USE DEF BreakerInv, TicketsKept
<1>1. ASSUME Holders' = Holders, tickets' = tickets
      PROVE  TicketsKept'
  BY <1>1
<1>2. ASSUME NEW c \in Calls, c \in Holders, Holders' = Holders \ {c},
             tickets' = tickets + 1
      PROVE  TicketsKept'
  <2>1. IsFiniteSet(Holders') /\ Cardinality(Holders') = Cardinality(Holders) - 1
    BY <1>2, FS_RemoveElement
  <2>2. Cardinality(Holders) \in Nat
    BY FS_CardinalityType
  <2> QED BY <1>2, <2>1, <2>2, SettingsAssumption DEF CircuitTypeOK
<1>3. ASSUME NEW c \in Calls, Begin(c)
      PROVE  TicketsKept'
  <2>1. /\ command[c] = "begun" /\ claimed[c] = "nobody" /\ tickets' = tickets - 1
        /\ command' = [command EXCEPT ![c] = "running"] /\ claimed' = claimed
    BY <1>3 DEF Begin, Enter, CallInv, CommandKept
  <2>2. c \notin Holders /\ Holders' = Holders \cup {c}
    BY <2>1 DEF Holders, CircuitTypeOK
  <2>3. IsFiniteSet(Holders') /\ Cardinality(Holders') = Cardinality(Holders) + 1
    BY <2>2, FS_AddElement
  <2>4. Cardinality(Holders) \in Nat
    BY FS_CardinalityType
  <2> QED BY <2>1, <2>3, <2>4, SettingsAssumption DEF CircuitTypeOK
<1>4. ASSUME NEW c \in Calls, Finish(c)
      PROVE  TicketsKept'
  <2>1. CASE claimed[c] = "nobody"
    <3>1. c \in Holders /\ Holders' = Holders \ {c} /\ tickets' = tickets + 1
      BY <1>4, <2>1 DEF Finish, Holders, CircuitTypeOK
    <3> QED BY <3>1, <1>2
  <2>2. CASE claimed[c] # "nobody"
    <3>1. Holders' = Holders /\ tickets' = tickets
      BY <1>4, <2>2 DEF Finish, Holders, CircuitTypeOK
    <3> QED BY <3>1, <1>1
  <2> QED BY <2>1, <2>2
<1>5. ASSUME NEW c \in Calls, TimeOut(c)
      PROVE  TicketsKept'
  <2>1. c \in Holders /\ Holders' = Holders \ {c} /\ tickets' = tickets + 1
    BY <1>5 DEF TimeOut, Holders, CircuitTypeOK
  <2> QED BY <2>1, <1>2
<1>6. ASSUME NEW c \in Calls,
             \/ Do(c) \/ CallerStep(c)
             \/ Look(c) \/ AssignResp(c) \/ AssignErr(c) \/ Crash(c) \/ Refuse(c)
      PROVE  TicketsKept'
  <2>1. Holders' = Holders /\ tickets' = tickets
    <3>1. CASE Do(c) \/ CallerStep(c)
      <4>1. /\ UNCHANGED <<tickets, claimed>>
            /\ \A d \in Calls : command'[d] # command[d] =>
                 command[d] \in {"none", "begun"} /\ command'[d] = "begun"
        <5>1. CASE DoDebug(c) \/ DoneDebug(c) \/ AssignAnswer(c) \/ LoadResp(c) \/ LoadErr(c)
          BY <5>1 DEF DoDebug, DoneDebug, AssignAnswer, LoadResp, LoadErr, hystrixVars
        <5>2. CASE DoProtected(c)
          <6>1. command[c] = "none"
            BY <5>2 DEF DoProtected, CallInv, Fresh
          <6> QED BY <5>2, <6>1 DEF DoProtected, CircuitTypeOK
        <5>3. CASE PassedOn(c)
          <6>1. command[c] = "none"
            BY <5>3 DEF PassedOn, CallInv, Fresh, Passing, Commanded
          <6> QED BY <5>3, <6>1 DEF PassedOn, CircuitTypeOK
        <5> QED BY <3>1, <5>1, <5>2, <5>3 DEF Do, CallerStep
      <4> QED BY <4>1 DEF Holders
    <3>2. CASE Look(c) \/ AssignResp(c) \/ AssignErr(c) \/ Crash(c)
      BY <3>2 DEF Look, Ran, AssignResp, AssignErr, Crash, hystrixVars, Holders,
                  CircuitTypeOK
    <3>3. CASE Refuse(c)
      BY <3>3 DEF Refuse, Holders, CircuitTypeOK
    <3> QED BY <1>6, <3>1, <3>2, <3>3
  <2> QED BY <2>1, <1>1
<1>7. CASE SleepWindowOver \/ Forget
  <2>1. Holders' = Holders /\ tickets' = tickets
    BY <1>7 DEF SleepWindowOver, Forget, Holders
  <2> QED BY <2>1, <1>1
<1> QED BY <1>3, <1>4, <1>5, <1>6, <1>7 DEF CircuitNext, CommandStep, CircuitStep

(***************************************************************************)
(* The theorems.                                                           *)
(***************************************************************************)
LEMMA InitBreakerInv ==
  ASSUME CircuitInit
  PROVE  BreakerInv
<1>1. CircuitTypeOK
  <2>1. attempts \in Nat /\ errors \in 0..attempts /\ tickets \in 0..MaxConcurrentRequests
    BY SettingsAssumption DEF CircuitInit
  <2> QED BY <2>1 DEF CircuitInit, CircuitTypeOK, Nil
<1>2. TicketsKept
  <2>1. Holders = {}
    BY DEF CircuitInit, Holders
  <2> QED BY <2>1, FS_EmptySet, SettingsAssumption DEF CircuitInit, TicketsKept
<1>3. ASSUME NEW c \in Calls
      PROVE  CallInv(c)
  BY DEF CircuitInit, CallInv, Fresh, CommandKept, RespKept, RespOf, Passing, Commanded,
         Agreed, Nil
<1> QED BY <1>1, <1>2, <1>3 DEF BreakerInv

\* Every step keeps the invariant, by whichever goroutine it is taken.
LEMMA NextBreakerInv ==
  ASSUME BreakerInv, CircuitNext
  PROVE  BreakerInv'
<1>1. ASSUME NEW c \in Calls, Do(c) \/ CallerStep(c) \/ CommandStep(c)
      PROVE  CircuitTypeOK' /\ \A d \in Calls : CallInv(d)'
  <2>1. CallInv(c)' /\ \A d \in Calls \ {c} : Untouched(d)
    BY <1>1, DoInv, CallerInv, CommandInv DEF Do
  <2>2. CircuitTypeOK'
    BY <1>1, DoTyped, CallerTyped, CommandTyped DEF Do, BreakerInv
  <2> QED BY <2>1, <2>2, UntouchedInv DEF BreakerInv
<1>2. ASSUME CircuitStep
      PROVE  CircuitTypeOK' /\ \A d \in Calls : CallInv(d)'
  BY <1>2, CircuitTyped, CircuitStepInv
<1>3. TicketsKept'
  BY TicketsInv
<1> QED BY <1>1, <1>2, <1>3 DEF BreakerInv, CircuitNext

\* So does a step that changes nothing.
LEMMA StutterBreakerInv ==
  ASSUME BreakerInv, UNCHANGED circuitVars
  PROVE  BreakerInv'
<1>1. \A c \in Calls : Untouched(c)
  BY DEF circuitVars, doVars, hystrixVars, Untouched
<1>2. \A c \in Calls : CallInv(c)'
  BY <1>1, UntouchedInv DEF BreakerInv
<1>3. CircuitTypeOK'
  BY DEF BreakerInv, CircuitTypeOK, circuitVars, doVars, hystrixVars
<1>4. TicketsKept'
  BY DEF BreakerInv, TicketsKept, Holders, circuitVars, doVars, hystrixVars
<1> QED BY <1>2, <1>3, <1>4 DEF BreakerInv

\* What hystrix and the two modes of Do keep between them, whichever step comes next
\* (doer.go:305-335): every property below follows from it.
THEOREM BreakerInvariant == CircuitSpec => []BreakerInv
BY InitBreakerInv, NextBreakerInv, StutterBreakerInv, PTL DEF CircuitSpec

\* The variables of Do and of its circuit keep their types.
THEOREM CircuitTypeCorrect == CircuitSpec => []CircuitTypeOK
<1>1. BreakerInv => CircuitTypeOK
  BY DEF BreakerInv
<1> QED BY <1>1, BreakerInvariant, PTL

\* Debug mode returns what came, whatever hystrix does (doer.go:306-320).
THEOREM DebugPassesOn == CircuitSpec => []PassesOn
<1>1. BreakerInv => PassesOn
  BY DEF BreakerInv, CallInv, Passing, PassesOn
<1> QED BY <1>1, BreakerInvariant, PTL

\* Without debug, a call whose timer has not fired was either turned away and never
\* passed on, or passed on once, and returns what came if that is no 5XX
\* (doer.go:321-335).
THEOREM InTimeNoRace == CircuitSpec => []NoRaceInTime
<1>1. ASSUME BreakerInv, NEW c \in Calls,
             stage[c] = "done", ~passes[c], ~TimedOut(c)
      PROVE  IF result[c] \in Refusals
             THEN visits[c] = 0 /\ ~open[c]
             ELSE visits[c] = 1 /\ (came[c] # "5XX" => result[c] = came[c] /\ ~open[c])
  <2>1. /\ Commanded(c) /\ command[c] \in {"ran", "over"}
        /\ result[c] = IF AnswerOf(c) = Nil THEN "answered" ELSE AnswerOf(c)
        /\ open[c] <=> came[c] = "5XX"
    BY <1>1 DEF BreakerInv, CallInv, Agreed
  <2>2. CASE TurnedAway(c)
    <3>1. visits[c] = 0 /\ came[c] = "none" /\ fault[c] \in Refusals
      BY <1>1, <2>1, <2>2 DEF Commanded, TurnedAway
    <3> QED BY <2>1, <2>2, <3>1 DEF AnswerOf, Refusals, Nil
  <2>3. CASE ~TurnedAway(c)
    <3>1. visits[c] = 1 /\ came[c] \in Came
      BY <1>1, <2>1, <2>3 DEF Commanded
    <3> QED BY <2>1, <2>3, <3>1 DEF AnswerOf, Verdict, Came, Outcomes, Refusals, Nil
  <2> QED BY <2>2, <2>3
<1>2. BreakerInv => NoRaceInTime
  BY <1>1 DEF NoRaceInTime
<1> QED BY <1>2, BreakerInvariant, PTL

\* No more calls than MaxConcurrentRequests are passed on by commands whose timer has
\* not fired (client.go:105).
THEOREM ConcurrencyLimited == CircuitSpec => []LimitKept
<1>1. ASSUME BreakerInv
      PROVE  LimitKept
  <2> DEFINE Protected == {c \in Calls : /\ command[c] \in {"running", "writing"}
                                         /\ ~passes[c] /\ ~TimedOut(c)}
  <2>1. Protected \subseteq Holders
    BY <1>1 DEF BreakerInv, CallInv, CommandKept, CircuitTypeOK, Holders, TimedOut
  <2>2. IsFiniteSet(Holders) /\ tickets + Cardinality(Holders) = MaxConcurrentRequests
    BY <1>1 DEF BreakerInv, TicketsKept
  <2>3. Cardinality(Protected) <= Cardinality(Holders) /\ IsFiniteSet(Protected)
    BY <2>1, <2>2, FS_Subset
  <2>4. Cardinality(Protected) \in Nat /\ Cardinality(Holders) \in Nat
    BY <2>2, <2>3, FS_CardinalityType
  <2>5. tickets \in Nat
    BY <1>1, SettingsAssumption DEF BreakerInv, CircuitTypeOK
  <2>6. Cardinality(Protected) <= MaxConcurrentRequests
    BY <2>2, <2>3, <2>4, <2>5, SettingsAssumption
  <2> QED BY <2>6 DEF LimitKept
<1>2. BreakerInv => LimitKept
  BY <1>1
<1> QED BY <1>2, BreakerInvariant, PTL

=============================================================================
