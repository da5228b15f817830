--------------------------- MODULE CircuitBreaker ---------------------------
(***************************************************************************)
(* circuitBreakerDoer.Do (gen-go/client/doer.go) for several calls on one  *)
(* circuit of hystrix-go, and the end of the method that called it.  In    *)
(* debug mode Do passes a call on first and lets hystrix know of it        *)
(* afterwards; otherwise it passes it on from inside hystrix.              *)
(*                                                                         *)
(* hystrix is external: a command has a goroutine, which asks for          *)
(* admission and runs what it was given, and a timer; whichever of the two *)
(* claims the command first gives back its ticket and reports.  Both may   *)
(* wake the caller.  What is passed on ends with a response, an error or a *)
(* panic, as retryDoer.Do does.                                            *)
(***************************************************************************)
EXTENDS Integers, FiniteSets

CONSTANTS
  Calls,                  \* calls of the client's methods, each made once
  MaxConcurrentRequests,  \* CircuitBreakerSettings
  RequestVolumeThreshold,
  ErrorPercentThreshold

ASSUME SettingsAssumption ==
  /\ MaxConcurrentRequests \in Nat \ {0} /\ RequestVolumeThreshold \in Nat \ {0}
  /\ ErrorPercentThreshold \in 0..100

VARIABLES
  stage,    \* stage[c]: where the goroutine of c's caller is
  passes,   \* passes[c]: Do found d.debug set
  visits,   \* visits[c]: how often d.d.Do was called for c
  came,     \* came[c]: what it returned
  resp,     \* resp[c], err[c]: the variables of Do
  err,
  held,     \* held[c]: resp as the caller has read it
  result,   \* result[c]: what the method returned
  open,     \* open[c]: c has a response whose body is not closed
  crashed   \* a panic that nobody recovers has ended the program

VARIABLES
  command,  \* command[c]: where the goroutine of c's command is
  claimed,  \* claimed[c]: who ended the command, its goroutine or its timer
  done,     \* done[c]: the closure has signalled success
  fault,    \* fault[c]: the error in the command's channel
  tickets,  \* the tickets left in the pool of the circuit
  broken,   \* the circuit is open
  testable, \* its sleep window is over
  attempts, \* the rolling counts of requests and of those that failed
  errors

doVars      == <<stage, passes, visits, came, resp, err, held, result, open,
                 crashed>>
hystrixVars == <<command, claimed, done, fault, tickets, broken, testable,
                 attempts, errors>>
circuitVars == <<doVars, hystrixVars>>

\* What retryDoer.Do returns: a response below 500 or not, an error, or a panic.
Outcomes == {"answered", "5XX", "failed", "panic"}

\* hystrix's own errors, and all of them: "opaque" is the error "5XX".
Refusals == {"open", "max"}
Errors   == Refusals \cup {"timeout", "failed", "opaque"}

Nil == "nil"

CircuitTypeOK ==
  /\ crashed \in BOOLEAN
  /\ stage \in [Calls -> {"new", "inside", "waiting", "assigned", "loaded", "done"}]
  /\ passes \in [Calls -> BOOLEAN] /\ visits \in [Calls -> Nat]
  /\ came \in [Calls -> Outcomes \cup {"none"}]
  /\ resp \in [Calls -> {Nil, "answered", "5XX"}]
  /\ held \in [Calls -> {Nil, "answered", "5XX"}]
  /\ err \in [Calls -> {Nil} \cup Errors]
  /\ result \in [Calls -> {"none"} \cup Outcomes \cup Errors]
  /\ open \in [Calls -> BOOLEAN]
  /\ command \in [Calls -> {"none", "begun", "running", "writing", "ran", "over"}]
  /\ claimed \in [Calls -> {"nobody", "command", "timer"}]
  /\ done \in [Calls -> BOOLEAN]
  /\ fault \in [Calls -> {Nil} \cup Errors]
  /\ broken \in BOOLEAN /\ testable \in BOOLEAN
  /\ attempts \in Nat /\ errors \in 0..attempts
  /\ tickets \in 0..MaxConcurrentRequests

CircuitInit ==
  /\ stage = [c \in Calls |-> "new"] /\ passes = [c \in Calls |-> FALSE]
  /\ visits = [c \in Calls |-> 0] /\ came = [c \in Calls |-> "none"]
  /\ resp = [c \in Calls |-> Nil] /\ err = [c \in Calls |-> Nil]
  /\ held = [c \in Calls |-> Nil] /\ result = [c \in Calls |-> "none"]
  /\ open = [c \in Calls |-> FALSE] /\ crashed = FALSE
  /\ command = [c \in Calls |-> "none"] /\ claimed = [c \in Calls |-> "nobody"]
  /\ done = [c \in Calls |-> FALSE] /\ fault = [c \in Calls |-> Nil]
  /\ tickets = MaxConcurrentRequests
  /\ broken = FALSE /\ testable = FALSE
  /\ attempts = 0 /\ errors = 0

(***************************************************************************)
(* The circuit of hystrix.                                                 *)
(***************************************************************************)
\* Enough requests, and too many of them failed.
Unhealthy ==
  /\ attempts >= RequestVolumeThreshold
  /\ 100 * errors >= ErrorPercentThreshold * attempts

\* Whoever asks finds an unhealthy circuit open, and opens it.
IsOpen == broken \/ Unhealthy

\* An open circuit lets through a single test per sleep window.
Admits == ~IsOpen \/ (broken /\ testable)

Tally(failed) ==
  /\ attempts' = attempts + 1
  /\ errors' = errors + IF failed THEN 1 ELSE 0

\* A success that is reported closes an open circuit and clears its counts.
Report(failed) ==
  IF broken /\ ~failed
  THEN broken' = FALSE /\ testable' = FALSE /\ attempts' = 1 /\ errors' = 0
  ELSE Tally(failed) /\ UNCHANGED <<broken, testable>>

\* A command runs with a ticket of the pool, if the circuit admits it.
Enter(c) ==
  /\ command[c] = "begun"
  /\ Admits /\ tickets > 0
  /\ command' = [command EXCEPT ![c] = "running"]
  /\ tickets' = tickets - 1
  /\ broken' = IsOpen /\ testable' = FALSE
  /\ UNCHANGED <<claimed, done, fault, attempts, errors>>

\* Otherwise it ends at once, and counts as a failure.
Refuse(c) ==
  /\ command[c] = "begun"
  /\ ~Admits \/ tickets = 0
  /\ command' = [command EXCEPT ![c] = "over"]
  /\ claimed' = [claimed EXCEPT ![c] = "command"]
  /\ fault' = [fault EXCEPT ![c] = IF Admits THEN "max" ELSE "open"]
  /\ broken' = IsOpen /\ testable' = FALSE
  /\ Tally(TRUE)
  /\ UNCHANGED <<done, tickets>>

\* The closure returns an error or nil; without one it signals success at once.
Ran(c, error) ==
  /\ command' = [command EXCEPT ![c] = "ran"]
  /\ done' = [done EXCEPT ![c] = error = Nil]
  /\ UNCHANGED <<claimed, fault, tickets, broken, testable, attempts, errors>>

\* The error that the closure makes of d.d.Do's response and error.
Verdict(outcome) ==
  CASE outcome = "answered" -> Nil
    [] outcome = "5XX"      -> "opaque"
    [] outcome = "failed"   -> "failed"

\* Mutant of Finish: the ticket is given back whoever has ended the command.
FinishTwice(c) ==
  /\ command[c] = "ran"
  /\ command' = [command EXCEPT ![c] = "over"]
  /\ claimed' = [claimed EXCEPT ![c] = IF @ = "nobody" THEN "command" ELSE @]
  /\ fault' = [fault EXCEPT ![c] = IF claimed[c] = "nobody" THEN Verdict(came[c]) ELSE @]
  /\ tickets' = tickets + 1
  /\ Report(came[c] # "answered")
  /\ UNCHANGED done

\* The goroutine of the command ends it, unless its timer has.
Finish(c) ==
  /\ command[c] = "ran"
  /\ command' = [command EXCEPT ![c] = "over"]
  /\ IF claimed[c] = "nobody"
     THEN /\ claimed' = [claimed EXCEPT ![c] = "command"]
          /\ tickets' = tickets + 1
          /\ fault' = [fault EXCEPT ![c] = Verdict(came[c])]
          /\ Report(came[c] # "answered")
     ELSE UNCHANGED <<claimed, tickets, fault, broken, testable, attempts, errors>>
  /\ UNCHANGED done

\* The timer fires; what the command runs goes on.
TimeOut(c) ==
  /\ command[c] \in {"running", "writing", "ran"} /\ claimed[c] = "nobody"
  /\ claimed' = [claimed EXCEPT ![c] = "timer"]
  /\ tickets' = tickets + 1
  /\ fault' = [fault EXCEPT ![c] = "timeout"]
  /\ Report(TRUE)
  /\ UNCHANGED <<command, done>>

\* The sleep window ends, and the rolling window moves on.
SleepWindowOver ==
  /\ broken /\ ~testable
  /\ testable' = TRUE
  /\ UNCHANGED <<command, claimed, done, fault, tickets, broken, attempts, errors>>

Forget ==
  /\ attempts > 0
  /\ attempts' = 0 /\ errors' = 0
  /\ UNCHANGED <<command, claimed, done, fault, tickets, broken, testable>>

(***************************************************************************)
(* circuitBreakerDoer.Do.                                                  *)
(***************************************************************************)
\* In debug mode d.d.Do is called by the caller itself.  SetCircuitBreakerDebug may
\* be called at any time, so that a call may find either mode.
DoDebug(c) ==
  /\ stage[c] = "new"
  /\ passes' = [passes EXCEPT ![c] = TRUE]
  /\ stage' = [stage EXCEPT ![c] = "inside"]
  /\ visits' = [visits EXCEPT ![c] = @ + 1]
  /\ UNCHANGED <<came, resp, err, held, result, open, crashed, hystrixVars>>

\* Otherwise by the command, if hystrix lets it.
DoProtected(c) ==
  /\ stage[c] = "new"
  /\ stage' = [stage EXCEPT ![c] = "waiting"]
  /\ command' = [command EXCEPT ![c] = "begun"]
  /\ UNCHANGED <<passes, visits, came, resp, err, held, result, open, crashed,
                 claimed, done, fault, tickets, broken, testable, attempts, errors>>

RespOf(outcome) == IF outcome \in {"answered", "5XX"} THEN outcome ELSE Nil
ErrOf(outcome)  == IF outcome = "failed" THEN outcome ELSE Nil

\* d.d.Do returns to the caller, who starts a command; a panic unwinds it.
PassedOn(c) ==
  /\ stage[c] = "inside"
  /\ \E outcome \in Outcomes :
       /\ came' = [came EXCEPT ![c] = outcome]
       /\ resp' = [resp EXCEPT ![c] = RespOf(outcome)]
       /\ err' = [err EXCEPT ![c] = ErrOf(outcome)]
       /\ open' = [open EXCEPT ![c] = RespOf(outcome) # Nil]
       /\ IF outcome = "panic"
          THEN /\ stage' = [stage EXCEPT ![c] = "done"]
               /\ result' = [result EXCEPT ![c] = "panic"]
               /\ UNCHANGED command
          ELSE /\ stage' = [stage EXCEPT ![c] = "waiting"]
               /\ command' = [command EXCEPT ![c] = "begun"]
               /\ UNCHANGED result
  /\ UNCHANGED <<passes, visits, held, crashed, claimed, done, fault, tickets,
                 broken, testable, attempts, errors>>

\* The closure of debug mode only looks at what came.
Look(c) ==
  /\ command[c] = "running" /\ passes[c]
  /\ Ran(c, Verdict(came[c]))
  /\ UNCHANGED doVars

\* Mutant of Begin: a command that is turned away has a fallback that calls d.d.Do.
BeginAnyway(c) ==
  /\ command[c] = "begun"
  /\ command' = [command EXCEPT ![c] = "running"]
  /\ tickets' = IF tickets > 0 THEN tickets - 1 ELSE tickets
  /\ visits' = IF passes[c] THEN visits ELSE [visits EXCEPT ![c] = @ + 1]
  /\ UNCHANGED <<stage, passes, came, resp, err, held, result, open, crashed, claimed,
                 done, fault, broken, testable, attempts, errors>>

\* The other one calls d.d.Do as soon as the command may run,
Begin(c) ==
  /\ Enter(c)
  /\ visits' = IF passes[c] THEN visits ELSE [visits EXCEPT ![c] = @ + 1]
  /\ UNCHANGED <<stage, passes, came, resp, err, held, result, open, crashed>>

\* assigns what it returns to the variables of Do, first resp,
AssignResp(c) ==
  /\ command[c] = "running" /\ ~passes[c]
  /\ \E outcome \in Outcomes \ {"panic"} :
       /\ came' = [came EXCEPT ![c] = outcome]
       /\ resp' = [resp EXCEPT ![c] = RespOf(outcome)]
       /\ open' = [open EXCEPT ![c] = RespOf(outcome) # Nil]
  /\ command' = [command EXCEPT ![c] = "writing"]
  /\ UNCHANGED <<stage, passes, visits, err, held, result, crashed, claimed, done,
                 fault, tickets, broken, testable, attempts, errors>>

\* then err, and returns.
AssignErr(c) ==
  /\ command[c] = "writing"
  /\ err' = [err EXCEPT ![c] = ErrOf(came[c])]
  /\ Ran(c, Verdict(came[c]))
  /\ UNCHANGED <<stage, passes, visits, came, resp, held, result, open, crashed>>

\* A panic of d.d.Do in the goroutine of a command ends the program.
Crash(c) ==
  /\ command[c] = "running" /\ ~passes[c]
  /\ crashed' = TRUE
  /\ UNCHANGED <<stage, passes, visits, came, resp, err, held, result, open,
                 hystrixVars>>

\* What the method makes of the resp and err that Do returns: an error leaves resp
\* alone; otherwise its body is decoded and closed, and there had better be one.
Return(c, r, e) ==
  /\ stage' = [stage EXCEPT ![c] = "done"]
  /\ result' = [result EXCEPT ![c] =
       IF e # Nil THEN e ELSE IF r = Nil THEN "panic" ELSE r]
  /\ open' = [open EXCEPT ![c] = @ /\ (e # Nil \/ r = Nil)]

\* What hystrix.Do may return: nil if the closure succeeded, or the error in the
\* channel, and either if there are both.
Answers(c) ==
  {e \in {Nil, fault[c]} : IF e = Nil THEN done[c] ELSE e # Nil}

\* Mutant of DoneDebug: debug mode returns the error of hystrix.Do.
DoneDebugAnswer(c) ==
  /\ stage[c] = "waiting" /\ passes[c]
  /\ \E e \in Answers(c) : Return(c, resp[c], IF err[c] = Nil THEN e ELSE err[c])
  /\ UNCHANGED <<passes, visits, came, resp, err, held, crashed, hystrixVars>>

\* Mutant of DoneDebug: debug mode waits until the closure has run.
DoneDebugRan(c) ==
  /\ stage[c] = "waiting" /\ passes[c] /\ command[c] \in {"ran", "over"}
  /\ fault[c] \notin Refusals
  /\ Return(c, resp[c], err[c])
  /\ UNCHANGED <<passes, visits, came, resp, err, held, crashed, hystrixVars>>

\* In debug mode hystrix.Do's answer is dropped.
DoneDebug(c) ==
  /\ stage[c] = "waiting" /\ passes[c] /\ Answers(c) # {}
  /\ Return(c, resp[c], err[c])
  /\ UNCHANGED <<passes, visits, came, resp, err, held, crashed, hystrixVars>>

\* Mutant of AssignAnswer: the answer of hystrix.Do is dropped here too.
DropAnswer(c) ==
  /\ stage[c] = "waiting" /\ ~passes[c] /\ Answers(c) # {}
  /\ stage' = [stage EXCEPT ![c] = "assigned"]
  /\ UNCHANGED <<passes, visits, came, resp, err, held, result, open, crashed,
                 hystrixVars>>

\* Otherwise it is assigned to err, and resp and err are read to be returned;
\* a closure that has timed out may assign them meanwhile.
AssignAnswer(c) ==
  /\ stage[c] = "waiting" /\ ~passes[c]
  /\ \E e \in Answers(c) : err' = [err EXCEPT ![c] = e]
  /\ stage' = [stage EXCEPT ![c] = "assigned"]
  /\ UNCHANGED <<passes, visits, came, resp, held, result, open, crashed, hystrixVars>>

LoadResp(c) ==
  /\ stage[c] = "assigned"
  /\ held' = [held EXCEPT ![c] = resp[c]]
  /\ stage' = [stage EXCEPT ![c] = "loaded"]
  /\ UNCHANGED <<passes, visits, came, resp, err, result, open, crashed, hystrixVars>>

LoadErr(c) ==
  /\ stage[c] = "loaded"
  /\ Return(c, held[c], err[c])
  /\ UNCHANGED <<passes, visits, came, resp, err, held, crashed, hystrixVars>>

(***************************************************************************)
(* The program.                                                            *)
(***************************************************************************)
Do(c) == ~crashed /\ (DoDebug(c) \/ DoProtected(c))

CallerStep(c) ==
  /\ ~crashed
  /\ \/ PassedOn(c) \/ DoneDebug(c)
     \/ AssignAnswer(c) \/ LoadResp(c) \/ LoadErr(c)

CommandStep(c) ==
  /\ ~crashed
  /\ \/ Begin(c) \/ Look(c) \/ AssignResp(c) \/ AssignErr(c) \/ Crash(c)
     \/ (Refuse(c) \/ Finish(c)) /\ UNCHANGED doVars

CircuitStep ==
  /\ ~crashed
  /\ (\E c \in Calls : TimeOut(c)) \/ SleepWindowOver \/ Forget
  /\ UNCHANGED doVars

CircuitNext ==
  \/ \E c \in Calls : Do(c) \/ CallerStep(c) \/ CommandStep(c)
  \/ CircuitStep

CircuitSpec == CircuitInit /\ [][CircuitNext]_circuitVars

\* Goroutines run, and d.d.Do returns some time; nobody has to call, and no timer
\* has to fire.
CircuitFairness == \A c \in Calls :
  WF_circuitVars(CallerStep(c)) /\ WF_circuitVars(CommandStep(c))

CircuitFairSpec == CircuitSpec /\ CircuitFairness

(***************************************************************************)
(* Properties.                                                             *)
(***************************************************************************)
TimedOut(c) == claimed[c] = "timer"

\* Debug mode blocks nothing (doer.go:185): whatever hystrix thinks of the circuit,
\* whoever has its tickets and whenever its timer fires, a call is passed on once
\* and returns what came, with its response closed.
PassesOn ==
  \A c \in Calls : stage[c] = "done" /\ passes[c] =>
    result[c] = came[c] /\ visits[c] = 1 /\ ~open[c]

\* Without debug, the closure and the answer of hystrix agree on what a call returns
\* as long as its timer has not fired (doer.go:319-334).  Either it was turned away,
\* and not passed on, or it was passed on once and returns what came, with its
\* response closed, unless a 5XX came, of which DocumentedErrors speaks.
NoRaceInTime ==
  \A c \in Calls : stage[c] = "done" /\ ~passes[c] /\ ~TimedOut(c) =>
    IF result[c] \in Refusals
    THEN visits[c] = 0 /\ ~open[c]
    ELSE visits[c] = 1 /\ (came[c] # "5XX" => result[c] = came[c] /\ ~open[c])

\* What every method documents, "500: *models.InternalError" (client.go:165), in
\* either mode: a 5XX that came in time is decoded, and its response closed.  The code
\* does not keep it without debug: the closure makes an error "5XX" of it, and the
\* response next to an error is left alone (doer.go:328-334, client.go:366).
DocumentedErrors ==
  \A c \in Calls : stage[c] = "done" /\ ~TimedOut(c) /\ came[c] = "5XX" =>
    result[c] = "5XX" /\ ~open[c]

\* MaxConcurrentRequests limits the calls that hystrix passes on (client.go:105):
\* not those of debug mode, and not those whose command has timed out, whose ticket
\* is given back once, while they go on.
LimitKept ==
  Cardinality({c \in Calls : /\ command[c] \in {"running", "writing"}
                             /\ ~passes[c] /\ ~TimedOut(c)}) <= MaxConcurrentRequests

\* Every call returns, with the circuit open or closed, for want of tickets, or
\* with a timer that fires beside its command.
CallsReturn == \A c \in Calls : stage[c] # "new" ~> stage[c] = "done" \/ crashed

=============================================================================
