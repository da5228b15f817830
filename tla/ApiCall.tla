------------------------------ MODULE ApiCall ------------------------------
(***************************************************************************)
(* What a caller of the client may rely on: how often the service carries  *)
(* out what was asked, and what the answer says about it.                  *)
(***************************************************************************)
EXTENDS Naturals

CONSTANTS
  Calls,   \* the calls, each made once
  Limits   \* how often a call may be carried out: positive numbers

VARIABLES
  limit,    \* limit[c]: how often c may be carried out, 0 until it is asked
  effects,  \* effects[c]: how often it has been
  answer    \* answer[c]: what the caller has been told

vars == <<limit, effects, answer>>

Init ==
  /\ limit   = [c \in Calls |-> 0]
  /\ effects = [c \in Calls |-> 0]
  /\ answer  = [c \in Calls |-> "pending"]

Reply(c, told) ==
  /\ answer[c] = "pending"
  /\ answer' = [answer EXCEPT ![c] = told]
  /\ UNCHANGED <<limit, effects>>

Ask(c, n) ==
  /\ limit[c] = 0 /\ answer[c] = "pending"
  /\ limit' = [limit EXCEPT ![c] = n]
  /\ UNCHANGED <<effects, answer>>

\* What was not asked properly is not asked at all.
Decline(c) == limit[c] = 0 /\ Reply(c, "declined")

\* The service may act until the caller has an answer that settles the matter.
Act(c) ==
  /\ effects[c] < limit[c]
  /\ answer[c] \in {"pending", "unknown"}
  /\ effects' = [effects EXCEPT ![c] = @ + 1]
  /\ UNCHANGED <<limit, answer>>

\* Done: it has been carried out.
Succeed(c) == effects[c] > 0 /\ Reply(c, "done")

\* Rejected: it has not, unless an earlier attempt at it had.
Reject(c) == limit[c] > 0 /\ (limit[c] = 1 => effects[c] = 0) /\ Reply(c, "rejected")

\* Unknown: it may have been, or may yet be.
GiveUp(c) == limit[c] > 0 /\ Reply(c, "unknown")

Next ==
  \E c \in Calls :
    \/ \E n \in Limits : Ask(c, n)
    \/ Decline(c) \/ Act(c) \/ Succeed(c) \/ Reject(c) \/ GiveUp(c)

Spec == Init /\ [][Next]_vars

=============================================================================
