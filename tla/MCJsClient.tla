----------------------------- MODULE MCJsClient -----------------------------
(***************************************************************************)
(* JsClient with two calls: First asks for every operation, Second         *)
(* competes with it for the only execution there may be.                   *)
(***************************************************************************)
EXTENDS JsClient

CONSTANTS First, Second

BothCalls == {First, Second}

Ask(o, policy, callback) ==
  [op |-> o, empty |-> {}, policy |-> policy, callback |-> callback]

\* Every operation under the default policy, one of each method under the others,
\* and with each path parameter falsy; callbacks of every kind.
FirstRequests ==
  {Ask(o, "single", "returns") : o \in JsOperations} \cup
  {Ask(o, policy, "none") : o \in {createPeer, updatePeer, deletePeer, getPeer},
                            policy \in {"none", "exponential", "CallersPolicy"}} \cup
  UNION {{[Ask(o, "single", "returns") EXCEPT !.empty = {p}] : p \in o.params} :
           o \in JsOperations} \cup
  {Ask(getPeer, "none", "throws")}

SecondRequests ==
  {Ask(createPeer, "single", "returns"),
   [Ask(getPeer, "single", "none") EXCEPT !.empty = {"peerID"}]}

BothRequests == [c \in BothCalls |-> IF c = First THEN FirstRequests ELSE SecondRequests]

=============================================================================
