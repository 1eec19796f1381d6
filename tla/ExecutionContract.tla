------------------------- MODULE ExecutionContract -------------------------
(***************************************************************************)
(* What the execution pipeline promises for order mutations: the exchange  *)
(* executes a mutation at most once, and a caller that is told of a failure *)
(* may rely on it - the mutation has not been executed and never will be.  *)
(* Only "unknown" leaves the question open.                                *)
(***************************************************************************)
CONSTANTS Mutations, Attempts

VARIABLES
  executed,   \* <<mutation, attempt>> pairs the exchange has executed
  verdict     \* what the caller was told

contractVars == <<executed, verdict>>

ContractInit ==
  /\ executed = {}
  /\ verdict = [c \in Mutations |-> "pending"]

NeverExecuted(c) == \A a \in Attempts : <<c, a>> \notin executed

ExchangeExecutes(c, a) ==
  /\ NeverExecuted(c)
  /\ verdict[c] # "failed"
  /\ executed' = executed \cup {<<c, a>>}
  /\ UNCHANGED verdict

Tell(c, v) ==
  /\ verdict[c] = "pending"
  /\ v = "failed" => NeverExecuted(c)
  /\ verdict' = [verdict EXCEPT ![c] = v]
  /\ UNCHANGED executed

ContractNext ==
  \E c \in Mutations :
    \/ \E a \in Attempts : ExchangeExecutes(c, a)
    \/ \E v \in {"failed", "unknown", "answered"} : Tell(c, v)

ContractSpec == ContractInit /\ [][ContractNext]_contractVars
=============================================================================
