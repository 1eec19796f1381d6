------------------------------ MODULE Executor ------------------------------
(***************************************************************************)
(* exchange.Executor: one HTTP request per attempt through the limiter and *)
(* the egress registry, with retries for reads only                        *)
(* (src/exchange/executor.go, src/transport/registry.go).                  *)
(*                                                                         *)
(* The exchange is at the other end of an unreliable network: a request    *)
(* may be lost, may be executed without the answer arriving, and may be    *)
(* executed after its caller has given up.  The limiter appears here as    *)
(* the set of keys it is blocking; RateLimiter is its detailed model.      *)
(***************************************************************************)
EXTENDS Naturals, FiniteSets

CONSTANTS
  Callers,      \* concurrent calls of Execute
  Mutations,    \* the calls whose Operation is OperationMutation
  Keys,         \* limiter keys
  Charges,      \* the keys each call is charged on
  MaxAttempts   \* ReadRetryPolicy.MaxAttempts

\* ReadRetryPolicy.validate bounds the attempts.
ASSUME ExecutorAssumption ==
  /\ Mutations \subseteq Callers
  /\ Charges \in [Callers -> SUBSET Keys]
  /\ MaxAttempts \in 1..5

Attempts == 1..MaxAttempts

\* HTTP status classes that the pipeline or the adapters tell apart: "408" stands
\* for 408 and 425, "429" for 429 and 418, "5xx" for 500, 502, 503 and 504, and
\* "501" for the other server errors.
Statuses == {"2xx", "4xx", "408", "429", "5xx", "501"}

\* Error categories the pipeline assigns; "argument" and "plain" are errors of
\* Execute and of Build that are no APIError.
Categories ==
  {"none", "argument", "plain", "internal", "timeout", "network", "validation", "unavailable", "unknown"}

Points ==
  {"idle", "wait", "build", "lookup", "dial", "inflight", "body", "backoff", "returned"}

VARIABLES
  pc, attempt,     \* Execute and executeAttempt, per call
  ctxDone,         \* requestCtx is canceled or past its deadline
  reply,           \* status of the response whose body is being read
  result,          \* what Execute returned
  observed,        \* attempts reported to the ExecutionObserver
  closed,          \* Registry.closed
  blocked,         \* keys the limiter blocks
  wire,            \* <<call, attempt>>: requests on their way to the exchange
  applied,         \* history: <<call, attempt>> the exchange has executed
  throttled,       \* history: keys the exchange has asked to be spared
  admitted         \* history: <<call, attempt>> past lookup when Close was called

callVars == <<pc, attempt, ctxDone, reply, result, observed>>
netVars == <<wire, applied>>
banVars == <<blocked, throttled>>
registryVars == <<closed, admitted>>
execVars == <<callVars, netVars, banVars, registryVars>>

Results == [err : Categories, status : Statuses \cup {"none"}, retryable : BOOLEAN]
NoResult == [err |-> "none", status |-> "none", retryable |-> FALSE]

ExecTypeOK ==
  /\ pc \in [Callers -> Points]
  /\ attempt \in [Callers -> Attempts]
  /\ ctxDone \in [Callers -> BOOLEAN]
  /\ reply \in [Callers -> Statuses \cup {"none"}]
  /\ result \in [Callers -> Results]
  /\ observed \in [Callers -> Nat]
  /\ closed \in BOOLEAN
  /\ blocked \subseteq Keys /\ throttled \subseteq Keys
  /\ wire \subseteq Callers \X Attempts
  /\ applied \subseteq Callers \X Attempts
  /\ admitted \subseteq Callers \X Attempts

ExecInit ==
  /\ pc = [c \in Callers |-> "idle"]
  /\ attempt = [c \in Callers |-> 1]
  /\ ctxDone = [c \in Callers |-> FALSE]
  /\ reply = [c \in Callers |-> "none"]
  /\ result = [c \in Callers |-> NoResult]
  /\ observed = [c \in Callers |-> 0]
  /\ closed = FALSE
  /\ blocked = {} /\ throttled = {}
  /\ wire = {} /\ applied = {} /\ admitted = {}
-----------------------------------------------------------------------------
(* Results. *)

Failure(category, retryable) ==
  [err |-> category, status |-> "none", retryable |-> retryable]

\* Mutant: a deadline is a timeout, whatever the operation.
TransportErrorTimeout(c, cause) ==
  CASE cause = "route" -> Failure("validation", FALSE)
    [] cause = "context" -> Failure("timeout", c \notin Mutations)
    [] OTHER -> Failure(IF c \in Mutations THEN "unknown" ELSE "network", c \notin Mutations)

\* transportError: what a failed send means.
TransportError(c, cause) ==
  CASE cause = "route" -> Failure("validation", FALSE)
    [] cause # "route" /\ c \in Mutations -> Failure("unknown", FALSE)
    [] OTHER -> Failure(IF cause = "context" THEN "timeout" ELSE "network", TRUE)

\* Mutant: an unreadable answer is the exchange's failure.
ResponseErrorUnavailable(c) == Failure("unavailable", TRUE)

\* responseError: the exchange answered, but the answer cannot be read.
ResponseError(c) ==
  IF c \in Mutations THEN Failure("unknown", FALSE) ELSE Failure("unavailable", TRUE)

\* Mutant: one attempt too many.
MaxAttemptsOffByOne(c) == IF c \in Mutations THEN 1 ELSE MaxAttempts + 1

\* Execute: only reads have more than one attempt.
MaxAttemptsOf(c) == IF c \in Mutations THEN 1 ELSE MaxAttempts

RetryableReadStatus(status) == status \in {"408", "5xx"}

Return(c, r) ==
  /\ pc' = [pc EXCEPT ![c] = "returned"]
  /\ result' = [result EXCEPT ![c] = r]
  /\ UNCHANGED <<attempt, ctxDone>>

\* executeAttempt reports every attempt once.
ObserveAttempt(c) == observed' = [observed EXCEPT ![c] = @ + 1]

\* Mutant: any error is worth another attempt.
EndAttemptRetriesErrors(c, retry, r) ==
  /\ ObserveAttempt(c)
  /\ reply' = [reply EXCEPT ![c] = "none"]
  /\ IF (retry \/ r.err # "none") /\ attempt[c] < MaxAttempts
     THEN pc' = [pc EXCEPT ![c] = "backoff"] /\ UNCHANGED <<attempt, ctxDone, result>>
     ELSE Return(c, r)

\* executeAttempt is over: Execute backs off before the next attempt or returns.
EndAttempt(c, retry, r) ==
  /\ ObserveAttempt(c)
  /\ reply' = [reply EXCEPT ![c] = "none"]
  /\ IF retry /\ attempt[c] < MaxAttemptsOf(c)
     THEN pc' = [pc EXCEPT ![c] = "backoff"] /\ UNCHANGED <<attempt, ctxDone, result>>
     ELSE Return(c, r)
-----------------------------------------------------------------------------
(* Execute and executeAttempt. *)

Goto(c, from, to) ==
  /\ pc[c] = from
  /\ pc' = [pc EXCEPT ![c] = to]
  /\ UNCHANGED <<attempt, ctxDone, reply, result, observed>>

\* Execute is called.
Call(c) == Goto(c, "idle", "wait") /\ UNCHANGED <<netVars, banVars, registryVars>>

\* Execute rejects its arguments.
CallInvalid(c) ==
  /\ pc[c] = "idle"
  /\ Return(c, Failure("argument", FALSE))
  /\ UNCHANGED <<reply, observed, netVars, banVars, registryVars>>

\* The limiter charges the call's keys.
WaitGranted(c) ==
  /\ Charges[c] \cap blocked = {}
  /\ Goto(c, "wait", "build")
  /\ UNCHANGED <<netVars, banVars, registryVars>>

\* The limiter has no rule for a key, or not this many units.
WaitRefused(c) ==
  /\ pc[c] = "wait"
  /\ EndAttempt(c, FALSE, Failure("internal", FALSE))
  /\ UNCHANGED <<netVars, banVars, registryVars>>

\* The context ends the wait for room.
WaitCanceled(c) ==
  /\ pc[c] = "wait" /\ ctxDone[c]
  /\ EndAttempt(c, FALSE, Failure("timeout", TRUE))
  /\ UNCHANGED <<netVars, banVars, registryVars>>

\* Build serialises and signs the request, after the wait.
Build(c) == Goto(c, "build", "lookup") /\ UNCHANGED <<netVars, banVars, registryVars>>

\* Mutant: a request that was never sent is not reported.
BuildFailsSilently(c) ==
  /\ pc[c] = "build"
  /\ Return(c, Failure("plain", FALSE))
  /\ UNCHANGED <<reply, observed, netVars, banVars, registryVars>>

BuildFails(c) ==
  /\ pc[c] = "build"
  /\ EndAttempt(c, FALSE, Failure("plain", FALSE))
  /\ UNCHANGED <<netVars, banVars, registryVars>>

\* Mutant: the transport of an earlier attempt is used again.
LookupUnlessRetry(c) ==
  /\ attempt[c] > 1 \/ ~closed
  /\ Goto(c, "lookup", "dial")
  /\ UNCHANGED <<netVars, banVars, registryVars>>

\* Registry.lookup finds the route's transport.
Lookup(c) ==
  /\ ~closed
  /\ Goto(c, "lookup", "dial")
  /\ UNCHANGED <<netVars, banVars, registryVars>>

\* The registry is closed, or has never known the route.
LookupFails(c) ==
  /\ pc[c] = "lookup"
  /\ closed \/ attempt[c] = 1
  /\ EndAttempt(c, FALSE, TransportError(c, "route"))
  /\ UNCHANGED <<netVars, banVars, registryVars>>

\* The transport writes the request to a connection of the route.
Transmit(c) ==
  /\ Goto(c, "dial", "inflight")
  /\ wire' = wire \cup {<<c, attempt[c]>>}
  /\ UNCHANGED <<applied, banVars, registryVars>>

\* A failed send or read is worth another attempt.
Retries(c) == c \notin Mutations /\ ~ctxDone[c]

\* No connection, or the connection is lost before the response.
SendFails(c) ==
  /\ pc[c] \in {"dial", "inflight"}
  /\ EndAttempt(c, Retries(c), TransportError(c, "network"))
  /\ UNCHANGED <<netVars, banVars, registryVars>>

\* Mutant: the request does not carry the context, only its dialing does.
SendCanceledDialing(c) ==
  /\ pc[c] = "dial" /\ ctxDone[c]
  /\ EndAttempt(c, Retries(c), TransportError(c, "context"))
  /\ UNCHANGED <<netVars, banVars, registryVars>>

\* The context ends the request, which may be at the exchange already.
SendCanceled(c) ==
  /\ pc[c] \in {"dial", "inflight"} /\ ctxDone[c]
  /\ EndAttempt(c, Retries(c), TransportError(c, "context"))
  /\ UNCHANGED <<netVars, banVars, registryVars>>

\* The response's body breaks off.
BodyFails(c) ==
  /\ pc[c] = "body"
  /\ EndAttempt(c, Retries(c), ResponseError(c))
  /\ UNCHANGED <<netVars, banVars, registryVars>>

\* The body is larger than MaxResponseBodyBytes.
BodyTooLarge(c) ==
  /\ pc[c] = "body"
  /\ EndAttempt(c, FALSE, ResponseError(c))
  /\ UNCHANGED <<netVars, banVars, registryVars>>

\* Mutant: only reads block their keys.
BlockKeysOfReads(c) ==
  /\ blocked' = IF reply[c] = "429" /\ c \notin Mutations THEN blocked \cup Charges[c] ELSE blocked
  /\ throttled' = IF reply[c] = "429" THEN throttled \cup Charges[c] ELSE throttled

\* applyRetryAfter: 429 and 418 block every key the request was charged on.
ApplyRetryAfter(c) ==
  /\ blocked' = IF reply[c] = "429" THEN blocked \cup Charges[c] ELSE blocked
  /\ throttled' = IF reply[c] = "429" THEN throttled \cup Charges[c] ELSE throttled

\* The response is complete.
BodyRead(c) ==
  /\ pc[c] = "body"
  /\ ApplyRetryAfter(c)
  /\ EndAttempt(c, c \notin Mutations /\ RetryableReadStatus(reply[c]),
                [err |-> "none", status |-> reply[c], retryable |-> FALSE])
  /\ UNCHANGED <<netVars, registryVars>>

\* waitBeforeRetry: the delay is over (or was zero: then no look at the context).
Backoff(c) ==
  /\ pc[c] = "backoff"
  /\ pc' = [pc EXCEPT ![c] = "wait"]
  /\ attempt' = [attempt EXCEPT ![c] = @ + 1]
  /\ UNCHANGED <<ctxDone, reply, result, observed, netVars, banVars, registryVars>>

BackoffCanceled(c) ==
  /\ pc[c] = "backoff" /\ ctxDone[c]
  /\ Return(c, TransportError(c, "context"))
  /\ UNCHANGED <<reply, observed, netVars, banVars, registryVars>>

\* Steps that wait for nobody, and steps the context forces.
Runs(c) ==
  \/ Build(c) \/ BuildFails(c) \/ Lookup(c) \/ LookupFails(c)
  \/ Backoff(c) \/ BackoffCanceled(c)
Yields(c) ==
  \/ WaitGranted(c) \/ WaitCanceled(c) \/ SendCanceled(c)
  \/ ctxDone[c] /\ (BodyFails(c) \/ BodyTooLarge(c) \/ BodyRead(c))

ExecuteStep(c) ==
  \/ Runs(c) \/ WaitGranted(c) \/ WaitRefused(c) \/ WaitCanceled(c) \/ Transmit(c)
  \/ SendFails(c) \/ SendCanceled(c) \/ BodyFails(c) \/ BodyTooLarge(c) \/ BodyRead(c)
-----------------------------------------------------------------------------
(* The context, the registry, the exchange and the network. *)

\* The timeout of the call, or a cancellation by its owner.
ContextEnds(c) ==
  /\ pc[c] # "returned" /\ ~ctxDone[c]
  /\ ctxDone' = [ctxDone EXCEPT ![c] = TRUE]
  /\ UNCHANGED <<pc, attempt, reply, result, observed, netVars, banVars, registryVars>>

\* Registry.Close refuses new requests; those past lookup still go out.
CloseRegistry ==
  /\ ~closed
  /\ closed' = TRUE
  /\ admitted' = wire \cup {<<c, attempt[c]>> : c \in {d \in Callers : pc[d] = "dial"}}
  /\ UNCHANGED <<callVars, netVars, banVars>>

\* Only a client or throttling error tells that the request was not executed.
Executable(status) == status \in {"2xx", "5xx", "501"}

\* Whether the caller still waits for this attempt's response.
Awaited(c, a) == pc[c] = "inflight" /\ attempt[c] = a

\* The exchange executes a request, sooner or later; its answer may get lost.
ExchangeExecutes(c, a) ==
  /\ <<c, a>> \in wire
  /\ wire' = wire \ {<<c, a>>}
  /\ applied' = applied \cup {<<c, a>>}
  /\ \/ UNCHANGED <<pc, reply>>
     \/ /\ Awaited(c, a)
        /\ pc' = [pc EXCEPT ![c] = "body"]
        /\ \E s \in {t \in Statuses : Executable(t)} : reply' = [reply EXCEPT ![c] = s]
  /\ UNCHANGED <<attempt, ctxDone, result, observed, banVars, registryVars>>

\* The exchange (or a gateway before it) refuses a request, or the network loses it.
ExchangeRefuses(c, a) ==
  /\ <<c, a>> \in wire
  /\ wire' = wire \ {<<c, a>>}
  /\ \/ UNCHANGED <<pc, reply>>
     \/ /\ Awaited(c, a)
        /\ pc' = [pc EXCEPT ![c] = "body"]
        /\ \E s \in Statuses \ {"2xx"} : reply' = [reply EXCEPT ![c] = s]
  /\ UNCHANGED <<attempt, ctxDone, result, observed, applied, banVars, registryVars>>

\* The ban on a key ends: the time the exchange asked for is over, or SetRule has
\* replaced the rule of the key and the ban with it.
BanLapses(k) ==
  /\ k \in blocked \cup throttled
  /\ blocked' = blocked \ {k}
  /\ throttled' = throttled \ {k}
  /\ UNCHANGED <<callVars, netVars, registryVars>>

AllReturned == (\A c \in Callers : pc[c] = "returned") /\ UNCHANGED execVars

ExecNext ==
  \/ \E c \in Callers :
       \/ Call(c) \/ CallInvalid(c) \/ ExecuteStep(c) \/ ContextEnds(c)
       \/ \E a \in Attempts : ExchangeExecutes(c, a) \/ ExchangeRefuses(c, a)
  \/ CloseRegistry
  \/ \E k \in Keys : BanLapses(k)
  \/ AllReturned

ExecSpec == ExecInit /\ [][ExecNext]_execVars

\* Goroutines run, timeouts expire, and a call whose context is done does not block.
\* The network and the exchange owe nothing, not even a failure.
ExecFairSpec ==
  /\ ExecSpec
  /\ \A c \in Callers :
       /\ WF_execVars(Call(c) \/ CallInvalid(c))
       /\ WF_execVars(ContextEnds(c))
       /\ WF_execVars(Runs(c))
       /\ WF_execVars(Yields(c))
-----------------------------------------------------------------------------
(* Properties. *)

\* No mutation is executed twice, whatever is lost, delayed or retried: Execute
\* never sends a second copy of one.
AtMostOnce ==
  \A c \in Mutations : \A a, b \in Attempts :
    <<c, a>> \in applied \cup wire /\ <<c, b>> \in applied \cup wire => a = b

\* A mutation that failed with any error but UNKNOWN_EXECUTION_STATE, or with an
\* error marked Retryable, has not reached the exchange and cannot reach it later.
FailureIsFinal ==
  \A c \in Mutations :
    pc[c] = "returned" /\ result[c].err # "none"
      /\ (result[c].err # "unknown" \/ result[c].retryable)
    => \A a \in Attempts : <<c, a>> \notin wire \cup applied

\* A 429 to one caller bans every key of its charge: until the ban lapses, or is wiped
\* with its rule, no caller charged on one of them is admitted.  How a ban stands up
\* to waiting callers and to other bans is BanHolds of RateLimiter.
BanSpares ==
  [][\A c \in Callers :
       pc[c] = "wait" /\ pc'[c] = "build" => Charges[c] \cap throttled = {}]_execVars

\* After Registry.Close only attempts that were past lookup reach the exchange.
ClosedRefuses == closed => wire \subseteq admitted

\* Every attempt is reported to the observer exactly once, on every way out.
ObservedOnce ==
  \A c \in Callers :
    observed[c] = IF pc[c] \in {"returned", "backoff"} /\ result[c].err # "argument"
                  THEN attempt[c] ELSE attempt[c] - 1

\* A mutation is executed at most once, and a definite failure of it stays one.
MutationsAreSafe == ExecTypeOK /\ AtMostOnce /\ FailureIsFinal

\* Every attempt is accounted for: reported once, refused after Registry.Close, and
\* not admitted while a ban lasts on one of its keys.
AttemptsAreAccounted == [](ClosedRefuses /\ ObservedOnce) /\ BanSpares

\* Every Execute returns: neither the limiter, nor the network, nor the retries
\* hold a call for ever once its context ends.
EveryCallReturns == \A c \in Callers : <>(pc[c] = "returned")

\* The pipeline implements its contract for mutations.
Told(c) ==
  IF pc[c] # "returned" THEN "pending"
  ELSE CASE result[c].err = "none" -> "answered"
         [] result[c].err = "unknown" -> "unknown"
         [] OTHER -> "failed"
Contract == INSTANCE ExecutionContract WITH
  executed <- {p \in applied : p[1] \in Mutations},
  verdict <- [c \in Mutations |-> Told(c)]
ImplementsContract == Contract!ContractSpec
=============================================================================
