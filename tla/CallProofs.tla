---------------------------- MODULE CallProofs ----------------------------
(***************************************************************************)
(* Proofs about the calls of the REST clients: Executor, the pipeline they *)
(* all go through, for any calls, keys and attempts, and ReadRuns, the     *)
(* market reads made of them, for every adapter, size, page and time.      *)
(***************************************************************************)
EXTENDS Executor, ReadRuns, SharedFacts, SequenceTheorems, TLAPS

(* The pipeline that executes one call. *)

\* Every result the pipeline builds is a well-formed one.
LEMMA ResultsTyped ==
  /\ NoResult \in Results
  /\ \A e \in Categories, b \in BOOLEAN : Failure(e, b) \in Results
  /\ \A c \in Callers : ResponseError(c) \in Results
  /\ \A c \in Callers : \A cause : TransportError(c, cause) \in Results
  /\ \A s \in Statuses :
       [err |-> "none", status |-> s, retryable |-> FALSE] \in Results
<1>1. \A e \in Categories, b \in BOOLEAN : Failure(e, b) \in Results
  BY Zenon DEF Failure, Results
<1>2. \A c \in Callers : ResponseError(c) \in Results
  BY <1>1, Zenon DEF ResponseError, Categories
<1>3. \A c \in Callers : \A cause : TransportError(c, cause) \in Results
  BY <1>1 DEF TransportError, Categories
<1>4. NoResult \in Results
  BY Zenon DEF NoResult, Results, Categories
<1>5. \A s \in Statuses : [err |-> "none", status |-> s, retryable |-> FALSE] \in Results
  BY Zenon DEF Results, Categories
<1>6. QED
  BY <1>1, <1>2, <1>3, <1>4, <1>5

\* A call backs off only when it has an attempt left, and reads a body only of a
\* response that has a status.
Bounded ==
  /\ \A c \in Callers : pc[c] = "backoff" => attempt[c] < MaxAttempts
  /\ \A c \in Callers : pc[c] = "body" => reply[c] \in Statuses

CallTyped ==
  /\ pc \in [Callers -> Points]
  /\ attempt \in [Callers -> Attempts]
  /\ ctxDone \in [Callers -> BOOLEAN]
  /\ reply \in [Callers -> Statuses \cup {"none"}]
  /\ result \in [Callers -> Results]
  /\ observed \in [Callers -> Nat]

\* The end of an attempt keeps the calls well-formed.
LEMMA EndTyped ==
  ASSUME CallTyped, Bounded, NEW c \in Callers, NEW retry, NEW r \in Results,
         EndAttempt(c, retry, r)
  PROVE  CallTyped' /\ Bounded'
<1> USE DEF CallTyped, Bounded, EndAttempt, Return, ObserveAttempt, Points
<1>1. CASE retry /\ attempt[c] < MaxAttemptsOf(c)
  BY <1>1, ExecutorAssumption DEF MaxAttemptsOf, Attempts
<1>2. CASE ~(retry /\ attempt[c] < MaxAttemptsOf(c))
  BY <1>2
<1>3. QED
  BY <1>1, <1>2

\* A step keeps every call of its type and every attempt within its bound.
LEMMA TypingStep ==
  ASSUME ExecTypeOK, Bounded, [ExecNext]_execVars
  PROVE  ExecTypeOK' /\ Bounded'
<1> USE DEF ExecTypeOK, callVars, netVars, banVars, registryVars
<1>0. CallTyped
  BY DEF CallTyped
<1>a. Failure("argument", FALSE) \in Results
  BY ResultsTyped, Zenon DEF Categories
<1>1. CASE \E c \in Callers : Call(c)
  BY <1>1
     DEF Call, Goto, Points, Bounded
<1>2. CASE \E c \in Callers : CallInvalid(c)
  <2>1. PICK c \in Callers : CallInvalid(c)
    BY <1>2
  <2>2. PICK r \in Results : r = Failure("argument", FALSE)
    BY <1>a
  <2>3. /\ pc' = [pc EXCEPT ![c] = "returned"] /\ result' = [result EXCEPT ![c] = r]
        /\ UNCHANGED <<attempt, ctxDone, reply, observed, netVars, banVars, registryVars>>
    BY <2>1, <2>2, Zenon DEF CallInvalid, Return
  <2>4. QED
    BY <2>3 DEF Bounded, Points
<1>3. CASE \E c \in Callers : WaitGranted(c)
  BY <1>3
     DEF WaitGranted, Goto, Points, Bounded
<1>4. CASE \E c \in Callers : WaitRefused(c)
  BY <1>4, <1>0, EndTyped, ResultsTyped
     DEF WaitRefused, CallTyped, Categories, Attempts
<1>5. CASE \E c \in Callers : WaitCanceled(c)
  BY <1>5, <1>0, EndTyped, ResultsTyped
     DEF WaitCanceled, CallTyped, Categories, Attempts
<1>6. CASE \E c \in Callers : Build(c)
  BY <1>6
     DEF Build, Goto, Points, Bounded
<1>7. CASE \E c \in Callers : BuildFails(c)
  BY <1>7, <1>0, EndTyped, ResultsTyped
     DEF BuildFails, CallTyped, Categories, Attempts
<1>8. CASE \E c \in Callers : Lookup(c)
  BY <1>8
     DEF Lookup, Goto, Points, Bounded
<1>9. CASE \E c \in Callers : LookupFails(c)
  BY <1>9, <1>0, EndTyped, ResultsTyped
     DEF LookupFails, CallTyped, Categories, Attempts
<1>10. CASE \E c \in Callers : Transmit(c)
  BY <1>10
     DEF Transmit, Goto, Points, Bounded
<1>11. CASE \E c \in Callers : SendFails(c)
  BY <1>11, <1>0, EndTyped, ResultsTyped
     DEF SendFails, CallTyped, Categories, Attempts
<1>12. CASE \E c \in Callers : SendCanceled(c)
  BY <1>12, <1>0, EndTyped, ResultsTyped
     DEF SendCanceled, CallTyped, Categories, Attempts
<1>13. CASE \E c \in Callers : BodyFails(c)
  BY <1>13, <1>0, EndTyped, ResultsTyped
     DEF BodyFails, CallTyped, Categories, Attempts
<1>14. CASE \E c \in Callers : BodyTooLarge(c)
  BY <1>14, <1>0, EndTyped, ResultsTyped
     DEF BodyTooLarge, CallTyped, Categories, Attempts
<1>15. CASE \E c \in Callers : BodyRead(c)
  BY <1>15, ExecutorAssumption, <1>0, EndTyped, ResultsTyped
     DEF BodyRead, CallTyped, Categories, Attempts, ApplyRetryAfter, Bounded
<1>16. CASE \E c \in Callers : Backoff(c)
  BY <1>16, ExecutorAssumption
     DEF Backoff, Points, Bounded, Attempts
<1>17. CASE \E c \in Callers : BackoffCanceled(c)
  BY <1>17, ResultsTyped
     DEF BackoffCanceled, Return, Points, Bounded
<1>18. CASE \E c \in Callers : ContextEnds(c)
  BY <1>18
     DEF ContextEnds, Bounded
<1>19. CASE \E c \in Callers, a \in Attempts : ExchangeExecutes(c, a)
  BY <1>19
     DEF ExchangeExecutes, Bounded, Points
<1>20. CASE \E c \in Callers, a \in Attempts : ExchangeRefuses(c, a)
  BY <1>20
     DEF ExchangeRefuses, Bounded, Points
<1>21. CASE CloseRegistry
  BY <1>21
     DEF CloseRegistry, Bounded
<1>22. CASE \E k \in Keys : BanLapses(k)
  BY <1>22
     DEF BanLapses, Bounded
<1>23. CASE UNCHANGED execVars
  BY <1>23
     DEF execVars, Bounded
<1>24. QED
  BY <1>1, <1>2, <1>3, <1>4, <1>5, <1>6, <1>7, <1>8, <1>9, <1>10, <1>11, <1>12,
     <1>13, <1>14, <1>15, <1>16, <1>17, <1>18, <1>19, <1>20, <1>21, <1>22, <1>23
     DEF ExecNext, ExecuteStep, Runs, AllReturned

\* The type invariant: in particular no call makes more attempts than
\* ReadRetryPolicy.MaxAttempts.
THEOREM ExecTyping == ExecSpec => []ExecTypeOK
<1>1. ExecInit => ExecTypeOK /\ Bounded
  <2>1. ExecInit => closed \in BOOLEAN /\ ctxDone \in [Callers -> BOOLEAN]
    BY Zenon DEF ExecInit
  <2>2. ExecInit => result \in [Callers -> Results]
    BY ResultsTyped, Zenon DEF ExecInit
  <2>3. QED
    BY <2>1, <2>2, ExecutorAssumption DEF ExecInit, ExecTypeOK, Bounded, Points, Attempts
<1>2. ExecTypeOK /\ Bounded /\ [ExecNext]_execVars => (ExecTypeOK /\ Bounded)'
  BY TypingStep
<1>3. QED
  BY <1>1, <1>2, PTL DEF ExecSpec

-----------------------------------------------------------------------------
(* Mutations. *)

Unsent(c) == \A a \in Attempts : <<c, a>> \notin wire \cup applied

\* The error says that the mutation may have been executed.
Open(r) == r.err = "none" \/ (r.err = "unknown" /\ r.retryable = FALSE)

\* The inductive invariant behind AtMostOnce and FailureIsFinal: a mutation has one
\* attempt, is on the wire at most once and not before it is dialed, and a call that
\* has returned with anything but an open result has not sent it.
SentInv ==
  \A c \in Mutations :
    /\ attempt[c] = 1 /\ pc[c] # "backoff"
    /\ pc[c] \in {"idle", "wait", "build", "lookup", "dial"} => Unsent(c)
    /\ \A a \in Attempts : <<c, a>> \in wire \cup applied => a = 1
    /\ \A a \in Attempts : <<c, a>> \in wire => <<c, a>> \notin applied
    /\ pc[c] = "returned" => Open(result[c]) \/ Unsent(c)

\* What an attempt of a mutation may end with.
LEMMA EndSent ==
  ASSUME ExecTypeOK, SentInv, NEW c \in Callers, NEW retry, NEW r,
         EndAttempt(c, retry, r), UNCHANGED netVars,
         c \in Mutations => Open(r) \/ Unsent(c)
  PROVE  SentInv'
<1> SUFFICES ASSUME NEW d \in Mutations
             PROVE  /\ attempt'[d] = 1 /\ pc'[d] # "backoff"
                    /\ pc'[d] \in {"idle", "wait", "build", "lookup", "dial"} => Unsent(d)'
                    /\ \A a \in Attempts : <<d, a>> \in (wire \cup applied)' => a = 1
                    /\ \A a \in Attempts : <<d, a>> \in wire' => <<d, a>> \notin applied'
                    /\ pc'[d] = "returned" => Open(result'[d]) \/ Unsent(d)'
  BY DEF SentInv, Open
<1>1. d \in Callers /\ Unsent(d)' = Unsent(d)
  BY ExecutorAssumption DEF Unsent, netVars
<1>2. CASE d # c
  BY <1>1, <1>2 DEF SentInv, EndAttempt, Return, ExecTypeOK, netVars
<1>3. CASE d = c
  <2>1. ~(attempt[c] < MaxAttemptsOf(c))
    BY <1>3, ExecutorAssumption DEF SentInv, MaxAttemptsOf
  <2>2. Return(c, r)
    BY <2>1 DEF EndAttempt
  <2>3. QED
    BY <1>1, <1>3, <2>2 DEF SentInv, Return, ExecTypeOK, netVars
<1>4. QED
  BY <1>2, <1>3

LEMMA SentStep ==
  ASSUME ExecTypeOK, SentInv, [ExecNext]_execVars
  PROVE  SentInv'
<1> USE DEF callVars, netVars, banVars, registryVars
<1>a. \A c \in Mutations : Open(ResponseError(c)) /\ \A cause : cause # "route" => Open(TransportError(c, cause))
  BY DEF Open, ResponseError, TransportError, Failure
<1>b. \A s : Open([err |-> "none", status |-> s, retryable |-> FALSE])
  BY DEF Open
<1>1. CASE \E c \in Callers : Call(c)
  BY <1>1, ExecutorAssumption
     DEF Call, Goto, SentInv, Unsent, ExecTypeOK
<1>2. CASE \E c \in Callers : CallInvalid(c)
  BY <1>2, ExecutorAssumption
     DEF CallInvalid, Return, SentInv, Unsent, ExecTypeOK
<1>3. CASE \E c \in Callers : WaitGranted(c)
  BY <1>3, ExecutorAssumption
     DEF WaitGranted, Goto, SentInv, Unsent, ExecTypeOK
<1>4. CASE \E c \in Callers : WaitRefused(c)
  BY <1>4, <1>a, <1>b, EndSent
     DEF WaitRefused, SentInv
<1>5. CASE \E c \in Callers : WaitCanceled(c)
  BY <1>5, <1>a, <1>b, EndSent
     DEF WaitCanceled, SentInv
<1>6. CASE \E c \in Callers : Build(c)
  BY <1>6, ExecutorAssumption
     DEF Build, Goto, SentInv, Unsent, ExecTypeOK
<1>7. CASE \E c \in Callers : BuildFails(c)
  BY <1>7, <1>a, <1>b, EndSent
     DEF BuildFails, SentInv
<1>8. CASE \E c \in Callers : Lookup(c)
  BY <1>8, ExecutorAssumption
     DEF Lookup, Goto, SentInv, Unsent, ExecTypeOK
<1>9. CASE \E c \in Callers : LookupFails(c)
  BY <1>9, <1>a, <1>b, EndSent
     DEF LookupFails, SentInv
<1>10. CASE \E c \in Callers : Transmit(c)
  BY <1>10, ExecutorAssumption
     DEF Transmit, Goto, SentInv, Unsent, ExecTypeOK
<1>11. CASE \E c \in Callers : SendFails(c)
  BY <1>11, <1>a, <1>b, EndSent
     DEF SendFails, SentInv
<1>12. CASE \E c \in Callers : SendCanceled(c)
  BY <1>12, <1>a, <1>b, EndSent
     DEF SendCanceled, SentInv
<1>13. CASE \E c \in Callers : BodyFails(c)
  BY <1>13, <1>a, <1>b, EndSent
     DEF BodyFails, SentInv
<1>14. CASE \E c \in Callers : BodyTooLarge(c)
  BY <1>14, <1>a, <1>b, EndSent
     DEF BodyTooLarge, SentInv
<1>15. CASE \E c \in Callers : BodyRead(c)
  BY <1>15, <1>a, <1>b, EndSent
     DEF BodyRead, SentInv
<1>16. CASE \E c \in Callers : Backoff(c)
  BY <1>16, ExecutorAssumption
     DEF Backoff, SentInv, Unsent, ExecTypeOK
<1>17. CASE \E c \in Callers : BackoffCanceled(c)
  BY <1>17, ExecutorAssumption
     DEF BackoffCanceled, Return, SentInv, Unsent, ExecTypeOK
<1>18. CASE \E c \in Callers : ContextEnds(c)
  BY <1>18, ExecutorAssumption
     DEF ContextEnds, SentInv, Unsent, ExecTypeOK
<1>19. CASE \E c \in Callers, a \in Attempts : ExchangeExecutes(c, a)
  BY <1>19, ExecutorAssumption
     DEF ExchangeExecutes, SentInv, Unsent, ExecTypeOK
<1>20. CASE \E c \in Callers, a \in Attempts : ExchangeRefuses(c, a)
  BY <1>20, ExecutorAssumption
     DEF ExchangeRefuses, SentInv, Unsent, ExecTypeOK
<1>21. CASE CloseRegistry
  BY <1>21
     DEF CloseRegistry, SentInv, Unsent, ExecTypeOK
<1>22. CASE \E k \in Keys : BanLapses(k)
  BY <1>22
     DEF BanLapses, SentInv, Unsent, ExecTypeOK
<1>23. CASE UNCHANGED execVars
  BY <1>23
     DEF execVars, SentInv, Unsent
<1>24. QED
  BY <1>1, <1>2, <1>3, <1>4, <1>5, <1>6, <1>7, <1>8, <1>9, <1>10, <1>11, <1>12,
     <1>13, <1>14, <1>15, <1>16, <1>17, <1>18, <1>19, <1>20, <1>21, <1>22, <1>23
     DEF ExecNext, ExecuteStep, Runs, AllReturned

\* A mutation is executed at most once, in every run of the pipeline: executeAttempt
\* is never repeated for it.
THEOREM OnceOnly == ExecSpec => []AtMostOnce
<1>1. ExecInit => SentInv
  BY ExecutorAssumption DEF ExecInit, SentInv, Unsent
<1>2. ExecTypeOK /\ SentInv /\ [ExecNext]_execVars => SentInv'
  BY SentStep
<1>3. SentInv => AtMostOnce
  BY DEF SentInv, AtMostOnce
<1>4. QED
  BY <1>1, <1>2, <1>3, ExecTyping, PTL DEF ExecSpec

\* A mutation reported with a definite failure has not been executed and never is.
THEOREM FailureFinal == ExecSpec => []FailureIsFinal
<1>1. ExecInit => SentInv
  BY ExecutorAssumption DEF ExecInit, SentInv, Unsent
<1>2. ExecTypeOK /\ SentInv /\ [ExecNext]_execVars => SentInv'
  BY SentStep
<1>3. SentInv => FailureIsFinal
  BY DEF SentInv, FailureIsFinal, Unsent, Open
<1>4. QED
  BY <1>1, <1>2, <1>3, ExecTyping, PTL DEF ExecSpec

-----------------------------------------------------------------------------
(* The registry, the observer and the bans. *)

\* A call that dials after Close passed lookup before it.
AdmittedInv ==
  closed => /\ wire \subseteq admitted
            /\ \A c \in Callers : pc[c] = "dial" => <<c, attempt[c]>> \in admitted

\* After Registry.Close nothing reaches the exchange that had not passed lookup.
THEOREM CloseRefuses == ExecSpec => []ClosedRefuses
<1>1. ExecInit => AdmittedInv
  BY DEF ExecInit, AdmittedInv
<1>2. ASSUME ExecTypeOK, AdmittedInv, [ExecNext]_execVars
      PROVE  AdmittedInv'
  <2> USE <1>2 DEF callVars, netVars, banVars, registryVars, AdmittedInv, ExecTypeOK
  <2>1. CASE \E c \in Callers : Call(c)
    BY <2>1
       DEF Call, Goto
  <2>2. CASE \E c \in Callers : CallInvalid(c)
    BY <2>2
       DEF CallInvalid, Return
  <2>3. CASE \E c \in Callers : WaitGranted(c)
    BY <2>3
       DEF WaitGranted, Goto
  <2>4. CASE \E c \in Callers : WaitRefused(c)
    BY <2>4
       DEF WaitRefused, EndAttempt, Return, ObserveAttempt
  <2>5. CASE \E c \in Callers : WaitCanceled(c)
    BY <2>5
       DEF WaitCanceled, EndAttempt, Return, ObserveAttempt
  <2>6. CASE \E c \in Callers : Build(c)
    BY <2>6
       DEF Build, Goto
  <2>7. CASE \E c \in Callers : BuildFails(c)
    BY <2>7
       DEF BuildFails, EndAttempt, Return, ObserveAttempt
  <2>8. CASE \E c \in Callers : Lookup(c)
    BY <2>8
       DEF Lookup, Goto
  <2>9. CASE \E c \in Callers : LookupFails(c)
    BY <2>9
       DEF LookupFails, EndAttempt, Return, ObserveAttempt
  <2>10. CASE \E c \in Callers : Transmit(c)
    BY <2>10
       DEF Transmit, Goto
  <2>11. CASE \E c \in Callers : SendFails(c)
    BY <2>11
       DEF SendFails, EndAttempt, Return, ObserveAttempt
  <2>12. CASE \E c \in Callers : SendCanceled(c)
    BY <2>12
       DEF SendCanceled, EndAttempt, Return, ObserveAttempt
  <2>13. CASE \E c \in Callers : BodyFails(c)
    BY <2>13
       DEF BodyFails, EndAttempt, Return, ObserveAttempt
  <2>14. CASE \E c \in Callers : BodyTooLarge(c)
    BY <2>14
       DEF BodyTooLarge, EndAttempt, Return, ObserveAttempt
  <2>15. CASE \E c \in Callers : BodyRead(c)
    BY <2>15
       DEF BodyRead, EndAttempt, Return, ObserveAttempt
  <2>16. CASE \E c \in Callers : Backoff(c)
    BY <2>16
       DEF Backoff
  <2>17. CASE \E c \in Callers : BackoffCanceled(c)
    BY <2>17
       DEF BackoffCanceled, Return
  <2>18. CASE \E c \in Callers : ContextEnds(c)
    BY <2>18
       DEF ContextEnds
  <2>19. CASE \E c \in Callers, a \in Attempts : ExchangeExecutes(c, a)
    BY <2>19
       DEF ExchangeExecutes
  <2>20. CASE \E c \in Callers, a \in Attempts : ExchangeRefuses(c, a)
    BY <2>20
       DEF ExchangeRefuses
  <2>21. CASE CloseRegistry
    BY <2>21
       DEF CloseRegistry
  <2>22. CASE \E k \in Keys : BanLapses(k)
    BY <2>22
       DEF BanLapses
  <2>23. CASE UNCHANGED execVars
    BY <2>23
       DEF execVars
  <2>24. QED
    BY <2>1, <2>2, <2>3, <2>4, <2>5, <2>6, <2>7, <2>8, <2>9, <2>10, <2>11, <2>12,
       <2>13, <2>14, <2>15, <2>16, <2>17, <2>18, <2>19, <2>20, <2>21, <2>22, <2>23
       DEF ExecNext, ExecuteStep, Runs, AllReturned
<1>3. AdmittedInv => ClosedRefuses
  BY DEF AdmittedInv, ClosedRefuses
<1>4. QED
  BY <1>1, <1>2, <1>3, ExecTyping, PTL DEF ExecSpec

\* Execute's own errors come from no attempt.
ArgumentInv == \A c \in Callers : pc[c] # "returned" => result[c].err # "argument"

LEMMA EndObserved ==
  ASSUME ExecTypeOK, ObservedOnce, ArgumentInv, NEW c \in Callers, NEW retry, NEW r,
         EndAttempt(c, retry, r), pc[c] \notin {"returned", "backoff"}, r.err # "argument"
  PROVE  ObservedOnce' /\ ArgumentInv'
<1>1. observed[c] + 1 = attempt[c]
  BY DEF ObservedOnce, ExecTypeOK, Attempts
<1>2. observed' = [observed EXCEPT ![c] = attempt[c]] /\ attempt' = attempt
  BY <1>1 DEF EndAttempt, ObserveAttempt, Return, ExecTypeOK
<1>3. \/ pc' = [pc EXCEPT ![c] = "backoff"] /\ result' = result
      \/ pc' = [pc EXCEPT ![c] = "returned"] /\ result' = [result EXCEPT ![c] = r]
  BY DEF EndAttempt, Return
<1>4. QED
  BY <1>1, <1>2, <1>3 DEF ObservedOnce, ArgumentInv, ExecTypeOK

\* On every way out of executeAttempt the observer is told exactly once.
THEOREM AttemptsObserved == ExecSpec => []ObservedOnce
<1>1. ExecInit => ObservedOnce /\ ArgumentInv
  BY DEF ExecInit, ObservedOnce, ArgumentInv, NoResult
<1>2. ASSUME ExecTypeOK, ArgumentInv, ObservedOnce, [ExecNext]_execVars
      PROVE  ObservedOnce' /\ ArgumentInv'
  <2> USE <1>2 DEF callVars, netVars, banVars, registryVars
  <2>a. /\ \A c \in Callers : ResponseError(c).err # "argument"
        /\ \A c \in Callers : \A cause : TransportError(c, cause).err # "argument"
        /\ \A e, b : Failure(e, b).err = e
    BY DEF ResponseError, TransportError, Failure
  <2>1. CASE \E c \in Callers : Call(c)
    BY <2>1
       DEF Call, Goto, ObservedOnce, ArgumentInv, ExecTypeOK
  <2>2. CASE \E c \in Callers : CallInvalid(c)
    BY <2>2
       DEF CallInvalid, Return, Failure, ObservedOnce, ArgumentInv, ExecTypeOK
  <2>3. CASE \E c \in Callers : WaitGranted(c)
    BY <2>3
       DEF WaitGranted, Goto, ObservedOnce, ArgumentInv, ExecTypeOK
  <2>4. CASE \E c \in Callers : WaitRefused(c)
    BY <2>4, <2>a, EndObserved
       DEF WaitRefused
  <2>5. CASE \E c \in Callers : WaitCanceled(c)
    BY <2>5, <2>a, EndObserved
       DEF WaitCanceled
  <2>6. CASE \E c \in Callers : Build(c)
    BY <2>6
       DEF Build, Goto, ObservedOnce, ArgumentInv, ExecTypeOK
  <2>7. CASE \E c \in Callers : BuildFails(c)
    BY <2>7, <2>a, EndObserved
       DEF BuildFails
  <2>8. CASE \E c \in Callers : Lookup(c)
    BY <2>8
       DEF Lookup, Goto, ObservedOnce, ArgumentInv, ExecTypeOK
  <2>9. CASE \E c \in Callers : LookupFails(c)
    BY <2>9, <2>a, EndObserved
       DEF LookupFails
  <2>10. CASE \E c \in Callers : Transmit(c)
    BY <2>10
       DEF Transmit, Goto, ObservedOnce, ArgumentInv, ExecTypeOK
  <2>11. CASE \E c \in Callers : SendFails(c)
    BY <2>11, <2>a, EndObserved
       DEF SendFails
  <2>12. CASE \E c \in Callers : SendCanceled(c)
    BY <2>12, <2>a, EndObserved
       DEF SendCanceled
  <2>13. CASE \E c \in Callers : BodyFails(c)
    BY <2>13, <2>a, EndObserved
       DEF BodyFails
  <2>14. CASE \E c \in Callers : BodyTooLarge(c)
    BY <2>14, <2>a, EndObserved
       DEF BodyTooLarge
  <2>15. CASE \E c \in Callers : BodyRead(c)
    BY <2>15, <2>a, EndObserved
       DEF BodyRead
  <2>16. CASE \E c \in Callers : Backoff(c)
    BY <2>16
       DEF Backoff, ObservedOnce, ArgumentInv, ExecTypeOK, Attempts
  <2>17. CASE \E c \in Callers : BackoffCanceled(c)
    BY <2>17, <2>a
       DEF BackoffCanceled, Return, ObservedOnce, ArgumentInv, ExecTypeOK
  <2>18. CASE \E c \in Callers : ContextEnds(c)
    BY <2>18
       DEF ContextEnds, ObservedOnce, ArgumentInv, ExecTypeOK
  <2>19. CASE \E c \in Callers, a \in Attempts : ExchangeExecutes(c, a)
    BY <2>19
       DEF ExchangeExecutes, Awaited, ObservedOnce, ArgumentInv, ExecTypeOK
  <2>20. CASE \E c \in Callers, a \in Attempts : ExchangeRefuses(c, a)
    BY <2>20
       DEF ExchangeRefuses, Awaited, ObservedOnce, ArgumentInv, ExecTypeOK
  <2>21. CASE CloseRegistry
    BY <2>21
       DEF CloseRegistry, ObservedOnce, ArgumentInv, ExecTypeOK
  <2>22. CASE \E k \in Keys : BanLapses(k)
    BY <2>22
       DEF BanLapses, ObservedOnce, ArgumentInv, ExecTypeOK
  <2>23. CASE UNCHANGED execVars
    BY <2>23
       DEF execVars, ObservedOnce, ArgumentInv
  <2>24. QED
    BY <2>1, <2>2, <2>3, <2>4, <2>5, <2>6, <2>7, <2>8, <2>9, <2>10, <2>11, <2>12,
       <2>13, <2>14, <2>15, <2>16, <2>17, <2>18, <2>19, <2>20, <2>21, <2>22, <2>23
       DEF ExecNext, ExecuteStep, Runs, AllReturned
<1>3. QED
  BY <1>1, <1>2, ExecTyping, PTL DEF ExecSpec

\* The limiter blocks at least the keys the exchange has asked to be spared.
BanInv == throttled \subseteq blocked

\* While a ban stands no caller is admitted on a key of it.  The limiter here is the set of
\* the blocked keys; a part of AttemptsAccounted.
THEOREM BansSpare == ExecSpec => BanSpares
<1>1. ExecInit => BanInv
  BY DEF ExecInit, BanInv
<1>2. ASSUME BanInv, [ExecNext]_execVars
      PROVE  BanInv'
  <2> USE <1>2 DEF callVars, netVars, banVars, registryVars, BanInv
  <2>1. CASE \E c \in Callers : Call(c)
    BY <2>1
       DEF Call, Goto
  <2>2. CASE \E c \in Callers : CallInvalid(c)
    BY <2>2
       DEF CallInvalid, Return
  <2>3. CASE \E c \in Callers : WaitGranted(c)
    BY <2>3
       DEF WaitGranted, Goto
  <2>4. CASE \E c \in Callers : WaitRefused(c)
    BY <2>4
       DEF WaitRefused
  <2>5. CASE \E c \in Callers : WaitCanceled(c)
    BY <2>5
       DEF WaitCanceled
  <2>6. CASE \E c \in Callers : Build(c)
    BY <2>6
       DEF Build, Goto
  <2>7. CASE \E c \in Callers : BuildFails(c)
    BY <2>7
       DEF BuildFails
  <2>8. CASE \E c \in Callers : Lookup(c)
    BY <2>8
       DEF Lookup, Goto
  <2>9. CASE \E c \in Callers : LookupFails(c)
    BY <2>9
       DEF LookupFails
  <2>10. CASE \E c \in Callers : Transmit(c)
    BY <2>10
       DEF Transmit, Goto
  <2>11. CASE \E c \in Callers : SendFails(c)
    BY <2>11
       DEF SendFails
  <2>12. CASE \E c \in Callers : SendCanceled(c)
    BY <2>12
       DEF SendCanceled
  <2>13. CASE \E c \in Callers : BodyFails(c)
    BY <2>13
       DEF BodyFails
  <2>14. CASE \E c \in Callers : BodyTooLarge(c)
    BY <2>14
       DEF BodyTooLarge
  <2>15. CASE \E c \in Callers : BodyRead(c)
    BY <2>15
       DEF BodyRead, ApplyRetryAfter
  <2>16. CASE \E c \in Callers : Backoff(c)
    BY <2>16
       DEF Backoff
  <2>17. CASE \E c \in Callers : BackoffCanceled(c)
    BY <2>17
       DEF BackoffCanceled, Return
  <2>18. CASE \E c \in Callers : ContextEnds(c)
    BY <2>18
       DEF ContextEnds
  <2>19. CASE \E c \in Callers, a \in Attempts : ExchangeExecutes(c, a)
    BY <2>19
       DEF ExchangeExecutes
  <2>20. CASE \E c \in Callers, a \in Attempts : ExchangeRefuses(c, a)
    BY <2>20
       DEF ExchangeRefuses
  <2>21. CASE CloseRegistry
    BY <2>21
       DEF CloseRegistry
  <2>22. CASE \E k \in Keys : BanLapses(k)
    BY <2>22
       DEF BanLapses
  <2>23. CASE UNCHANGED execVars
    BY <2>23
       DEF execVars
  <2>24. QED
    BY <2>1, <2>2, <2>3, <2>4, <2>5, <2>6, <2>7, <2>8, <2>9, <2>10, <2>11, <2>12,
       <2>13, <2>14, <2>15, <2>16, <2>17, <2>18, <2>19, <2>20, <2>21, <2>22, <2>23
       DEF ExecNext, ExecuteStep, Runs, AllReturned
<1>3. ASSUME ExecTypeOK, BanInv, [ExecNext]_execVars
      PROVE  [\A c \in Callers :
               pc[c] = "wait" /\ pc'[c] = "build" => Charges[c] \cap throttled = {}]_execVars
  <2> SUFFICES ASSUME NEW c \in Callers, pc[c] = "wait", pc'[c] = "build"
               PROVE  Charges[c] \cap throttled = {}
    BY DEF ExecTypeOK
  <2>1. WaitGranted(c)
    <3> USE <1>3 DEF ExecTypeOK, callVars, netVars, banVars, registryVars
    <3>1. CASE \E d \in Callers : Call(d)
      BY <3>1
         DEF Call, Goto
    <3>2. CASE \E d \in Callers : CallInvalid(d)
      BY <3>2
         DEF CallInvalid, Return
    <3>3. CASE \E d \in Callers : WaitGranted(d)
      BY <3>3
         DEF WaitGranted, Goto
    <3>4. CASE \E d \in Callers : WaitRefused(d)
      BY <3>4
         DEF WaitRefused, EndAttempt, Return, ObserveAttempt
    <3>5. CASE \E d \in Callers : WaitCanceled(d)
      BY <3>5
         DEF WaitCanceled, EndAttempt, Return, ObserveAttempt
    <3>6. CASE \E d \in Callers : Build(d)
      BY <3>6
         DEF Build, Goto
    <3>7. CASE \E d \in Callers : BuildFails(d)
      BY <3>7
         DEF BuildFails, EndAttempt, Return, ObserveAttempt
    <3>8. CASE \E d \in Callers : Lookup(d)
      BY <3>8
         DEF Lookup, Goto
    <3>9. CASE \E d \in Callers : LookupFails(d)
      BY <3>9
         DEF LookupFails, EndAttempt, Return, ObserveAttempt
    <3>10. CASE \E d \in Callers : Transmit(d)
      BY <3>10
         DEF Transmit, Goto
    <3>11. CASE \E d \in Callers : SendFails(d)
      BY <3>11
         DEF SendFails, EndAttempt, Return, ObserveAttempt
    <3>12. CASE \E d \in Callers : SendCanceled(d)
      BY <3>12
         DEF SendCanceled, EndAttempt, Return, ObserveAttempt
    <3>13. CASE \E d \in Callers : BodyFails(d)
      BY <3>13
         DEF BodyFails, EndAttempt, Return, ObserveAttempt
    <3>14. CASE \E d \in Callers : BodyTooLarge(d)
      BY <3>14
         DEF BodyTooLarge, EndAttempt, Return, ObserveAttempt
    <3>15. CASE \E d \in Callers : BodyRead(d)
      BY <3>15
         DEF BodyRead, EndAttempt, Return, ObserveAttempt
    <3>16. CASE \E d \in Callers : Backoff(d)
      BY <3>16
         DEF Backoff
    <3>17. CASE \E d \in Callers : BackoffCanceled(d)
      BY <3>17
         DEF BackoffCanceled, Return
    <3>18. CASE \E d \in Callers : ContextEnds(d)
      BY <3>18
         DEF ContextEnds
    <3>19. CASE \E d \in Callers, a \in Attempts : ExchangeExecutes(d, a)
      BY <3>19
         DEF ExchangeExecutes
    <3>20. CASE \E d \in Callers, a \in Attempts : ExchangeRefuses(d, a)
      BY <3>20
         DEF ExchangeRefuses
    <3>21. CASE CloseRegistry
      BY <3>21
         DEF CloseRegistry
    <3>22. CASE \E k \in Keys : BanLapses(k)
      BY <3>22
         DEF BanLapses
    <3>23. CASE UNCHANGED execVars
      BY <3>23
         DEF execVars
    <3>24. QED
      BY <3>1, <3>2, <3>3, <3>4, <3>5, <3>6, <3>7, <3>8, <3>9, <3>10, <3>11, <3>12,
         <3>13, <3>14, <3>15, <3>16, <3>17, <3>18, <3>19, <3>20, <3>21, <3>22, <3>23
         DEF ExecNext, ExecuteStep, Runs, AllReturned
  <2>2. QED
    BY <1>3, <2>1 DEF WaitGranted, BanInv
<1>4. QED
  BY <1>1, <1>2, <1>3, ExecTyping, PTL DEF ExecSpec, BanSpares

-----------------------------------------------------------------------------
(* The contract. *)

Executed == {p \in applied : p[1] \in Mutations}
Verdict == [c \in Mutations |-> Told(c)]

\* Returning the result of an attempt tells its caller no more than the contract
\* allows.
LEMMA ReturnTells ==
  ASSUME ExecTypeOK, NEW c \in Callers, NEW r, Return(c, r), pc[c] # "returned",
         UNCHANGED netVars, c \in Mutations => Open(r) \/ Unsent(c)
  PROVE  [Contract!ContractNext]_(Contract!contractVars)
<1>1. Executed' = Executed
  BY DEF Executed, netVars
<1>2. \A d \in Mutations : d # c => Told(d)' = Told(d)
  BY ExecutorAssumption DEF Told, Return, ExecTypeOK
<1>3. CASE c \notin Mutations
  <2>1. Verdict' = Verdict
    BY <1>2, <1>3 DEF Verdict
  <2>2. QED
    BY <1>1, <2>1 DEF Contract!contractVars, Executed, Verdict
<1>4. CASE c \in Mutations
  <2>1. Told(c) = "pending" /\ Told(c)' \in {"failed", "unknown", "answered"}
    BY DEF Told, Return, ExecTypeOK
  <2>2. Told(c)' = "failed" => Contract!NeverExecuted(c)
    BY <1>4 DEF Told, Return, ExecTypeOK, Open, Unsent, Contract!NeverExecuted
  <2>3. Verdict' = [Verdict EXCEPT ![c] = Told(c)']
    BY <1>2, <1>4 DEF Verdict
  <2>4. Contract!Tell(c, Told(c)')
    BY <1>1, <1>4, <2>1, <2>2, <2>3 DEF Contract!Tell, Verdict, Executed
  <2>5. QED
    BY <1>4, <2>1, <2>4 DEF Contract!ContractNext
<1>5. QED
  BY <1>3, <1>4

\* An attempt that ends either backs off, which its caller does not see, or returns.
LEMMA EndTells ==
  ASSUME ExecTypeOK, NEW c \in Callers, NEW retry, NEW r, EndAttempt(c, retry, r),
         pc[c] # "returned", UNCHANGED netVars, c \in Mutations => Open(r) \/ Unsent(c)
  PROVE  [Contract!ContractNext]_(Contract!contractVars)
<1>1. CASE Return(c, r)
  BY <1>1, ReturnTells
<1>2. CASE pc' = [pc EXCEPT ![c] = "backoff"] /\ UNCHANGED result
  <2>1. Executed' = Executed
    BY DEF Executed, netVars
  <2>2. \A d \in Mutations : Told(d)' = Told(d)
    BY <1>2, ExecutorAssumption DEF Told, ExecTypeOK
  <2>3. Verdict' = Verdict
    BY <2>2 DEF Verdict
  <2>4. QED
    BY <2>1, <2>3 DEF Contract!contractVars, Executed, Verdict
<1>3. QED
  BY <1>1, <1>2 DEF EndAttempt

\* Steps that neither return from a call nor execute a request.
LEMMA Silent ==
  ASSUME ExecTypeOK, UNCHANGED <<applied, result>>,
         \A d \in Callers : (pc'[d] = "returned") = (pc[d] = "returned")
  PROVE  UNCHANGED Contract!contractVars
<1>1. Executed' = Executed
  BY DEF Executed
<1>2. \A d \in Mutations : Told(d)' = Told(d)
  BY ExecutorAssumption DEF Told
<1>3. Verdict' = Verdict
  BY <1>2 DEF Verdict
<1>4. QED
  BY <1>1, <1>3 DEF Contract!contractVars, Executed, Verdict

LEMMA ExecutionAllowed ==
  ASSUME ExecTypeOK, SentInv, NEW c \in Callers, NEW a \in Attempts, ExchangeExecutes(c, a)
  PROVE  [Contract!ContractNext]_(Contract!contractVars)
<1>1. \A d \in Mutations : Told(d)' = Told(d)
  BY ExecutorAssumption DEF ExchangeExecutes, Awaited, Told, ExecTypeOK
<1>2. Verdict' = Verdict
  BY <1>1 DEF Verdict
<1>3. CASE c \notin Mutations
  <2>1. Executed' = Executed
    BY <1>3 DEF Executed, ExchangeExecutes
  <2>2. QED
    BY <1>2, <2>1 DEF Contract!contractVars, Executed, Verdict
<1>4. CASE c \in Mutations
  <2>1. Executed' = Executed \cup {<<c, a>>}
    BY <1>4 DEF Executed, ExchangeExecutes
  <2>2. Contract!NeverExecuted(c)
    BY <1>4 DEF SentInv, ExchangeExecutes, Contract!NeverExecuted
  <2>3. Told(c) # "failed"
    BY <1>4 DEF SentInv, Unsent, Open, Told, ExchangeExecutes, ExecTypeOK
  <2>4. Contract!ExchangeExecutes(c, a)
    BY <1>2, <1>4, <2>1, <2>2, <2>3 DEF Contract!ExchangeExecutes, Executed, Verdict
  <2>5. QED
    BY <1>4, <2>4 DEF Contract!ContractNext
<1>5. QED
  BY <1>3, <1>4

\* The pipeline implements ExecutionContract: a mutation is executed at most once
\* and a definite failure is final.
THEOREM PipelineContract == ExecSpec => ImplementsContract
<1>1. ExecInit => SentInv
  BY ExecutorAssumption DEF ExecInit, SentInv, Unsent
<1>2. ExecTypeOK /\ SentInv /\ [ExecNext]_execVars => SentInv'
  BY SentStep
<1>3. ExecInit => Contract!ContractInit
  BY ExecutorAssumption DEF ExecInit, Contract!ContractInit, Told
<1>4. ASSUME ExecTypeOK, SentInv, [ExecNext]_execVars
      PROVE  [Contract!ContractNext]_(Contract!contractVars)
  <2> USE <1>4 DEF callVars, netVars, banVars, registryVars
  <2>a. \A c \in Mutations : Open(ResponseError(c)) /\ \A cause : cause # "route" => Open(TransportError(c, cause))
    BY DEF Open, ResponseError, TransportError, Failure
  <2>b. \A s : Open([err |-> "none", status |-> s, retryable |-> FALSE])
    BY DEF Open
  <2>1. CASE \E c \in Callers : Call(c)
    BY <2>1, Silent
       DEF Call, Goto, ExecTypeOK
  <2>2. CASE \E c \in Callers : CallInvalid(c)
    BY <2>2, ReturnTells
       DEF CallInvalid, SentInv
  <2>3. CASE \E c \in Callers : WaitGranted(c)
    BY <2>3, Silent
       DEF WaitGranted, Goto, ExecTypeOK
  <2>4. CASE \E c \in Callers : WaitRefused(c)
    BY <2>4, <2>a, <2>b, EndTells
       DEF WaitRefused, SentInv
  <2>5. CASE \E c \in Callers : WaitCanceled(c)
    BY <2>5, <2>a, <2>b, EndTells
       DEF WaitCanceled, SentInv
  <2>6. CASE \E c \in Callers : Build(c)
    BY <2>6, Silent
       DEF Build, Goto, ExecTypeOK
  <2>7. CASE \E c \in Callers : BuildFails(c)
    BY <2>7, <2>a, <2>b, EndTells
       DEF BuildFails, SentInv
  <2>8. CASE \E c \in Callers : Lookup(c)
    BY <2>8, Silent
       DEF Lookup, Goto, ExecTypeOK
  <2>9. CASE \E c \in Callers : LookupFails(c)
    BY <2>9, <2>a, <2>b, EndTells
       DEF LookupFails, SentInv
  <2>10. CASE \E c \in Callers : Transmit(c)
    BY <2>10, Silent
       DEF Transmit, Goto, ExecTypeOK
  <2>11. CASE \E c \in Callers : SendFails(c)
    BY <2>11, <2>a, <2>b, EndTells
       DEF SendFails, SentInv
  <2>12. CASE \E c \in Callers : SendCanceled(c)
    BY <2>12, <2>a, <2>b, EndTells
       DEF SendCanceled, SentInv
  <2>13. CASE \E c \in Callers : BodyFails(c)
    BY <2>13, <2>a, <2>b, EndTells
       DEF BodyFails, SentInv
  <2>14. CASE \E c \in Callers : BodyTooLarge(c)
    BY <2>14, <2>a, <2>b, EndTells
       DEF BodyTooLarge, SentInv
  <2>15. CASE \E c \in Callers : BodyRead(c)
    BY <2>15, <2>a, <2>b, EndTells
       DEF BodyRead, SentInv
  <2>16. CASE \E c \in Callers : Backoff(c)
    BY <2>16, Silent
       DEF Backoff, ExecTypeOK
  <2>17. CASE \E c \in Callers : BackoffCanceled(c)
    BY <2>17, ReturnTells
       DEF BackoffCanceled, SentInv
  <2>18. CASE \E c \in Callers : ContextEnds(c)
    BY <2>18, Silent
       DEF ContextEnds, ExecTypeOK
  <2>19. CASE \E c \in Callers, a \in Attempts : ExchangeExecutes(c, a)
    BY <2>19, ExecutionAllowed
       DEF ExchangeExecutes
  <2>20. CASE \E c \in Callers, a \in Attempts : ExchangeRefuses(c, a)
    BY <2>20, Silent
       DEF ExchangeRefuses, Awaited, ExecTypeOK
  <2>21. CASE CloseRegistry
    BY <2>21, Silent
       DEF CloseRegistry, ExecTypeOK
  <2>22. CASE \E k \in Keys : BanLapses(k)
    BY <2>22, Silent
       DEF BanLapses, ExecTypeOK
  <2>23. CASE UNCHANGED execVars
    BY <2>23, Silent
       DEF execVars
  <2>24. QED
    BY <2>1, <2>2, <2>3, <2>4, <2>5, <2>6, <2>7, <2>8, <2>9, <2>10, <2>11, <2>12,
       <2>13, <2>14, <2>15, <2>16, <2>17, <2>18, <2>19, <2>20, <2>21, <2>22, <2>23
       DEF ExecNext, ExecuteStep, Runs, AllReturned
<1>5. QED
  BY <1>1, <1>2, <1>3, <1>4, ExecTyping, PTL DEF ExecSpec, ImplementsContract, Contract!ContractSpec

\* A mutation is executed at most once, and its definite failures are final, for any
\* set of concurrent calls over a network that loses and delays.
THEOREM MutationsSafe == ExecSpec => []MutationsAreSafe
<1>1. ExecTypeOK /\ AtMostOnce /\ FailureIsFinal => MutationsAreSafe
  BY DEF MutationsAreSafe
<1>2. QED
  BY <1>1, ExecTyping, OnceOnly, FailureFinal, PTL

\* Every attempt is reported once, none begun after Registry.Close is sent, and none
\* is admitted under a ban on one of its keys.
THEOREM AttemptsAccounted == ExecSpec => AttemptsAreAccounted
  BY CloseRefuses, AttemptsObserved, BansSpare, PTL DEF AttemptsAreAccounted

-----------------------------------------------------------------------------
(* What an answer holds, and what each adapter makes of it. *)

Rows == [name : STRING \cup {NoName}, sound : BOOLEAN, price : BOOLEAN, bids : Nat, asks : Nat, rows : Nat]
ReadResults ==
  [ok : BOOLEAN, label : STRING \cup {NoName}, of : STRING \cup {NoName}, price : BOOLEAN, bids : Nat, asks : Nat, rows : Nat]

\* The answers made of entry x of the market asked for and entry y of another one.
AnswersFrom(x, y) ==
  {<<x>>, <<>>, <<x, x>>, <<y>>, <<x, y>>, <<[x EXCEPT !.sound = FALSE]>>}

\* A well-formed answer: entries, of which those of the market asked for are x but for
\* their soundness.
Formed(a, x) ==
  /\ a \in Seq(Rows)
  /\ \A i \in 1..Len(a) : a[i].name # NoName
  /\ \A i \in 1..Len(a) :
       a[i].name = Asked => /\ a[i].price = x.price /\ a[i].bids = x.bids
                            /\ a[i].asks = x.asks /\ a[i].rows = x.rows

\* Every answer about entry x is a well-formed one about x.
LEMMA AnswersFormed ==
  ASSUME NEW x \in Rows, NEW y \in Rows, x.name = Asked, y.name \notin {Asked, NoName},
         NEW a \in AnswersFrom(x, y)
  PROVE  Formed(a, x)
<1>0. Asked # NoName
  BY ReadsAssumption
<1> DEFINE z == [x EXCEPT !.sound = FALSE]
<1>1. z \in Rows /\ z.name = Asked /\ z.price = x.price /\ z.bids = x.bids /\ z.asks = x.asks /\ z.rows = x.rows
  BY DEF Rows
<1>2. a \in {<<x>>, <<>>, <<x, x>>, <<y>>, <<x, y>>, <<z>>}
  BY DEF AnswersFrom
<1> HIDE DEF z
<1>3. CASE a = <<x>>
  BY <1>0, <1>3 DEF Formed
<1>4. CASE a = <<>>
  BY <1>0, <1>4 DEF Formed
<1>5. CASE a = <<x, x>>
  BY <1>0, <1>5 DEF Formed
<1>6. CASE a = <<y>>
  BY <1>0, <1>6 DEF Formed
<1>7. CASE a = <<x, y>>
  BY <1>0, <1>7 DEF Formed
<1>8. CASE a = <<z>>
  BY <1>0, <1>1, <1>8 DEF Formed
<1>9. QED
  BY <1>2, <1>3, <1>4, <1>5, <1>6, <1>7, <1>8

\* The name asked for is a name, the other market's is another one, and an empty object
\* has neither a name nor contents.
LEMMA NamesDiffer ==
  /\ Asked \in STRING /\ Asked # NoName /\ Other \in STRING /\ Other # Asked
  /\ Blank \in Rows /\ Blank.name = NoName /\ Blank.price = FALSE
  /\ Blank.bids = 0 /\ Blank.asks = 0 /\ Blank.rows = 0
<1>1. /\ Blank \in Rows /\ Blank.name = NoName /\ Blank.price = FALSE
      /\ Blank.bids = 0 /\ Blank.asks = 0 /\ Blank.rows = 0
  BY DEF Blank, Rows
<1>3. QED
  BY <1>1, ReadsAssumption, RunsAssumption

\* The first entry, or the zero value of an empty answer.
LEMMA ObjectFacts ==
  ASSUME NEW a \in Seq(Rows)
  PROVE  /\ Object(a) \in Rows
         /\ Object(a) = Blank \/ (1 \in DOMAIN a /\ Object(a) = a[1])
<1>1. CASE a = <<>>
  BY <1>1, NamesDiffer DEF Object
<1>2. CASE a # <<>>
  <2>1. 1 \in DOMAIN a /\ a[1] \in Rows
    BY <1>2
  <2>2. QED
    BY <1>2, <2>1 DEF Object
<1>3. QED
  BY <1>1, <1>2

\* The first entry of the market asked for is an entry of the answer, of that market.
LEMMA FirstNamedFacts ==
  ASSUME NEW a \in Seq(Rows), Named(a) # {}
  PROVE  \E i \in DOMAIN a : FirstNamed(a) = a[i] /\ a[i].name = Asked
<1>1. Named(a) \subseteq Nat
  BY DEF Named
<1>2. \E i \in Named(a) : \A j \in Named(a) : i <= j
  BY <1>1, LeastNumber
<1> DEFINE i == CHOOSE i \in Named(a) : \A j \in Named(a) : i <= j
<1>3. i \in Named(a)
  BY <1>2
<1>4. FirstNamed(a) = a[i]
  BY DEF FirstNamed
<1> HIDE DEF i
<1>5. QED
  BY <1>3, <1>4 DEF Named

\* A result is refused, or made of an entry e of the answer, or of its zero value, and
\* carries the name of e or the one asked for.
MadeOf(r, a, own) ==
  \/ r = Refused
  \/ \E e \in Rows, label \in STRING \cup {NoName} :
       /\ r = Priced(e, label)
       /\ e = Blank \/ \E i \in DOMAIN a : e = a[i]
       /\ own => label = e.name

\* A ticker read from an entry of the answer, under that entry's own name or another one.
LEMMA MadeOfEntry ==
  ASSUME NEW a \in Seq(Rows), NEW i \in DOMAIN a, NEW label \in STRING \cup {NoName}, NEW own,
         own => label = a[i].name
  PROVE  MadeOf(Priced(a[i], label), a, own)
<1>1. a[i] \in Rows
  OBVIOUS
<1>2. QED
  BY <1>1 DEF MadeOf

\* A ticker read from the object of the answer, which stands for the first entry or is
\* empty.
LEMMA MadeOfObject ==
  ASSUME NEW a \in Seq(Rows), NEW label \in STRING \cup {NoName}, NEW own, own => label = Object(a).name
  PROVE  MadeOf(Priced(Object(a), label), a, own)
  BY ObjectFacts DEF MadeOf

\* The names in an answer are names, or there is none.
LEMMA EntryNames ==
  ASSUME NEW a \in Seq(Rows)
  PROVE  Object(a).name \in STRING \cup {NoName} /\ \A i \in DOMAIN a : a[i].name \in STRING \cup {NoName}
<1>1. \A e \in Rows : e.name \in STRING \cup {NoName}
  BY DEF Rows
<1>2. QED
  BY <1>1, ObjectFacts

\* Every ticker that carries a name is made of the entry that it names, where the
\* answers carry names.
LEMMA TickersAreOwn ==
  ASSUME venue \in AllVenues, NEW a \in Seq(Rows), Serves("ticker", a),
         \A i \in 1..Len(a) : a[i].name # NoName
  PROVE  MadeOf(TickerOf(a), a, venue \notin Unnamed("ticker"))
<1> DEFINE own == venue \notin Unnamed("ticker")
           first == IF Len(a) = 1 THEN Priced(a[1], a[1].name) ELSE Refused
<1>0. Asked \in STRING \cup {NoName}
  BY NamesDiffer
<1>1. MadeOf(first, a, own) /\ MadeOf(Refused, a, own)
  <2>1. Len(a) = 1 => 1 \in DOMAIN a
    OBVIOUS
  <2>2. CASE Len(a) = 1
    <3>1. MadeOf(Priced(a[1], a[1].name), a, own)
      BY <2>1, <2>2, EntryNames, MadeOfEntry
    <3>2. QED
      BY <2>2, <3>1 DEF MadeOf
  <2>3. CASE Len(a) # 1
    BY <2>3 DEF MadeOf
  <2>4. QED
    BY <2>2, <2>3
<1>2. MadeOf(Priced(Object(a), Object(a).name), a, own)
  BY EntryNames, MadeOfObject
<1> HIDE DEF first, own
<1>3. CASE venue = "okx"
  <2>1. TickerOf(a) = OkxTicker(a)
    BY <1>3 DEF TickerOf
  <2>2. CASE \E i \in DOMAIN a : Named(a) = {i}
    <3>1. PICK i \in DOMAIN a : FirstNamed(a) = a[i]
      BY <2>2, FirstNamedFacts
    <3>2. MadeOf(Priced(a[i], a[i].name), a, own)
      BY EntryNames, MadeOfEntry
    <3>3. QED
      BY <2>1, <2>2, <3>1, <3>2 DEF OkxTicker, own
  <2>3. CASE ~ \E i \in DOMAIN a : Named(a) = {i}
    BY <1>1, <2>1, <2>3 DEF OkxTicker, own
  <2>4. QED
    BY <2>2, <2>3
<1>4. CASE venue \in {"bybit", "bitget", "kraken", "korbit", "bithumb", "upbit"}
  <2>1. TickerOf(a) = first
    BY <1>4 DEF TickerOf, BybitTicker, BitgetTicker, KrakenTicker, KorbitTicker, BithumbTicker,
       UpbitTicker, first
  <2>2. QED
    BY <1>1, <2>1 DEF own
<1>5. CASE venue \in {"binance", "coinbase", "coinone"}
  <2>1. TickerOf(a) = Priced(Object(a), Object(a).name)
    BY <1>5 DEF TickerOf, BinanceTicker, CoinbaseTicker, CoinoneTicker
  <2>2. QED
    BY <1>2, <2>1 DEF own
<1>6. CASE venue = "gateio"
  <2>1. TickerOf(a) = GateioTicker(a) /\ Serves("ticker", a) = GateioServes("ticker", a)
    BY <1>6 DEF TickerOf, Serves
  <2>2. Len(a) = 1
    BY <2>1 DEF GateioServes
  <2>3. CASE Object(a).name = Asked
    <3>1. TickerOf(a) = Priced(Object(a), Asked)
      BY <2>1, <2>3 DEF GateioTicker
    <3>2. QED
      BY <1>0, <2>3, <3>1, MadeOfObject DEF own
  <2>4. CASE Object(a).name # Asked /\ Object(a).name # NoName
    BY <1>1, <2>1, <2>4 DEF GateioTicker, own
  <2>5. CASE Object(a).name = NoName
    <3>1. a # <<>>
      <4>1. Len(<<>>) # 1
        OBVIOUS
      <4>2. QED
        BY <2>2, <4>1, Zenon
    <3>2. 1 \in 1..Len(a)
      BY <2>2
    <3>3. QED
      BY <2>5, <3>1, <3>2 DEF Object
  <2>6. QED
    BY <2>3, <2>4, <2>5
<1>7. CASE venue \in {"kucoin", "htx"}
  <2>1. TickerOf(a) = Priced(Object(a), Asked)
    BY <1>7 DEF TickerOf, KucoinTicker, HtxTicker
  <2>2. ~own
    BY <1>7 DEF own, Unnamed
  <2>3. QED
    BY <1>0, <2>1, <2>2, MadeOfObject DEF own
<1>8. CASE venue = "mexc"
  <2>1. TickerOf(a) = MexcTicker(a)
    BY <1>8 DEF TickerOf
  <2>2. CASE Object(a).name = Asked
    <3>1. TickerOf(a) = Priced(Object(a), Asked)
      BY <2>1, <2>2 DEF MexcTicker
    <3>2. QED
      BY <1>0, <2>2, <3>1, MadeOfObject DEF own
  <2>3. CASE Object(a).name # Asked
    BY <1>1, <2>1, <2>3 DEF MexcTicker, own
  <2>4. QED
    BY <2>2, <2>3
<1>9. CASE venue = "cryptocom"
  <2>1. TickerOf(a) = CryptocomTicker(a)
    BY <1>9 DEF TickerOf
  <2>2. CASE Named(a) # {}
    <3>1. PICK i \in DOMAIN a : FirstNamed(a) = a[i] /\ a[i].name = Asked
      BY <2>2, FirstNamedFacts
    <3>2. MadeOf(Priced(a[i], Asked), a, own)
      BY <1>0, <3>1, MadeOfEntry
    <3>3. QED
      BY <2>1, <2>2, <3>1, <3>2 DEF CryptocomTicker, own
  <2>3. CASE Named(a) = {}
    BY <1>1, <2>1, <2>3 DEF CryptocomTicker, own
  <2>4. QED
    BY <2>2, <2>3
<1>10. \/ venue = "okx" \/ venue \in {"bybit", "bitget", "kraken", "korbit", "bithumb", "upbit"}
       \/ venue \in {"binance", "coinbase", "coinone"} \/ venue = "gateio"
       \/ venue \in {"kucoin", "htx"} \/ venue = "mexc" \/ venue = "cryptocom"
  BY DEF AllVenues
<1>11. QED
  BY <1>3, <1>4, <1>5, <1>6, <1>7, <1>8, <1>9, <1>10

-----------------------------------------------------------------------------
(* What is asked of an exchange is let through, and yields what the reader asked for. *)

\* A count asked for and cut is the count that the reader asked for.
Exact(limit, ask, keep, most) ==
  (0 < limit /\ limit <= most) => \A n \in Nat : Kept(Sent(ask, n), keep) = Least(limit, n)

BookFits(p, accepts, limit) ==
  /\ p.ask \in Nat /\ p.keep \in Nat \cup {Every}
  /\ limit <= 16 => p.ask \in accepts["book"]
  /\ Exact(limit, p.ask, p.keep, 16)

\* Each adapter's request for a book brings exactly what was asked, if its client accepts
\* it.
LEMMA BooksFit ==
  ASSUME venue \in AllVenues, NEW limit \in Nat
  PROVE  BookFits(BookPlan(limit), Accepts, limit)
<1>0. Unasked \in Nat /\ Unasked >= 100 /\ Every = -1
  BY RunsAssumption DEF Every
<1>1. CASE venue = "okx"
  <2>1. BookPlan(limit) = OkxBook(limit) /\ Accepts = OkxAccepts
    BY <1>1 DEF BookPlan, Accepts
  <2>2. BookFits(OkxBook(limit), OkxAccepts, limit)
    BY <1>0 DEF BookFits, Exact, OkxBook, OkxAccepts, BookRequest, Kept, Sent, Least, OrElse
  <2>3. QED
    BY <2>1, <2>2
<1>2. CASE venue = "bybit"
  <2>1. BookPlan(limit) = BybitBook(limit) /\ Accepts = BybitAccepts
    BY <1>2 DEF BookPlan, Accepts
  <2>2. BookFits(BybitBook(limit), BybitAccepts, limit)
    BY <1>0 DEF BookFits, Exact, BybitBook, BybitAccepts, BookRequest, Kept, Sent, Least, OrElse
  <2>3. QED
    BY <2>1, <2>2
<1>3. CASE venue = "bitget"
  <2>1. BookPlan(limit) = BitgetBook(limit) /\ Accepts = BitgetAccepts
    BY <1>3 DEF BookPlan, Accepts
  <2>2. BookFits(BitgetBook(limit), BitgetAccepts, limit)
    BY <1>0 DEF BookFits, Exact, BitgetBook, BitgetAccepts, BookRequest, Kept, Sent, Least, OrElse
  <2>3. QED
    BY <2>1, <2>2
<1>4. CASE venue = "binance"
  <2>1. BookPlan(limit) = BinanceBook(limit) /\ Accepts = BinanceAccepts
    BY <1>4 DEF BookPlan, Accepts
  <2>2. BookFits(BinanceBook(limit), BinanceAccepts, limit)
    BY <1>0 DEF BookFits, Exact, BinanceBook, BinanceAccepts, BookRequest, Kept, Sent, Least, OrElse
  <2>3. QED
    BY <2>1, <2>2
<1>5. CASE venue = "coinbase"
  <2>1. BookPlan(limit) = CoinbaseBook(limit) /\ Accepts = CoinbaseAccepts
    BY <1>5 DEF BookPlan, Accepts
  <2>2. BookFits(CoinbaseBook(limit), CoinbaseAccepts, limit)
    BY <1>0 DEF BookFits, Exact, CoinbaseBook, CoinbaseAccepts, BookRequest, Kept, Sent, Least, OrElse
  <2>3. QED
    BY <2>1, <2>2
<1>6. CASE venue = "kraken"
  <2>1. BookPlan(limit) = KrakenBook(limit) /\ Accepts = KrakenAccepts
    BY <1>6 DEF BookPlan, Accepts
  <2>2. BookFits(KrakenBook(limit), KrakenAccepts, limit)
    BY <1>0 DEF BookFits, Exact, KrakenBook, KrakenAccepts, BookRequest, Kept, Sent, Least, OrElse
  <2>3. QED
    BY <2>1, <2>2
<1>7. CASE venue = "gateio"
  <2>1. BookPlan(limit) = GateioBook(limit) /\ Accepts = GateioAccepts
    BY <1>7 DEF BookPlan, Accepts
  <2>2. BookFits(GateioBook(limit), GateioAccepts, limit)
    BY <1>0 DEF BookFits, Exact, GateioBook, GateioAccepts, BookRequest, Kept, Sent, Least, OrElse
  <2>3. QED
    BY <2>1, <2>2
<1>8. CASE venue = "kucoin"
  <2>1. BookPlan(limit) = KucoinBook(limit) /\ Accepts = KucoinAccepts
    BY <1>8 DEF BookPlan, Accepts
  <2>2. BookFits(KucoinBook(limit), KucoinAccepts, limit)
    BY <1>0 DEF BookFits, Exact, KucoinBook, KucoinAccepts, BookRequest, Kept, Sent, Least, OrElse
  <2>3. QED
    BY <2>1, <2>2
<1>9. CASE venue = "htx"
  <2>1. BookPlan(limit) = HtxBook(limit) /\ Accepts = HtxAccepts
    BY <1>9 DEF BookPlan, Accepts
  <2>2. BookFits(HtxBook(limit), HtxAccepts, limit)
    BY <1>0 DEF BookFits, Exact, HtxBook, HtxAccepts, BookRequest, Kept, Sent, Least, OrElse
  <2>3. QED
    BY <2>1, <2>2
<1>10. CASE venue = "mexc"
  <2>1. BookPlan(limit) = MexcBook(limit) /\ Accepts = MexcAccepts
    BY <1>10 DEF BookPlan, Accepts
  <2>2. BookFits(MexcBook(limit), MexcAccepts, limit)
    BY <1>0 DEF BookFits, Exact, MexcBook, MexcAccepts, BookRequest, Kept, Sent, Least, OrElse
  <2>3. QED
    BY <2>1, <2>2
<1>11. CASE venue = "cryptocom"
  <2>1. BookPlan(limit) = CryptocomBook(limit) /\ Accepts = CryptocomAccepts
    BY <1>11 DEF BookPlan, Accepts
  <2>2. BookFits(CryptocomBook(limit), CryptocomAccepts, limit)
    BY <1>0 DEF BookFits, Exact, CryptocomBook, CryptocomAccepts, BookRequest, Kept, Sent, Least, OrElse
  <2>3. QED
    BY <2>1, <2>2
<1>12. CASE venue = "korbit"
  <2>1. BookPlan(limit) = KorbitBook(limit) /\ Accepts = KorbitAccepts
    BY <1>12 DEF BookPlan, Accepts
  <2>2. BookFits(KorbitBook(limit), KorbitAccepts, limit)
    BY <1>0 DEF BookFits, Exact, KorbitBook, KorbitAccepts, BookRequest, Kept, Sent, Least, OrElse
  <2>3. QED
    BY <2>1, <2>2
<1>13. CASE venue = "coinone"
  <2>1. BookPlan(limit) = CoinoneBook(limit) /\ Accepts = CoinoneAccepts
    BY <1>13 DEF BookPlan, Accepts
  <2>2. BookFits(CoinoneBook(limit), CoinoneAccepts, limit)
    BY <1>0 DEF BookFits, Exact, CoinoneBook, CoinoneAccepts, BookRequest, Kept, Sent, Least, OrElse
  <2>3. QED
    BY <2>1, <2>2
<1>14. CASE venue = "bithumb"
  <2>1. BookPlan(limit) = BithumbBook(limit) /\ Accepts = BithumbAccepts
    BY <1>14 DEF BookPlan, Accepts
  <2>2. BookFits(BithumbBook(limit), BithumbAccepts, limit)
    BY <1>0 DEF BookFits, Exact, BithumbBook, BithumbAccepts, BookRequest, Kept, Sent, Least, OrElse
  <2>3. QED
    BY <2>1, <2>2
<1>15. CASE venue = "upbit"
  <2>1. BookPlan(limit) = UpbitBook(limit) /\ Accepts = UpbitAccepts
    BY <1>15 DEF BookPlan, Accepts
  <2>2. BookFits(UpbitBook(limit), UpbitAccepts, limit)
    BY <1>0 DEF BookFits, Exact, UpbitBook, UpbitAccepts, BookRequest, Kept, Sent, Least, OrElse
  <2>3. QED
    BY <2>1, <2>2
<1>16. QED
  BY <1>1, <1>2, <1>3, <1>4, <1>5, <1>6, <1>7, <1>8, <1>9, <1>10, <1>11, <1>12, <1>13, <1>14, <1>15 DEF AllVenues

TradesFit(p, accepts, limit) ==
  /\ p.ask \in Nat /\ p.keep \in Nat \cup {Every}
  /\ limit <= 100 => p.ask \in accepts["trades"]
  /\ venue # "htx" => Exact(limit, p.ask, p.keep, 100)
  /\ (venue = "htx" /\ 0 < limit /\ limit <= 100) =>
       \A n \in Nat : Kept(Least(n, 2 * Sent(p.ask, n)), p.keep) = Least(limit, n)

\* Each adapter's request for trades brings exactly what was asked, if its client accepts
\* it.
LEMMA TradesAllFit ==
  ASSUME venue \in AllVenues, NEW limit \in Nat
  PROVE  TradesFit(TradesPlan(limit), Accepts, limit)
<1>0. Unasked \in Nat /\ Unasked >= 100 /\ Every = -1
  BY RunsAssumption DEF Every
<1>1. CASE venue = "okx"
  <2>1. TradesPlan(limit) = OkxTrades(limit) /\ Accepts = OkxAccepts
    BY <1>1 DEF TradesPlan, Accepts
  <2>2. TradesFit(OkxTrades(limit), OkxAccepts, limit)
    BY <1>0, <1>1 DEF TradesFit, Exact, OkxTrades, OkxAccepts, TradesRequest, Kept, Sent, Least, OrElse
  <2>3. QED
    BY <2>1, <2>2
<1>2. CASE venue = "bybit"
  <2>1. TradesPlan(limit) = BybitTrades(limit) /\ Accepts = BybitAccepts
    BY <1>2 DEF TradesPlan, Accepts
  <2>2. TradesFit(BybitTrades(limit), BybitAccepts, limit)
    BY <1>0, <1>2 DEF TradesFit, Exact, BybitTrades, BybitAccepts, TradesRequest, Kept, Sent, Least, OrElse
  <2>3. QED
    BY <2>1, <2>2
<1>3. CASE venue = "bitget"
  <2>1. TradesPlan(limit) = BitgetTrades(limit) /\ Accepts = BitgetAccepts
    BY <1>3 DEF TradesPlan, Accepts
  <2>2. TradesFit(BitgetTrades(limit), BitgetAccepts, limit)
    BY <1>0, <1>3 DEF TradesFit, Exact, BitgetTrades, BitgetAccepts, TradesRequest, Kept, Sent, Least, OrElse
  <2>3. QED
    BY <2>1, <2>2
<1>4. CASE venue = "binance"
  <2>1. TradesPlan(limit) = BinanceTrades(limit) /\ Accepts = BinanceAccepts
    BY <1>4 DEF TradesPlan, Accepts
  <2>2. TradesFit(BinanceTrades(limit), BinanceAccepts, limit)
    BY <1>0, <1>4 DEF TradesFit, Exact, BinanceTrades, BinanceAccepts, TradesRequest, Kept, Sent, Least, OrElse
  <2>3. QED
    BY <2>1, <2>2
<1>5. CASE venue = "coinbase"
  <2>1. TradesPlan(limit) = CoinbaseTrades(limit) /\ Accepts = CoinbaseAccepts
    BY <1>5 DEF TradesPlan, Accepts
  <2>2. TradesFit(CoinbaseTrades(limit), CoinbaseAccepts, limit)
    BY <1>0, <1>5 DEF TradesFit, Exact, CoinbaseTrades, CoinbaseAccepts, TradesRequest, Kept, Sent, Least, OrElse
  <2>3. QED
    BY <2>1, <2>2
<1>6. CASE venue = "kraken"
  <2>1. TradesPlan(limit) = KrakenTrades(limit) /\ Accepts = KrakenAccepts
    BY <1>6 DEF TradesPlan, Accepts
  <2>2. TradesFit(KrakenTrades(limit), KrakenAccepts, limit)
    BY <1>0, <1>6 DEF TradesFit, Exact, KrakenTrades, KrakenAccepts, TradesRequest, Kept, Sent, Least, OrElse
  <2>3. QED
    BY <2>1, <2>2
<1>7. CASE venue = "gateio"
  <2>1. TradesPlan(limit) = GateioTrades(limit) /\ Accepts = GateioAccepts
    BY <1>7 DEF TradesPlan, Accepts
  <2>2. TradesFit(GateioTrades(limit), GateioAccepts, limit)
    BY <1>0, <1>7 DEF TradesFit, Exact, GateioTrades, GateioAccepts, TradesRequest, Kept, Sent, Least, OrElse
  <2>3. QED
    BY <2>1, <2>2
<1>8. CASE venue = "kucoin"
  <2>1. TradesPlan(limit) = KucoinTrades(limit) /\ Accepts = KucoinAccepts
    BY <1>8 DEF TradesPlan, Accepts
  <2>2. TradesFit(KucoinTrades(limit), KucoinAccepts, limit)
    BY <1>0, <1>8 DEF TradesFit, Exact, KucoinTrades, KucoinAccepts, TradesRequest, Kept, Sent, Least, OrElse
  <2>3. QED
    BY <2>1, <2>2
<1>9. CASE venue = "htx"
  <2>1. TradesPlan(limit) = HtxTrades(limit) /\ Accepts = HtxAccepts
    BY <1>9 DEF TradesPlan, Accepts
  <2>2. TradesFit(HtxTrades(limit), HtxAccepts, limit)
    BY <1>0, <1>9 DEF TradesFit, Exact, HtxTrades, HtxAccepts, TradesRequest, Kept, Sent, Least, OrElse
  <2>3. QED
    BY <2>1, <2>2
<1>10. CASE venue = "mexc"
  <2>1. TradesPlan(limit) = MexcTrades(limit) /\ Accepts = MexcAccepts
    BY <1>10 DEF TradesPlan, Accepts
  <2>2. TradesFit(MexcTrades(limit), MexcAccepts, limit)
    BY <1>0, <1>10 DEF TradesFit, Exact, MexcTrades, MexcAccepts, TradesRequest, Kept, Sent, Least, OrElse
  <2>3. QED
    BY <2>1, <2>2
<1>11. CASE venue = "cryptocom"
  <2>1. TradesPlan(limit) = CryptocomTrades(limit) /\ Accepts = CryptocomAccepts
    BY <1>11 DEF TradesPlan, Accepts
  <2>2. TradesFit(CryptocomTrades(limit), CryptocomAccepts, limit)
    BY <1>0, <1>11 DEF TradesFit, Exact, CryptocomTrades, CryptocomAccepts, TradesRequest, Kept, Sent, Least, OrElse
  <2>3. QED
    BY <2>1, <2>2
<1>12. CASE venue = "korbit"
  <2>1. TradesPlan(limit) = KorbitTrades(limit) /\ Accepts = KorbitAccepts
    BY <1>12 DEF TradesPlan, Accepts
  <2>2. TradesFit(KorbitTrades(limit), KorbitAccepts, limit)
    BY <1>0, <1>12 DEF TradesFit, Exact, KorbitTrades, KorbitAccepts, TradesRequest, Kept, Sent, Least, OrElse
  <2>3. QED
    BY <2>1, <2>2
<1>13. CASE venue = "coinone"
  <2>1. TradesPlan(limit) = CoinoneTrades(limit) /\ Accepts = CoinoneAccepts
    BY <1>13 DEF TradesPlan, Accepts
  <2>2. TradesFit(CoinoneTrades(limit), CoinoneAccepts, limit)
    BY <1>0, <1>13 DEF TradesFit, Exact, CoinoneTrades, CoinoneAccepts, TradesRequest, Kept, Sent, Least, OrElse
  <2>3. QED
    BY <2>1, <2>2
<1>14. CASE venue = "bithumb"
  <2>1. TradesPlan(limit) = BithumbTrades(limit) /\ Accepts = BithumbAccepts
    BY <1>14 DEF TradesPlan, Accepts
  <2>2. TradesFit(BithumbTrades(limit), BithumbAccepts, limit)
    BY <1>0, <1>14 DEF TradesFit, Exact, BithumbTrades, BithumbAccepts, TradesRequest, Kept, Sent, Least, OrElse
  <2>3. QED
    BY <2>1, <2>2
<1>15. CASE venue = "upbit"
  <2>1. TradesPlan(limit) = UpbitTrades(limit) /\ Accepts = UpbitAccepts
    BY <1>15 DEF TradesPlan, Accepts
  <2>2. TradesFit(UpbitTrades(limit), UpbitAccepts, limit)
    BY <1>0, <1>15 DEF TradesFit, Exact, UpbitTrades, UpbitAccepts, TradesRequest, Kept, Sent, Least, OrElse
  <2>3. QED
    BY <2>1, <2>2
<1>16. QED
  BY <1>1, <1>2, <1>3, <1>4, <1>5, <1>6, <1>7, <1>8, <1>9, <1>10, <1>11, <1>12, <1>13, <1>14, <1>15 DEF AllVenues

Plans == [unit : Nat, ask : Nat, back : Nat, closed : BOOLEAN, page : Nat, keep : Nat \cup {Every}]

\* Pages have a window and ask for a number that is let through; what is not cut is what
\* was asked for, of candles of the length asked for.
CandlesFit(p, accepts, d, limit) ==
  /\ p \in Plans /\ p.unit # 0
  /\ p.page = 0 => (limit <= CandleDefault => p.ask \in accepts["candles"])
  /\ p.page # 0 => p.back # 0 /\ \A k \in 1..p.page : k \in accepts["candles"]
  /\ \/ p.keep = OrElse(limit, CandleDefault)
     \/ p.keep = Every /\ p.unit = d /\ p.page = 0 /\ (limit > 0 => p.ask = limit)

\* Each adapter's request for candles asks for enough of them, in a period that divides
\* the one asked for.
LEMMA CandlesAllFit ==
  ASSUME venue \in AllVenues, NEW d \in Nat \ {0}, NEW limit \in Nat
  PROVE  CandlesFit(CandlesPlan(d, limit), Accepts, d, limit)
<1>0. /\ CandleDefault \in Nat \ {0} /\ CandleDefault <= 200 /\ CandleDefault <= KorbitPage
      /\ CandleDefault <= CoinbasePage /\ KorbitPage \in Nat \ {0} /\ CoinbasePage \in Nat \ {0}
      /\ Every = -1
  BY ReadsAssumption DEF Every
<1> DEFINE n == OrElse(limit, CandleDefault)
<1>n. n \in Nat \ {0} /\ (limit <= CandleDefault => n <= CandleDefault) /\ (limit > 0 => n = limit)
  BY <1>0 DEF OrElse
<1>m. d * n \in Nat \ {0} /\ 3 * n \in Nat \ {0}
  BY <1>n
<1> HIDE DEF n
<1>1. CASE venue = "okx"
  <2>1. CandlesPlan(d, limit) = OkxCandles(d, limit) /\ Accepts = OkxAccepts
    BY <1>1 DEF CandlesPlan, Accepts
  <2>2. CandlesFit(OkxCandles(d, limit), OkxAccepts, d, limit)
    BY <1>0, <1>n, <1>m DEF CandlesFit, Plans, OkxCandles, OkxAccepts, Merged, Newest, n
  <2>3. QED
    BY <2>1, <2>2
<1>2. CASE venue = "bybit"
  <2>1. CandlesPlan(d, limit) = BybitCandles(d, limit) /\ Accepts = BybitAccepts
    BY <1>2 DEF CandlesPlan, Accepts
  <2>2. CandlesFit(BybitCandles(d, limit), BybitAccepts, d, limit)
    BY <1>0, <1>n, <1>m DEF CandlesFit, Plans, BybitCandles, BybitAccepts, Merged, Newest, n
  <2>3. QED
    BY <2>1, <2>2
<1>3. CASE venue = "bitget"
  <2>1. CandlesPlan(d, limit) = BitgetCandles(d, limit) /\ Accepts = BitgetAccepts
    BY <1>3 DEF CandlesPlan, Accepts
  <2>2. CandlesFit(BitgetCandles(d, limit), BitgetAccepts, d, limit)
    BY <1>0, <1>n, <1>m DEF CandlesFit, Plans, BitgetCandles, BitgetAccepts, Merged, Newest, n
  <2>3. QED
    BY <2>1, <2>2
<1>4. CASE venue = "binance"
  <2>1. CandlesPlan(d, limit) = BinanceCandles(d, limit) /\ Accepts = BinanceAccepts
    BY <1>4 DEF CandlesPlan, Accepts
  <2>2. CandlesFit(BinanceCandles(d, limit), BinanceAccepts, d, limit)
    BY <1>0, <1>n, <1>m DEF CandlesFit, Plans, BinanceCandles, BinanceAccepts, Merged, Newest, n
  <2>3. QED
    BY <2>1, <2>2
<1>5. CASE venue = "coinbase"
  <2>1. CandlesPlan(d, limit) = CoinbaseCandles(d, limit) /\ Accepts = CoinbaseAccepts
    BY <1>5 DEF CandlesPlan, Accepts
  <2>2. CandlesFit(CoinbaseCandles(d, limit), CoinbaseAccepts, d, limit)
    <3>1. CASE d = 3
      <4>1. CoinbaseCandles(d, limit) =
              [unit |-> 1, ask |-> n, back |-> 3 * n, closed |-> TRUE, page |-> CoinbasePage, keep |-> n]
        BY <3>1 DEF CoinbaseCandles, Newest, n
      <4>2. QED
        BY <1>0, <1>n, <1>m, <4>1 DEF CandlesFit, Plans, CoinbaseAccepts, n
    <3>2. CASE d # 3
      <4>1. CoinbaseCandles(d, limit) =
              [unit |-> d, ask |-> n, back |-> d * n, closed |-> TRUE, page |-> 0, keep |-> Every]
        BY <3>2 DEF CoinbaseCandles, Newest, n
      <4>2. QED
        BY <1>0, <1>n, <1>m, <4>1 DEF CandlesFit, Plans, CoinbaseAccepts
    <3>3. QED
      BY <3>1, <3>2
  <2>3. QED
    BY <2>1, <2>2
<1>6. CASE venue = "kraken"
  <2>1. CandlesPlan(d, limit) = KrakenCandles(d, limit) /\ Accepts = KrakenAccepts
    BY <1>6 DEF CandlesPlan, Accepts
  <2>2. CandlesFit(KrakenCandles(d, limit), KrakenAccepts, d, limit)
    BY <1>0, <1>n, <1>m DEF CandlesFit, Plans, KrakenCandles, KrakenAccepts, Merged, Newest, n
  <2>3. QED
    BY <2>1, <2>2
<1>7. CASE venue = "gateio"
  <2>1. CandlesPlan(d, limit) = GateioCandles(d, limit) /\ Accepts = GateioAccepts
    BY <1>7 DEF CandlesPlan, Accepts
  <2>2. CandlesFit(GateioCandles(d, limit), GateioAccepts, d, limit)
    BY <1>0, <1>n, <1>m DEF CandlesFit, Plans, GateioCandles, GateioAccepts, Merged, Newest, n
  <2>3. QED
    BY <2>1, <2>2
<1>8. CASE venue = "kucoin"
  <2>1. CandlesPlan(d, limit) = KucoinCandles(d, limit) /\ Accepts = KucoinAccepts
    BY <1>8 DEF CandlesPlan, Accepts
  <2>2. CandlesFit(KucoinCandles(d, limit), KucoinAccepts, d, limit)
    BY <1>0, <1>n, <1>m DEF CandlesFit, Plans, KucoinCandles, KucoinAccepts, Merged, Newest, n
  <2>3. QED
    BY <2>1, <2>2
<1>9. CASE venue = "htx"
  <2>1. CandlesPlan(d, limit) = HtxCandles(d, limit) /\ Accepts = HtxAccepts
    BY <1>9 DEF CandlesPlan, Accepts
  <2>2. CandlesFit(HtxCandles(d, limit), HtxAccepts, d, limit)
    BY <1>0, <1>n, <1>m, SMTT(30) DEF CandlesFit, Plans, HtxCandles, HtxAccepts, Merged, Newest, n
  <2>3. QED
    BY <2>1, <2>2
<1>10. CASE venue = "mexc"
  <2>1. CandlesPlan(d, limit) = MexcCandles(d, limit) /\ Accepts = MexcAccepts
    BY <1>10 DEF CandlesPlan, Accepts
  <2>2. CandlesFit(MexcCandles(d, limit), MexcAccepts, d, limit)
    BY <1>0, <1>n, <1>m DEF CandlesFit, Plans, MexcCandles, MexcAccepts, Merged, Newest, n
  <2>3. QED
    BY <2>1, <2>2
<1>11. CASE venue = "cryptocom"
  <2>1. CandlesPlan(d, limit) = CryptocomCandles(d, limit) /\ Accepts = CryptocomAccepts
    BY <1>11 DEF CandlesPlan, Accepts
  <2>2. CandlesFit(CryptocomCandles(d, limit), CryptocomAccepts, d, limit)
    BY <1>0, <1>n, <1>m DEF CandlesFit, Plans, CryptocomCandles, CryptocomAccepts, Merged, Newest, n
  <2>3. QED
    BY <2>1, <2>2
<1>12. CASE venue = "korbit"
  <2>1. CandlesPlan(d, limit) = KorbitCandles(d, limit) /\ Accepts = KorbitAccepts
    BY <1>12 DEF CandlesPlan, Accepts
  <2>2. CandlesFit(KorbitCandles(d, limit), KorbitAccepts, d, limit)
    <3>1. CASE d = 3
      BY <1>0, <1>n, <1>m, <3>1 DEF CandlesFit, Plans, KorbitCandles, KorbitAccepts, Newest, n
    <3>2. CASE d # 3
      BY <1>0, <1>n, <1>m, <3>2 DEF CandlesFit, Plans, KorbitCandles, KorbitAccepts, Newest, n
    <3>3. QED
      BY <3>1, <3>2
  <2>3. QED
    BY <2>1, <2>2
<1>13. CASE venue = "coinone"
  <2>1. CandlesPlan(d, limit) = CoinoneCandles(d, limit) /\ Accepts = CoinoneAccepts
    BY <1>13 DEF CandlesPlan, Accepts
  <2>2. CandlesFit(CoinoneCandles(d, limit), CoinoneAccepts, d, limit)
    BY <1>0, <1>n, <1>m DEF CandlesFit, Plans, CoinoneCandles, CoinoneAccepts, Merged, Newest, n
  <2>3. QED
    BY <2>1, <2>2
<1>14. CASE venue = "bithumb"
  <2>1. CandlesPlan(d, limit) = BithumbCandles(d, limit) /\ Accepts = BithumbAccepts
    BY <1>14 DEF CandlesPlan, Accepts
  <2>2. CandlesFit(BithumbCandles(d, limit), BithumbAccepts, d, limit)
    BY <1>0, <1>n, <1>m DEF CandlesFit, Plans, BithumbCandles, BithumbAccepts, Merged, Newest, n
  <2>3. QED
    BY <2>1, <2>2
<1>15. CASE venue = "upbit"
  <2>1. CandlesPlan(d, limit) = UpbitCandles(d, limit) /\ Accepts = UpbitAccepts
    BY <1>15 DEF CandlesPlan, Accepts
  <2>2. CandlesFit(UpbitCandles(d, limit), UpbitAccepts, d, limit)
    BY <1>0, <1>n, <1>m DEF CandlesFit, Plans, UpbitCandles, UpbitAccepts, Merged, Newest, n
  <2>3. QED
    BY <2>1, <2>2
<1>16. QED
  BY <1>1, <1>2, <1>3, <1>4, <1>5, <1>6, <1>7, <1>8, <1>9, <1>10, <1>11, <1>12, <1>13, <1>14, <1>15 DEF AllVenues

-----------------------------------------------------------------------------
(* The newest of some candles. *)

\* At most as many as asked for.
LEMMA NewestAreFew ==
  ASSUME NEW S \in SUBSET Nat, IsFiniteSet(S), NEW n \in Nat
  PROVE  /\ NewestOf(S, n) \subseteq S /\ IsFiniteSet(NewestOf(S, n))
         /\ Cardinality(NewestOf(S, n)) <= n
<1> DEFINE T == NewestOf(S, n)
           Newer(i) == {j \in S : i < j}
<1>1. T \subseteq S /\ \A i \in T : Cardinality(Newer(i)) < n
  BY DEF NewestOf, Every
<1>2. IsFiniteSet(T)
  BY <1>1, FS_Subset
<1>3. CASE T = {}
  BY <1>1, <1>2, <1>3, FS_EmptySet
<1>4. CASE T # {}
  <2>1. PICK i \in T : \A j \in T : i <= j
    BY <1>1, <1>4, LeastNumber
  <2>a. i \in Nat /\ \A j \in T : j \in S /\ j \in Nat
    BY <1>1, <2>1
  <2>b. Newer(i) \subseteq S /\ i \notin Newer(i)
    BY <2>a
  <2>2. Newer(i) \subseteq S /\ IsFiniteSet(Newer(i)) /\ i \notin Newer(i)
    BY <2>b, FS_Subset
  <2>3. Cardinality(Newer(i)) \in Nat /\ Cardinality(Newer(i)) < n
    BY <1>1, <2>1, <2>2, FS_CardinalityType
  <2>4. IsFiniteSet(Newer(i) \cup {i}) /\ Cardinality(Newer(i) \cup {i}) = Cardinality(Newer(i)) + 1
    BY <2>2, FS_AddElement
  <2>5. T \subseteq Newer(i) \cup {i}
    <3>1. \A j \in T : j = i \/ i < j
      BY <2>1, <2>a
    <3>2. QED
      BY <2>a, <3>1
  <2>6. Cardinality(T) <= Cardinality(Newer(i) \cup {i}) /\ Cardinality(T) \in Nat
    BY <1>2, <2>4, <2>5, FS_Subset, FS_CardinalityType
  <2>7. QED
    BY <1>1, <1>2, <2>3, <2>4, <2>6
<1>5. QED
  BY <1>3, <1>4

\* Candles that an exchange has are finitely many naturals, also those sent, and those made
\* of them.
LEMMA SentAreNumbers ==
  ASSUME NEW unit \in Nat \ {0}, NEW from \in Nat, NEW to \in Nat, now \in Nat, NEW n \in Nat
  PROVE  /\ CandlesSent(unit, from, to, n) \subseteq Nat /\ IsFiniteSet(CandlesSent(unit, from, to, n))
         /\ Cardinality(CandlesSent(unit, from, to, n)) <= n
<1> DEFINE lo == Ceiling(from, 2 * unit)
           hi == Least(to, now) \div (2 * unit)
           S == {u \in lo..hi : HasCandle(unit, u, now)}
<1>1. lo \in Nat
  BY DEF Ceiling
<1>2. hi \in Nat
  BY DEF Least
<1>3. CandlesSent(unit, from, to, n) = NewestOf(S, n)
  BY DEF CandlesSent
<1> HIDE DEF lo, hi
<1>4. S \in SUBSET Nat /\ S \subseteq lo..hi
  BY <1>1, <1>2
<1>5. IsFiniteSet(S)
  <2>1. IsFiniteSet(lo..hi)
    BY <1>1, <1>2, FS_Interval
  <2>2. QED
    BY <1>4, <2>1, FS_Subset
<1> HIDE DEF S
<1>6. QED
  BY <1>3, <1>4, <1>5, NewestAreFew

-----------------------------------------------------------------------------
(* The invariant of the reads. *)

Lists == [status : {"running", "listed", "failed"}, at : Nat, seen : SUBSET Nat,
          ids : SUBSET STRING, listed : SUBSET Entries]
Calls ==
  [status : {"idle", "running", "done", "failed"}, result : ReadResults, list : Lists,
   begun : Nat, cursor : Nat, plan : Plans, units : SUBSET Nat, starts : SUBSET Nat,
   ended : Nat, error : {"none", "plain", "api", "refused"},
   there : [bids : Nat, asks : Nat, rows : Nat], odd : BOOLEAN]
ReadKinds == {"markets", "ticker", "book", "trades", "candles", "balances"}
Checked == [name : ReadKinds \cup {"egress_ip"}, status : {"passed", "failed", "skipped"}, held : BOOLEAN]

ReadsTyped ==
  /\ venue \in AllVenues /\ venue \in Venues /\ caller \in {"reader", "smoke"}
  /\ history \in Histories /\ stuck \in BOOLEAN /\ route \in RouteChecks
  /\ listing \in Seq(Entries) /\ \A i \in 1..Len(listing) : ListedBy(listing[i])
  /\ now \in Nat /\ now > 6 * CandleDefault /\ ticks \in 0..MaxTicks
  /\ todo \in Seq(AllReads) /\ call \in Calls /\ report \in Seq(Checked)
  /\ sent \in BOOLEAN /\ held \in BOOLEAN /\ cancelled \in BOOLEAN

\* What is left to do and what is reported make up the whole list of checks, and nothing
\* is sent before the route is found to be the expected one.
Tracks(b) ==
  /\ report = <<>> => todo = Checks(b) /\ call = Idle /\ ~sent
  /\ report # <<>> =>
       /\ Len(report) + Len(todo) = Len(Checks(b)) + 1
       /\ report[1].name = "egress_ip"
       /\ \A i \in 2..Len(report) : report[i].name = Checks(b)[i - 1].kind
       /\ \A i \in 1..Len(todo) : todo[i] = Checks(b)[Len(report) + i - 1]
       /\ (todo # <<>> \/ sent) => route = "matches"

RunnerInv ==
  /\ caller = "reader" => report = <<>> /\ Len(todo) = 1
  /\ caller = "smoke" => \E b \in BOOLEAN : Tracks(b)

\* Before the first page and after each one a window ends before the read began.
CallInv ==
  /\ (todo = <<>> \/ call.status = "idle") => call = Idle
  /\ call.error = "refused" => call.status = "failed" /\ ~Validate(read)
  /\ (call.status \in {"running", "done"} /\ read.kind = "candles") =>
       /\ call.plan = CandlesPlan(read.minutes, read.limit)
       /\ call.begun > 6 * CandleDefault /\ call.begun <= now
  /\ (call.status = "running" /\ read.kind = "candles") =>
       /\ Plan.page # 0 => call.cursor < call.begun
       /\ Plan.page = 0 => call.units = {}
       /\ IsFiniteSet(call.units)

\* What the pages of a listing have brought so far.
ListedSoFar == {listing[i] : i \in 1..call.list.at}
ListInv ==
  (call.status = "running" /\ read.kind = "markets") =>
    /\ call.list.status = "running"
    /\ venue \notin {"bybit", "coinbase"} => call.list = NoListing
    /\ (venue \in {"bybit", "coinbase"} /\ ~stuck) =>
         call.list.at <= Len(listing) /\ call.list.listed = ListedSoFar
    /\ (venue = "bybit" /\ stuck) =>
         \/ call.list.at = 0 /\ call.list.listed = {} /\ call.list.seen = {}
         \/ MarketPage < Len(listing) /\ MarketPage \in call.list.seen
    /\ (venue = "coinbase" /\ stuck) =>
         \/ call.list.at = 0 /\ call.list.listed = {}
         \/ MarketPage <= Len(listing) /\ listing[1].name \in call.list.ids

\* A finished read has the right size, label and markets, and evidence of data only where
\* the answer held some.
DoneInv ==
  /\ SizesAreExact /\ LabelsAreTrue /\ MarketsAreComplete
  /\ (todo # <<>> /\ call.status = "done" /\ HasEvidence) => held

ReadsInv == ReadsTyped /\ RunnerInv /\ CallInv /\ ListInv /\ DoneInv /\ PassedChecksHeldData

-----------------------------------------------------------------------------
(* The beginning. *)

\* The smoke run has five checks, and a sixth one with credentials.
LEMMA SixChecks ==
  ASSUME NEW b \in BOOLEAN
  PROVE  Checks(b) \in Seq(AllReads) /\ Len(Checks(b)) \in {5, 6}
<1> DEFINE five == <<ReadOf("markets", 0), ReadOf("ticker", 0), ReadOf("book", 5),
                     ReadOf("trades", 5), ReadOf("candles", 5)>>
           more == IF b THEN <<ReadOf("balances", 0)>> ELSE <<>>
<1>1. five \in Seq(AllReads) /\ Len(five) = 5
  <2>1. \A kind \in {"markets", "ticker", "book", "trades", "candles"}, n \in {0, 5} :
          ReadOf(kind, n) \in AllReads
    BY DEF ReadOf, AllReads
  <2>2. QED
    BY <2>1
<1>2. more \in Seq(AllReads) /\ Len(more) \in {0, 1}
  <2>1. ReadOf("balances", 0) \in AllReads
    BY DEF ReadOf, AllReads
  <2>2. CASE b
    BY <2>1, <2>2
  <2>3. CASE ~b
    BY <2>3
  <2>4. QED
    BY <2>2, <2>3
<1>3. Checks(b) = five \o more
  BY DEF Checks
<1> HIDE DEF five, more
<1>4. Len(five \o more) = Len(five) + Len(more) /\ five \o more \in Seq(AllReads)
  BY <1>1, <1>2, ConcatProperties
<1>5. QED
  BY <1>1, <1>2, <1>3, <1>4

\* The call before a read begins is well formed.
LEMMA IdleFormed ==
  /\ Idle \in Calls /\ Idle.status = "idle" /\ Idle.error = "none" /\ Idle.list = NoListing
  /\ Idle.units = {} /\ Refused \in ReadResults
<1>1. Refused \in ReadResults
  BY DEF Refused, ReadResults
<1>2. NoListing \in Lists
  BY DEF NoListing, Lists
<1>3. Newest(0, 0, Every) \in Plans
  BY DEF Newest, Plans
<1>4. QED
  BY <1>1, <1>2, <1>3 DEF Idle, Calls

\* The smoke run's time is one of the times a read may start at.
LEMMA EarliestStarts ==
  Earliest \in Starts
<1>1. Starts \subseteq Nat /\ Starts # {}
  BY RunsAssumption
<1>2. \E x \in Starts : \A y \in Starts : x <= y
  BY <1>1, LeastNumber
<1>3. QED
  BY <1>2 DEF Earliest

\* A run begins with nothing sent, read or reported.
LEMMA ReadsInit == Init => ReadsInv
<1> SUFFICES ASSUME Init PROVE ReadsInv
  OBVIOUS
<1>1. /\ ticks = 0 /\ call = Idle /\ report = <<>> /\ sent = FALSE /\ held = FALSE /\ cancelled = FALSE
      /\ venue \in Venues /\ \A i \in DOMAIN listing : ListedBy(listing[i])
  BY DEF Init
<1>2. /\ caller \in {"reader", "smoke"} /\ history \in Histories /\ stuck \in BOOLEAN
      /\ route \in RouteChecks /\ now \in Starts
      /\ caller = "reader" => \E r \in Reads : todo = <<r>>
      /\ caller = "smoke" => \E b \in BOOLEAN : todo = Checks(b)
  <2>1. CASE caller = "reader"
    <3>1. PICK r \in Reads :
             /\ todo = <<r>>
             /\ history \in (IF r.kind = "candles" THEN Histories ELSE {"busy"})
             /\ now \in (IF r.kind = "candles" THEN Starts ELSE {Earliest})
             /\ stuck \in (IF r.kind = "markets" THEN BOOLEAN ELSE {FALSE})
             /\ route = "matches"
      BY <2>1 DEF Init
    <3>2. QED
      BY <2>1, <3>1, EarliestStarts, RunsAssumption DEF RouteChecks
  <2>2. CASE caller # "reader"
    BY <2>2, EarliestStarts, RunsAssumption DEF Init
  <2>3. QED
    BY <2>1, <2>2
<1>3. listing \in Listings \cup {<<>>}
  BY DEF Init
<1>4. ReadsTyped
  <2>1. todo \in Seq(AllReads)
    <3>1. CASE caller = "reader"
      <4>1. PICK r \in Reads : todo = <<r>>
        BY <1>2, <3>1
      <4>2. r \in AllReads
        BY RunsAssumption
      <4>3. QED
        BY <4>1, <4>2
    <3>2. CASE caller = "smoke"
      BY <1>2, <3>2, SixChecks
    <3>3. QED
      BY <1>2, <3>1, <3>2
  <2>2. listing \in Seq(Entries)
    <3>1. CASE listing \in Listings
      BY <3>1, RunsAssumption
    <3>2. CASE listing = <<>>
      BY <3>2
    <3>3. QED
      BY <1>3, <3>1, <3>2
  <2>3. venue \in AllVenues /\ now \in Nat /\ now > 6 * CandleDefault /\ ticks \in 0..MaxTicks
    BY <1>1, <1>2, RunsAssumption
  <2>4. report \in Seq(Checked) /\ call \in Calls
    BY <1>1, IdleFormed
  <2>5. \A i \in 1..Len(listing) : ListedBy(listing[i])
    BY <1>1, <2>2
  <2>6. QED
    BY <1>1, <1>2, <2>1, <2>2, <2>3, <2>4, <2>5 DEF ReadsTyped
<1>5. RunnerInv
  <2>1. CASE caller = "reader"
    BY <1>1, <1>2, <2>1 DEF RunnerInv
  <2>2. CASE caller = "smoke"
    BY <1>1, <1>2, <2>2 DEF RunnerInv, Tracks
  <2>3. QED
    BY <1>2, <2>1, <2>2
<1>6. CallInv /\ ListInv
  BY <1>1, IdleFormed DEF CallInv, ListInv
<1>7. DoneInv /\ PassedChecksHeldData
  BY <1>1, IdleFormed DEF DoneInv, SizesAreExact, LabelsAreTrue, MarketsAreComplete, Finished,
     PassedChecksHeldData
<1>8. QED
  BY <1>4, <1>5, <1>6, <1>7 DEF ReadsInv

-----------------------------------------------------------------------------
(* What a step leaves as it was. *)

\* A step that leaves the read and its answer alone keeps what holds of a finished read.
LEMMA SameDone ==
  ASSUME DoneInv, UNCHANGED <<venue, listing, todo, call, held>>
  PROVE  DoneInv'
<1>1. UNCHANGED read /\ \A kind \in ReadKinds : Finished(kind)' <=> Finished(kind)
  BY DEF read, Finished
<1>2. SizesAreExact' /\ LabelsAreTrue' /\ MarketsAreComplete'
  BY DEF DoneInv, SizesAreExact, LabelsAreTrue, MarketsAreComplete, Finished, read
<1>3. HasEvidence' <=> HasEvidence
  BY DEF HasEvidence, checkMarkets, checkTicker, checkOrderBook, checkRecentTrades, checkCandles,
     checkBalances, read
<1>4. QED
  BY <1>2, <1>3 DEF DoneInv

\* Nothing is claimed of a read that is not finished.
LEMMA NotDone ==
  ASSUME call'.status # "done"
  PROVE  DoneInv'
  BY DEF DoneInv, SizesAreExact, LabelsAreTrue, MarketsAreComplete, Finished

\* The plan of a read of candles depends on the adapter alone.
LEMMA SamePlan ==
  ASSUME UNCHANGED venue, NEW d, NEW n
  PROVE  UNCHANGED CandlesPlan(d, n)
  BY DEF CandlesPlan

\* A step that leaves the call alone keeps its invariant, time passing or not.
LEMMA SameCall ==
  ASSUME CallInv, UNCHANGED <<venue, todo, call>>, now \in Nat, now' \in Nat, now' >= now, call \in Calls
  PROVE  CallInv'
<1>1. UNCHANGED read /\ UNCHANGED CandlesPlan(read.minutes, read.limit)
  BY SamePlan DEF read
<1>2. call.begun \in Nat
  BY DEF Calls
<1>3. Validate(read)' <=> Validate(read)
  BY <1>1 DEF Validate
<1>4. call.begun <= now => call.begun <= now'
  BY <1>2
<1>5. call' = call /\ todo' = todo /\ (Plan.page)' = Plan.page
  BY DEF Plan
<1>6. QED
  BY <1>1, <1>3, <1>4, <1>5 DEF CallInv

\* A step that leaves the call and the listing alone keeps what the pages have brought.
LEMMA SameList ==
  ASSUME ListInv, UNCHANGED <<venue, listing, stuck, todo, call>>
  PROVE  ListInv'
<1>1. UNCHANGED <<read, ListedSoFar>>
  BY DEF read, ListedSoFar
<1>2. QED
  BY <1>1 DEF ListInv

\* A step that leaves the checks and the report alone keeps what the runner has done.
LEMMA SameRunner ==
  ASSUME RunnerInv, UNCHANGED <<caller, route, todo, call, report, sent>>
  PROVE  RunnerInv'
  BY DEF RunnerInv, Tracks

\* While a read runs the route is the expected one, so something may be sent.
LEMMA RunnerGoesOn ==
  ASSUME ReadsInv, Running, UNCHANGED <<caller, route, todo, report>>
  PROVE  RunnerInv'
<1>1. call # Idle
  BY IdleFormed DEF Running
<1>2. todo # <<>>
  BY DEF Running
<1>3. CASE caller = "reader"
  BY <1>3 DEF ReadsInv, RunnerInv
<1>4. CASE caller = "smoke"
  <2>1. PICK b \in BOOLEAN : Tracks(b)
    BY <1>4 DEF ReadsInv, RunnerInv
  <2>2. Tracks(b)'
    BY <1>1, <1>2, <2>1 DEF Tracks
  <2>3. QED
    BY <1>4, <2>2 DEF RunnerInv
<1>5. QED
  BY <1>3, <1>4 DEF ReadsInv, ReadsTyped

\* The variables that no step of a read changes.
LEMMA FixedTyped ==
  ASSUME ReadsTyped, UNCHANGED <<fixedVars, todo, report, cancelled>>,
         now' \in Nat, now' >= now, ticks' \in 0..MaxTicks,
         call' \in Calls, sent' \in BOOLEAN, held' \in BOOLEAN
  PROVE  ReadsTyped'
<1>1. now' > 6 * CandleDefault
  <2>1. 6 * CandleDefault \in Nat /\ now \in Nat /\ now > 6 * CandleDefault
    BY ReadsAssumption DEF ReadsTyped
  <2>2. QED
    BY <2>1
<1>2. \A i \in 1..Len(listing) : ListedBy(listing[i])'
  BY DEF ReadsTyped, ListedBy, fixedVars
<1>3. QED
  BY <1>1, <1>2 DEF ReadsTyped, fixedVars

\* A read that ends with an error is well formed.
LEMMA EndedTyped ==
  ASSUME call \in Calls, NEW error \in {"plain", "api", "refused"}
  PROVE  EndedWith(error) \in Calls /\ EndedWith(error).status = "failed" /\ EndedWith(error).error = error
  BY DEF EndedWith, Calls

\* The read under way is one of the reads.
LEMMA ReadTyped ==
  ASSUME todo \in Seq(AllReads), todo # <<>>
  PROVE  /\ read \in AllReads /\ read.limit \in Nat /\ read.minutes \in Nat \ {0}
         /\ read.kind \in ReadKinds
<1>1. read \in AllReads
  BY DEF read
<1>2. QED
  BY <1>1 DEF AllReads, ReadKinds

-----------------------------------------------------------------------------
(* Steps that fail a read, and steps beside it. *)

\* A page ends after it begins and not after the read began; the number asked for is
\* the minutes of it.
LEMMA PageFits ==
  ASSUME ReadsInv, Running, read.kind = "candles"
  PROVE  /\ CandlesFit(Plan, Accepts, read.minutes, read.limit)
         /\ call.cursor \in Nat /\ call.begun \in Nat /\ PageEnd \in Nat /\ PageEnd <= call.begun
         /\ Ask = PageAsk /\ Ask \in Nat
         /\ Plan.page = 0 => PageEnd = call.begun /\ Ask = Plan.ask
         /\ Plan.page # 0 => /\ call.cursor < PageEnd /\ PageEnd <= call.cursor + 2 * Plan.page
                            /\ (PageEnd = call.begun \/ PageEnd = call.cursor + 2 * Plan.page)
                            /\ Ask = Ceiling(PageEnd - call.cursor, 2) /\ Ask \in 1..Plan.page
<1>1. call \in Calls /\ todo \in Seq(AllReads) /\ todo # <<>> /\ venue \in AllVenues
  BY DEF ReadsInv, ReadsTyped, Running
<1>2. read.limit \in Nat /\ read.minutes \in Nat \ {0}
  BY <1>1, ReadTyped
<1>3. CandlesFit(Plan, Accepts, read.minutes, read.limit)
  BY <1>1, <1>2, CandlesAllFit DEF Running, ReadsInv, CallInv, Plan
<1>4. call.cursor \in Nat /\ call.begun \in Nat /\ Plan.page \in Nat /\ Plan.ask \in Nat
  BY <1>1, <1>3 DEF Calls, CandlesFit, Plans
<1>5. Ask = PageAsk
  BY DEF Ask
<1>6. CASE Plan.page = 0
  BY <1>3, <1>4, <1>5, <1>6 DEF PageEnd, PageAsk
<1>7. CASE Plan.page # 0
  <2>1. call.cursor < call.begun
    BY <1>7 DEF Running, ReadsInv, CallInv
  <2>2. /\ PageEnd \in Nat /\ call.cursor < PageEnd /\ PageEnd <= call.cursor + 2 * Plan.page
        /\ PageEnd <= call.begun /\ (PageEnd = call.begun \/ PageEnd = call.cursor + 2 * Plan.page)
    BY <1>4, <1>7, <2>1 DEF PageEnd, Least
  <2>3. PageAsk = Ceiling(PageEnd - call.cursor, 2)
    BY <1>7 DEF PageAsk
  <2>4. PageAsk \in 1..Plan.page
    BY <1>4, <2>2, <2>3 DEF Ceiling
  <2>5. QED
    BY <1>3, <1>4, <1>5, <1>7, <2>2, <2>3, <2>4
<1>8. QED
  BY <1>6, <1>7

\* Refusing a request before it is sent keeps the invariant.
LEMMA RefuseStep ==
  ASSUME ReadsInv, Refuse
  PROVE  ReadsInv'
<1>1. /\ call' = EndedWith("refused") /\ Running /\ ~Sendable
      /\ UNCHANGED <<fixedVars, now, ticks, todo, report, sent, held, cancelled>>
  BY DEF Refuse
<1>2. ReadsTyped /\ call \in Calls /\ todo \in Seq(AllReads) /\ now \in Nat
  BY DEF ReadsInv, ReadsTyped
<1>3. call' \in Calls /\ call'.status = "failed" /\ call'.error = "refused"
  BY <1>1, <1>2, EndedTyped
<1>4. ~Validate(read)
  <2>1. SUFFICES ASSUME Validate(read) PROVE FALSE
    OBVIOUS
  <2>2. Sized /\ Ask \notin Accepts[read.kind]
    BY <1>1, <2>1 DEF Sendable
  <2>3. todo # <<>> /\ venue \in AllVenues
    BY <1>1 DEF Running, ReadsInv, ReadsTyped
  <2>4. read \in AllReads /\ read.limit \in Nat /\ read.minutes \in Nat \ {0}
    BY <1>2, <2>3, ReadTyped
  <2>5. CASE read.kind = "book"
    <3>1. BookFits(BookPlan(read.limit), Accepts, read.limit)
      BY <2>3, <2>4, BooksFit
    <3>2. QED
      BY <2>1, <2>2, <2>5, <3>1 DEF BookFits, Validate, Ask
  <2>6. CASE read.kind = "trades"
    <3>1. TradesFit(TradesPlan(read.limit), Accepts, read.limit)
      BY <2>3, <2>4, TradesAllFit
    <3>2. QED
      BY <2>1, <2>2, <2>6, <3>1 DEF TradesFit, Validate, Ask
  <2>7. CASE read.kind = "candles"
    <3>1. /\ CandlesFit(Plan, Accepts, read.minutes, read.limit)
          /\ Plan.page = 0 => Ask = Plan.ask
          /\ Plan.page # 0 => Ask \in 1..Plan.page
      BY <1>1, <2>7, PageFits
    <3>2. read.limit <= CandleDefault
      BY <2>1, <2>7 DEF Validate
    <3>3. QED
      BY <2>2, <2>7, <3>1, <3>2 DEF CandlesFit
  <2>8. QED
    BY <2>2, <2>5, <2>6, <2>7 DEF Sized
<1>5. ReadsTyped'
  BY <1>1, <1>2, <1>3, FixedTyped DEF ReadsTyped
<1>6. CallInv'
  <2>1. ~Validate(read)' /\ todo' # <<>>
    BY <1>1, <1>4 DEF Validate, read, Running
  <2>2. QED
    BY <1>3, <2>1 DEF CallInv
<1>7. ListInv' /\ DoneInv'
  BY <1>3, NotDone DEF ListInv
<1>8. RunnerInv'
  BY <1>1, RunnerGoesOn DEF fixedVars
<1>9. PassedChecksHeldData'
  BY <1>1 DEF ReadsInv, PassedChecksHeldData
<1>10. QED
  BY <1>5, <1>6, <1>7, <1>8, <1>9 DEF ReadsInv

\* A failed call keeps the invariant.
LEMMA FailStep ==
  ASSUME ReadsInv, FailCall
  PROVE  ReadsInv'
<1>1. /\ call' = EndedWith("api") /\ Running /\ sent' = (sent \/ ~cancelled)
      /\ UNCHANGED <<fixedVars, now, ticks, todo, report, held, cancelled>>
  BY DEF FailCall
<1>2. ReadsTyped
  BY DEF ReadsInv
<1>3. call' \in Calls /\ call'.status = "failed" /\ call'.error = "api"
  BY <1>1, <1>2, EndedTyped DEF ReadsTyped
<1>4. ReadsTyped'
  BY <1>1, <1>2, <1>3, FixedTyped DEF ReadsTyped
<1>5. CallInv' /\ ListInv' /\ DoneInv'
  BY <1>1, <1>3, NotDone DEF ListInv, CallInv, Running
<1>6. RunnerInv'
  BY <1>1, RunnerGoesOn DEF fixedVars
<1>7. PassedChecksHeldData'
  BY <1>1 DEF ReadsInv, PassedChecksHeldData
<1>8. QED
  BY <1>4, <1>5, <1>6, <1>7 DEF ReadsInv

\* Time passing keeps the invariant.
LEMMA TickStep ==
  ASSUME ReadsInv, Tick
  PROVE  ReadsInv'
<1>1. /\ now' = now + 1 /\ ticks' = ticks + 1 /\ ticks < MaxTicks
      /\ UNCHANGED <<fixedVars, todo, call, report, sent, held, cancelled>>
  BY DEF Tick
<1>2. ReadsTyped /\ now \in Nat /\ ticks \in Nat /\ MaxTicks \in Nat
  BY RunsAssumption DEF ReadsInv, ReadsTyped
<1>3. now' \in Nat /\ now' >= now /\ ticks' \in 0..MaxTicks
  BY <1>1, <1>2
<1>4. ReadsTyped'
  BY <1>1, <1>2, <1>3, FixedTyped DEF ReadsTyped
<1>5. CallInv' /\ ListInv' /\ DoneInv' /\ RunnerInv'
  BY <1>1, <1>2, <1>3, SameCall, SameList, SameDone, SameRunner DEF ReadsInv, ReadsTyped, fixedVars
<1>6. PassedChecksHeldData'
  BY <1>1 DEF ReadsInv, PassedChecksHeldData
<1>7. QED
  BY <1>4, <1>5, <1>6 DEF ReadsInv

\* The caller giving up keeps the invariant.
LEMMA CancelStep ==
  ASSUME ReadsInv, Cancel \/ UNCHANGED vars
  PROVE  ReadsInv'
<1>1. UNCHANGED <<fixedVars, now, ticks, todo, call, report, sent, held>> /\ cancelled' \in BOOLEAN
  BY DEF Cancel, vars, fixedVars, ReadsInv, ReadsTyped
<1>2. ReadsTyped /\ now \in Nat /\ now' = now
  BY <1>1 DEF ReadsInv, ReadsTyped
<1>3. ReadsTyped'
  <2>1. \A i \in 1..Len(listing) : ListedBy(listing[i])'
    BY <1>1, <1>2 DEF ReadsTyped, ListedBy, fixedVars
  <2>2. QED
    BY <1>1, <1>2, <2>1 DEF ReadsTyped, fixedVars
<1>4. CallInv' /\ ListInv' /\ DoneInv' /\ RunnerInv'
  BY <1>1, <1>2, SameCall, SameList, SameDone, SameRunner DEF ReadsInv, ReadsTyped, fixedVars
<1>5. PassedChecksHeldData'
  BY <1>1 DEF ReadsInv, PassedChecksHeldData
<1>6. QED
  BY <1>3, <1>4, <1>5 DEF ReadsInv

\* A paged read begins where its window does.
LEMMA BeginStep ==
  ASSUME ReadsInv, Begin
  PROVE  ReadsInv'
<1> DEFINE plan == IF read.kind = "candles" THEN CandlesPlan(read.minutes, read.limit) ELSE Idle.plan
<1>1. /\ call' = [Idle EXCEPT !.status = "running", !.begun = now, !.plan = plan, !.cursor = WindowStart(plan)]
      /\ todo # <<>> /\ (caller = "smoke" => report # <<>>)
      /\ UNCHANGED <<fixedVars, now, ticks, todo, report, sent, held, cancelled>>
  BY DEF Begin
<1>2. ReadsTyped /\ now \in Nat /\ now > 6 * CandleDefault /\ todo \in Seq(AllReads) /\ venue \in AllVenues
  BY DEF ReadsInv, ReadsTyped
<1>3. read.limit \in Nat /\ read.minutes \in Nat \ {0}
  BY <1>1, <1>2, ReadTyped
<1>4. read.kind = "candles" => CandlesFit(plan, Accepts, read.minutes, read.limit)
  BY <1>2, <1>3, CandlesAllFit
<1>5. plan \in Plans
  <2>1. CASE read.kind = "candles"
    <3>1. CandlesFit(plan, Accepts, read.minutes, read.limit)
      BY <1>4, <2>1
    <3>2. QED
      BY <3>1 DEF CandlesFit
  <2>2. CASE read.kind # "candles"
    BY <2>2, IdleFormed DEF Calls
  <2>3. QED
    BY <2>1, <2>2
<1> HIDE DEF plan
<1>6. WindowStart(plan) \in Nat /\ (plan.back # 0 => WindowStart(plan) < now)
  <2>1. plan.back \in Nat /\ now > 0
    BY <1>2, <1>5, ReadsAssumption DEF Plans
  <2>2. QED
    BY <1>2, <2>1 DEF WindowStart
<1>7. call' \in Calls /\ call'.status = "running" /\ call'.begun = now /\ call'.plan = plan
      /\ call'.cursor = WindowStart(plan) /\ call'.units = {} /\ call'.error = "none"
      /\ call'.list = NoListing
  BY <1>1, <1>2, <1>5, <1>6, IdleFormed DEF Calls
<1>8. ReadsTyped'
  BY <1>1, <1>2, <1>7, FixedTyped DEF ReadsTyped, ReadsInv
<1>9. CallInv'
  <2>1. UNCHANGED <<read, CandlesPlan(read.minutes, read.limit)>>
    BY <1>1, SamePlan DEF read, fixedVars
  <2>2. read.kind = "candles" => plan = CandlesPlan(read.minutes, read.limit) /\ (plan.page # 0 => plan.back # 0)
    BY <1>4 DEF plan, CandlesFit
  <2>3. IsFiniteSet({})
    BY FS_EmptySet
  <2>4. IsFiniteSet(call'.units)
    BY <1>7, <2>3
  <2>5. QED
    BY <1>1, <1>2, <1>6, <1>7, <2>1, <2>2, <2>4 DEF CallInv, Plan
<1>10. ListInv'
  <2>1. NoListing.status = "running" /\ NoListing.at = 0 /\ NoListing.listed = {} /\ NoListing.seen = {}
    BY DEF NoListing
  <2>2. Len(listing)' \in Nat
    BY <1>8 DEF ReadsTyped
  <2>3. ListedSoFar' = {}
    BY <1>7, <2>1 DEF ListedSoFar
  <2>4. QED
    BY <1>7, <2>1, <2>2, <2>3 DEF ListInv
<1>11. DoneInv'
  BY <1>7, NotDone
<1>12. RunnerInv'
  BY <1>1 DEF ReadsInv, RunnerInv, Tracks, fixedVars
<1>13. PassedChecksHeldData'
  BY <1>1 DEF ReadsInv, PassedChecksHeldData
<1>14. QED
  BY <1>8, <1>9, <1>10, <1>11, <1>12, <1>13 DEF ReadsInv

-----------------------------------------------------------------------------
(* The runner's own steps. *)

\* The result of a check is well formed, and holds evidence only if it passed.
LEMMA ResultTyped ==
  ASSUME held \in BOOLEAN, NEW name \in ReadKinds \cup {"egress_ip"},
         NEW status \in {"passed", "failed", "skipped"}
  PROVE  /\ Result(name, status) \in Checked /\ Result(name, status).name = name
         /\ Result(name, status).status = status /\ (Result(name, status).held <=> (status = "passed" /\ held))
  BY DEF Result, Checked

\* The check of the route keeps the invariant: only the expected route lets the run go on.
LEMMA EgressStep ==
  ASSUME ReadsInv, CheckEgress
  PROVE  ReadsInv'
<1>1. /\ caller = "smoke" /\ report = <<>> /\ RunAfterEgress(route)
      /\ UNCHANGED <<fixedVars, now, ticks, call, sent, held, cancelled>>
  BY DEF CheckEgress
<1>2. ReadsTyped /\ todo \in Seq(AllReads) /\ held \in BOOLEAN /\ now \in Nat
  BY DEF ReadsInv, ReadsTyped
<1>3. PICK b \in BOOLEAN : todo = Checks(b) /\ call = Idle /\ ~sent
  BY <1>1 DEF ReadsInv, RunnerInv, Tracks
<1> DEFINE first == verifyEgress(route)
           rest == [i \in DOMAIN todo |-> Result(todo[i].kind, "skipped")]
<1>4. /\ first \in Checked /\ first.name = "egress_ip"
      /\ first.status = "passed" <=> route = "matches"
  BY <1>2, ResultTyped DEF verifyEgress
<1>5. \A i \in DOMAIN todo : todo[i] \in AllReads /\ todo[i].kind \in ReadKinds
  <2>1. \A r \in AllReads : r.kind \in ReadKinds
    BY DEF AllReads, ReadKinds
  <2>2. QED
    BY <1>2, <2>1
<1>6. /\ rest \in Seq(Checked) /\ Len(rest) = Len(todo)
      /\ \A i \in 1..Len(todo) : rest[i].name = todo[i].kind /\ rest[i].status = "skipped"
  <2>1. \A i \in 1..Len(todo) : /\ Result(todo[i].kind, "skipped") \in Checked
                                /\ Result(todo[i].kind, "skipped").name = todo[i].kind
                                /\ Result(todo[i].kind, "skipped").status = "skipped"
    BY <1>2, <1>5, ResultTyped
  <2>2. DOMAIN todo = 1..Len(todo) /\ Len(todo) \in Nat
    BY <1>2
  <2>3. QED
    BY <2>1, <2>2
<1>7. IF first.status = "passed" THEN report' = <<first>> /\ todo' = todo
      ELSE report' = <<first>> \o rest /\ todo' = <<>>
  BY <1>1 DEF RunAfterEgress
<1> HIDE DEF first, rest
<1>8. /\ todo' \in Seq(AllReads) /\ report' \in Seq(Checked) /\ Tracks(b)'
      /\ \A i \in 2..Len(report') : report'[i].status # "passed"
  <2>1. CASE first.status = "passed"
    <3>1. report' = <<first>> /\ todo' = todo
      BY <1>7, <2>1
    <3>2. Len(report') = 1 /\ report'[1] = first /\ report' # <<>>
      BY <3>1
    <3>3. route' = "matches" /\ Checks(b)' = Checks(b)
      BY <1>1, <1>4, <2>1 DEF fixedVars, Checks, ReadOf
    <3>4. Tracks(b)'
      BY <1>2, <1>3, <1>4, <3>1, <3>2, <3>3 DEF Tracks
    <3>5. QED
      BY <1>2, <1>4, <3>1, <3>2, <3>4
  <2>2. CASE first.status # "passed"
    <3>1. report' = <<first>> \o rest /\ todo' = <<>>
      BY <1>7, <2>2
    <3>2. <<first>> \in Seq(Checked) /\ Len(<<first>>) = 1 /\ <<first>>[1] = first
      BY <1>4
    <3>3. /\ report' \in Seq(Checked) /\ Len(report') = 1 + Len(todo)
          /\ \A i \in 1..(1 + Len(todo)) : report'[i] = IF i <= 1 THEN <<first>>[i] ELSE rest[i - 1]
      BY <1>6, <3>1, <3>2, ConcatProperties
    <3>4. Len(todo) \in Nat
      BY <1>2
    <3>5. report'[1] = first /\ \A i \in 2..Len(report') : report'[i] = rest[i - 1] /\ i - 1 \in 1..Len(todo)
      BY <3>2, <3>3, <3>4
    <3>6. Checks(b)' = Checks(b) /\ ~sent' /\ report' # <<>>
      BY <1>1, <1>3, <3>3, <3>4 DEF Checks, ReadOf
    <3>7. Len(todo') = 0 /\ todo' \in Seq(AllReads)
      BY <3>1
    <3>8. \A i \in 2..Len(report') : report'[i].name = Checks(b)[i - 1].kind
      BY <1>3, <1>6, <3>5
    <3>9. Tracks(b)'
      BY <1>3, <1>4, <3>1, <3>3, <3>4, <3>5, <3>6, <3>7, <3>8 DEF Tracks
    <3>10. QED
      BY <1>6, <3>3, <3>5, <3>7, <3>9
  <2>3. QED
    BY <2>1, <2>2
<1>9. ReadsTyped'
  <2>1. \A i \in 1..Len(listing) : ListedBy(listing[i])'
    BY <1>1, <1>2 DEF ReadsTyped, ListedBy, fixedVars
  <2>2. QED
    BY <1>1, <1>2, <1>8, <2>1 DEF ReadsTyped, fixedVars
<1>10. RunnerInv'
  BY <1>1, <1>8 DEF RunnerInv, fixedVars
<1>11. call' = Idle
  BY <1>1, <1>3
<1>12. CallInv' /\ ListInv' /\ DoneInv'
  BY <1>11, IdleFormed, NotDone DEF CallInv, ListInv
<1>13. PassedChecksHeldData'
  <2>1. Len(report') \in Nat /\ DOMAIN report' = 1..Len(report')
    BY <1>8
  <2>2. QED
    BY <1>8, <2>1 DEF PassedChecksHeldData
<1>14. QED
  BY <1>9, <1>10, <1>12, <1>13 DEF ReadsInv

\* Reporting a check and going on to the next one keeps the invariant.
LEMMA ConcludeStep ==
  ASSUME ReadsInv, Conclude
  PROVE  ReadsInv'
<1>1. /\ caller = "smoke" /\ todo # <<>> /\ call.status \in {"done", "failed"}
      /\ report' = Append(report, executeCheck) /\ todo' = Tail(todo)
      /\ call' = Idle /\ ticks' = 0 /\ held' = FALSE
      /\ UNCHANGED <<fixedVars, now, sent, cancelled>>
  BY DEF Conclude
<1>2. ReadsTyped /\ todo \in Seq(AllReads) /\ report \in Seq(Checked) /\ held \in BOOLEAN
  BY DEF ReadsInv, ReadsTyped
<1>3. PICK b \in BOOLEAN : Tracks(b)
  BY <1>1 DEF ReadsInv, RunnerInv
<1>4. report # <<>>
  BY <1>1, <1>3, IdleFormed DEF Tracks
<1>5. read = todo[1] /\ read.kind \in ReadKinds
  <2>1. read.kind \in ReadKinds
    BY <1>1, <1>2, ReadTyped
  <2>2. QED
    BY <1>1, <1>2, <2>1 DEF read
<1>6. /\ executeCheck \in Checked /\ executeCheck.name = read.kind
      /\ executeCheck.status = "passed" => executeCheck.held
  <2>1. CASE call.status = "done" /\ HasEvidence
    <3>1. held
      BY <1>1, <2>1 DEF ReadsInv, DoneInv
    <3>2. QED
      BY <1>2, <1>5, <2>1, <3>1, ResultTyped DEF executeCheck
  <2>2. CASE ~(call.status = "done" /\ HasEvidence)
    BY <1>2, <1>5, <2>2, ResultTyped DEF executeCheck
  <2>3. QED
    BY <2>1, <2>2
<1> DEFINE check == executeCheck
<1> HIDE DEF check
<1>7. report' = Append(report, check) /\ check \in Checked /\ check.name = read.kind
      /\ (check.status = "passed" => check.held)
  BY <1>1, <1>6 DEF check
<1>8. /\ report' \in Seq(Checked) /\ Len(report') = Len(report) + 1 /\ Len(report) \in Nat
      /\ \A i \in 1..Len(report) : report'[i] = report[i]
      /\ report'[Len(report) + 1] = check
  BY <1>2, <1>7
<1>9. /\ todo' \in Seq(AllReads) /\ Len(todo') = Len(todo) - 1 /\ Len(todo) \in Nat \ {0}
      /\ \A i \in 1..Len(todo') : todo'[i] = todo[i + 1]
  BY <1>1, <1>2
<1>10. Tracks(b)'
  <2>1. /\ Len(report) + Len(todo) = Len(Checks(b)) + 1
        /\ report[1].name = "egress_ip"
        /\ \A i \in 2..Len(report) : report[i].name = Checks(b)[i - 1].kind
        /\ \A i \in 1..Len(todo) : todo[i] = Checks(b)[Len(report) + i - 1]
        /\ route = "matches"
    BY <1>1, <1>3, <1>4 DEF Tracks
  <2>2. Checks(b)' = Checks(b) /\ route' = route /\ Len(Checks(b)) \in Nat
    BY <1>1, SixChecks DEF Checks, ReadOf, fixedVars
  <2>3. Len(report) >= 1
    BY <1>2, <1>4
  <2>4. \A i \in 2..Len(report') : report'[i].name = Checks(b)[i - 1].kind
    <3>1. todo[1] = Checks(b)[Len(report)]
      BY <1>8, <1>9, <2>1
    <3>2. TAKE i \in 2..Len(report')
    <3>3. CASE i \in 2..Len(report)
      BY <1>8, <2>1, <3>3
    <3>4. CASE i = Len(report) + 1
      BY <1>5, <1>7, <1>8, <3>1, <3>4
    <3>5. QED
      BY <1>8, <3>3, <3>4
  <2>5. \A i \in 1..Len(todo') : todo'[i] = Checks(b)[Len(report') + i - 1]
    <3>1. TAKE i \in 1..Len(todo')
    <3>2. i + 1 \in 1..Len(todo) /\ Len(report) + (i + 1) - 1 = Len(report') + i - 1
      BY <1>8, <1>9
    <3>3. QED
      BY <1>9, <2>1, <3>2
  <2>6. report'[1] = report[1] /\ Len(report') + Len(todo') = Len(Checks(b)) + 1
    <3>1. 1 \in 1..Len(report)
      BY <1>8, <2>3
    <3>2. QED
      BY <1>8, <1>9, <2>1, <2>2, <3>1
  <2>7. report' # <<>>
    <3>1. Len(report') # 0 /\ Len(<<>>) = 0
      BY <1>8
    <3>2. QED
      BY <3>1, Zenon
  <2>8. QED
    BY <2>1, <2>2, <2>4, <2>5, <2>6, <2>7 DEF Tracks
<1>11. ReadsTyped'
  <2>1. \A i \in 1..Len(listing) : ListedBy(listing[i])'
    BY <1>1, <1>2 DEF ReadsTyped, ListedBy, fixedVars
  <2>2. ticks' \in 0..MaxTicks
    BY <1>1, RunsAssumption
  <2>3. QED
    BY <1>1, <1>2, <1>8, <1>9, <2>1, <2>2, IdleFormed DEF ReadsTyped, fixedVars
<1>12. RunnerInv'
  BY <1>1, <1>10 DEF RunnerInv, fixedVars
<1>13. CallInv' /\ ListInv' /\ DoneInv'
  BY <1>1, IdleFormed, NotDone DEF CallInv, ListInv
<1>14. PassedChecksHeldData'
  <2>1. DOMAIN report' = 1..Len(report') /\ DOMAIN report = 1..Len(report)
    BY <1>2, <1>8
  <2>2. ASSUME NEW i \in DOMAIN report', i > 1, report'[i].status = "passed" PROVE report'[i].held
    <3>1. CASE i = Len(report) + 1
      BY <1>7, <1>8, <2>2, <3>1
    <3>2. CASE i \in 1..Len(report)
      BY <1>8, <2>1, <2>2, <3>2 DEF ReadsInv, PassedChecksHeldData
    <3>3. QED
      BY <1>8, <2>1, <3>1, <3>2
  <2>3. QED
    BY <2>2 DEF PassedChecksHeldData
<1>15. QED
  BY <1>10, <1>11, <1>12, <1>13, <1>14 DEF ReadsInv

-----------------------------------------------------------------------------
(* An answer to a read. *)

\* An answer is the next thing a running read gets: the runner is not touched by it.
LEMMA AnswerGoesOn ==
  ASSUME ReadsInv, MayAnswer, NEW c \in Calls, NEW full \in BOOLEAN, Answered(c, full)
  PROVE  /\ ReadsTyped' /\ RunnerInv' /\ PassedChecksHeldData'
         /\ call' = [c EXCEPT !.odd = ~call.odd] /\ call' \in Calls /\ held' = full
         /\ UNCHANGED <<fixedVars, todo, now, read>> /\ todo # <<>>
<1>1. /\ call' = [c EXCEPT !.odd = ~call.odd] /\ sent' = TRUE /\ held' = full
      /\ UNCHANGED <<fixedVars, now, ticks, todo, report, cancelled>> /\ Running
  BY DEF Answered, MayAnswer
<1>2. ReadsTyped
  BY DEF ReadsInv
<1>3. call' \in Calls
  BY <1>1, <1>2 DEF ReadsTyped, Calls
<1>4. ReadsTyped'
  BY <1>1, <1>2, <1>3, FixedTyped DEF ReadsTyped
<1>5. RunnerInv'
  BY <1>1, RunnerGoesOn DEF fixedVars
<1>6. PassedChecksHeldData'
  BY <1>1 DEF ReadsInv, PassedChecksHeldData
<1>7. UNCHANGED <<fixedVars, todo, now, read>> /\ todo # <<>>
  BY <1>1 DEF read, Running
<1>8. QED
  BY <1>1, <1>3, <1>4, <1>5, <1>6, <1>7

\* The read ends, well or not; what a read ends with that is answered.
LEMMA AnswerEnds ==
  ASSUME ReadsInv, MayAnswer, NEW c \in Calls, NEW full \in BOOLEAN, Answered(c, full),
         c.status \in {"done", "failed"}, c.error # "refused",
         read.kind = "candles" => c.status = "failed"
  PROVE  CallInv' /\ ListInv' /\ (c.status = "failed" => ReadsInv')
<1>1. /\ ReadsTyped' /\ RunnerInv' /\ PassedChecksHeldData'
      /\ call' = [c EXCEPT !.odd = ~call.odd] /\ UNCHANGED <<todo, read>> /\ todo # <<>>
  BY AnswerGoesOn
<1>2. call'.status = c.status /\ call'.error = c.error
  BY <1>1 DEF Calls
<1>3. CallInv' /\ ListInv'
  BY <1>1, <1>2 DEF CallInv, ListInv
<1>4. c.status = "failed" => DoneInv'
  BY <1>2, NotDone
<1>5. QED
  BY <1>1, <1>3, <1>4 DEF ReadsInv

\* What a call is when it is done or has failed.
LEMMA DoneTyped ==
  ASSUME ReadsInv, Running, NEW r \in ReadResults
  PROVE  /\ Done(r) \in Calls /\ Done(r).error # "refused"
         /\ r.ok => Done(r).status = "done" /\ Done(r).result = r
         /\ ~r.ok => Done(r).status = "failed"
         /\ EndedWith("api") \in Calls /\ EndedWith("api").status = "failed"
         /\ EndedWith("api").error # "refused"
<1>1. call \in Calls /\ now \in Nat /\ call.error # "refused"
  BY DEF ReadsInv, ReadsTyped, CallInv, Running
<1>2. EndedWith("plain") \in Calls /\ EndedWith("plain").status = "failed" /\ EndedWith("plain").error = "plain"
  BY <1>1, EndedTyped
<1>3. EndedWith("api") \in Calls /\ EndedWith("api").status = "failed" /\ EndedWith("api").error = "api"
  BY <1>1, EndedTyped
<1>4. CASE r.ok
  <2>1. Done(r) = [call EXCEPT !.status = "done", !.result = r, !.ended = now]
    BY <1>4 DEF Done
  <2>2. Done(r) \in Calls
    BY <1>1, <2>1 DEF Calls
  <2>3. Done(r).status = "done" /\ Done(r).result = r /\ Done(r).error = call.error
    BY <1>1, <2>1 DEF Calls
  <2>4. QED
    BY <1>1, <1>3, <1>4, <2>2, <2>3
<1>5. CASE ~r.ok
  BY <1>2, <1>3, <1>5 DEF Done
<1>6. QED
  BY <1>4, <1>5

\* A ticker read from an entry is well formed.
LEMMA PricedTyped ==
  ASSUME NEW e \in Rows, NEW label \in STRING \cup {NoName}
  PROVE  LET r == Priced(e, label) IN
           /\ r \in ReadResults /\ r.ok /\ r.label = label /\ r.of = e.name /\ r.price = e.price
  BY IdleFormed DEF Priced, ReadResults, Rows

\* The answer to a request for a ticker keeps the invariant.
LEMMA TickerStep ==
  ASSUME ReadsInv, AnswerTicker
  PROVE  ReadsInv'
<1>1. MayAnswer /\ read.kind = "ticker" /\ Running
  BY DEF AnswerTicker, MayAnswer
<1>2. PICK a \in Answers(About) :
        Answered(IF Serves("ticker", a) THEN Done(TickerOf(a)) ELSE EndedWith("api"),
                 Holds(a, LAMBDA e : e.price))
  BY DEF AnswerTicker
<1>3. Formed(a, About(Asked)) /\ a \in Seq(Rows)
  <2>1. /\ About(Asked) \in Rows /\ About(Asked).name = Asked
        /\ About(Other) \in Rows /\ About(Other).name = Other
    BY NamesDiffer DEF About, Rows
  <2>2. a \in AnswersFrom(About(Asked), About(Other))
    BY <1>2 DEF Answers, AnswersFrom
  <2>3. Formed(a, About(Asked))
    BY <2>1, <2>2, AnswersFormed, RunsAssumption
  <2>4. QED
    BY <2>3 DEF Formed
<1>4. PICK full \in BOOLEAN : full <=> \E i \in DOMAIN a : a[i].price
  OBVIOUS
<1>5. full = Holds(a, LAMBDA e : e.price)
  BY <1>4 DEF Holds
<1>6. CASE ~Serves("ticker", a)
  <2>1. PICK c \in Calls : c = EndedWith("api") /\ c.status = "failed" /\ c.error # "refused"
    BY <1>1, IdleFormed, DoneTyped
  <2>2. Answered(c, full)
    BY <1>2, <1>5, <1>6, <2>1
  <2>3. QED
    BY <1>1, <2>1, <2>2, AnswerEnds
<1>7. CASE Serves("ticker", a)
  <2>1. MadeOf(TickerOf(a), a, venue \notin Unnamed("ticker"))
    BY <1>3, <1>7, TickersAreOwn DEF Formed, ReadsInv, ReadsTyped
  <2>2. TickerOf(a) \in ReadResults
    BY <2>1, PricedTyped, IdleFormed DEF MadeOf
  <2>3. PICK c \in Calls : /\ c = Done(TickerOf(a)) /\ c.error # "refused"
                           /\ TickerOf(a).ok => c.status = "done" /\ c.result = TickerOf(a)
                           /\ ~TickerOf(a).ok => c.status = "failed"
    BY <1>1, <2>2, DoneTyped
  <2>4. Answered(c, full)
    BY <1>2, <1>5, <1>7, <2>3
  <2>5. CASE c.status = "failed"
    BY <1>1, <2>3, <2>4, <2>5, AnswerEnds
  <2>6. CASE c.status # "failed"
    <3>1. c.status = "done" /\ c.result = TickerOf(a) /\ TickerOf(a).ok
      BY <2>3, <2>6
    <3>a. TickerOf(a) # Refused
      BY <3>1 DEF Refused
    <3>2. PICK e \in Rows, label \in STRING \cup {NoName} :
             /\ TickerOf(a) = Priced(e, label) /\ (e = Blank \/ \E i \in DOMAIN a : e = a[i])
             /\ venue \notin Unnamed("ticker") => label = e.name
      BY <2>1, <3>a DEF MadeOf
    <3>3. c.result.label = label /\ c.result.of = e.name /\ c.result.price = e.price
      BY <3>1, <3>2, PricedTyped
    <3>4. /\ CallInv' /\ ListInv' /\ ReadsTyped' /\ RunnerInv' /\ PassedChecksHeldData'
          /\ call'.status = "done" /\ call'.result = c.result /\ held' = full
          /\ UNCHANGED <<read, venue>> /\ todo' # <<>>
      BY <1>1, <2>3, <2>4, <3>1, AnswerEnds, AnswerGoesOn, SMTT(30) DEF Calls, fixedVars
    <3>5. LabelsAreTrue'
      BY <1>1, <3>2, <3>3, <3>4 DEF LabelsAreTrue, Finished, Unnamed
    <3>6. SizesAreExact' /\ MarketsAreComplete'
      BY <1>1, <3>4 DEF SizesAreExact, MarketsAreComplete, Finished
    <3>7. HasEvidence' => held'
      <4>1. HasEvidence' <=> checkTicker'
        BY <1>1, <3>4 DEF HasEvidence
      <4>2. checkTicker' => e.price
        BY <3>3, <3>4 DEF checkTicker
      <4>3. e.price => full
        BY <1>4, <3>2, NamesDiffer
      <4>4. QED
        BY <3>4, <4>1, <4>2, <4>3
    <3>8. QED
      BY <3>4, <3>5, <3>6, <3>7 DEF ReadsInv, DoneInv
  <2>7. QED
    BY <2>5, <2>6
<1>8. QED
  BY <1>6, <1>7

\* Whose name a book carries.
LEMMA BookNames ==
  ASSUME venue \in AllVenues, venue \notin Unnamed("book"), NEW n \in Nat, NEW a, Serves("book", a)
  PROVE  BookPlan(n).label = "own" \/ (Len(a) = 1 /\ a[1].name = Asked)
<1>1. CASE venue = "cryptocom"
  BY <1>1 DEF Serves, CryptocomServes
<1>2. CASE venue \in {"bybit", "coinbase", "kraken", "coinone"}
  BY <1>2 DEF BookPlan, BybitBook, CoinbaseBook, KrakenBook, CoinoneBook, BookRequest
<1>3. CASE venue \in {"bithumb", "upbit"}
  BY <1>3 DEF BookPlan, BithumbBook, UpbitBook, BookRequest
<1>4. QED
  BY <1>1, <1>2, <1>3 DEF AllVenues, Unnamed

\* What is left of something is no more than it.
LEMMA KeptFacts ==
  ASSUME NEW n \in Nat, NEW keep \in Nat \cup {Every}
  PROVE  Kept(n, keep) \in Nat /\ (Kept(n, keep) > 0 => n > 0)
  BY DEF Kept, Least, Every

\* What an exchange sends is a number of items.
LEMMA SentTyped ==
  ASSUME NEW ask \in Nat, NEW n \in Nat
  PROVE  Sent(ask, n) \in Nat
  BY RunsAssumption DEF Sent, Least, OrElse

\* The answer to a request for a book keeps the invariant.
LEMMA BookStep ==
  ASSUME ReadsInv, AnswerBook
  PROVE  ReadsInv'
<1>1. MayAnswer /\ read.kind = "book" /\ Running /\ Sendable
  BY DEF AnswerBook, MayAnswer
<1>2. ReadsTyped /\ venue \in AllVenues /\ read.limit \in Nat
  BY <1>1, ReadTyped DEF ReadsInv, ReadsTyped, Running
<1> DEFINE plan == BookPlan(read.limit)
<1>3. BookFits(plan, Accepts, read.limit) /\ plan.ask \in Nat /\ plan.keep \in Nat \cup {Every}
  BY <1>2, BooksFit DEF BookFits
<1>4. Ask = plan.ask /\ read.limit <= 16
  BY <1>1 DEF Ask, Sendable, Sized, Validate
<1> HIDE DEF plan
<1>5. PICK d \in Depths :
        LET Entry1(m) == [About(m) EXCEPT !.bids = Sent(Ask, d.bids), !.asks = Sent(Ask, d.asks)]
        IN \E a \in Answers(Entry1) :
             Answered([IF Serves("book", a) THEN Done(BookOf(plan, a)) ELSE EndedWith("api")
                         EXCEPT !.there = d],
                      Holds(a, LAMBDA e : e.bids > 0 /\ e.asks > 0))
  BY DEF AnswerBook, plan
<1>6. d \in [bids : Nat, asks : Nat, rows : Nat] /\ d.bids \in Nat /\ d.asks \in Nat
  <2>1. d \in [bids : Nat, asks : Nat, rows : {0}]
    BY RunsAssumption
  <2>2. QED
    BY <2>1
<1> DEFINE Entry1(m) == [About(m) EXCEPT !.bids = Sent(Ask, d.bids), !.asks = Sent(Ask, d.asks)]
<1>7. PICK a \in Answers(Entry1) :
        Answered([IF Serves("book", a) THEN Done(BookOf(plan, a)) ELSE EndedWith("api") EXCEPT !.there = d],
                 Holds(a, LAMBDA e : e.bids > 0 /\ e.asks > 0))
  BY <1>5
<1>8. /\ a \in Seq(Rows)
      /\ \A i \in 1..Len(a) : a[i].name = Asked => /\ a[i].bids = Sent(Ask, d.bids)
                                                   /\ a[i].asks = Sent(Ask, d.asks)
  <2>1. Sent(Ask, d.bids) \in Nat /\ Sent(Ask, d.asks) \in Nat
    BY <1>3, <1>4, <1>6, SentTyped
  <2>2. /\ Entry1(Asked) \in Rows /\ Entry1(Asked).name = Asked
        /\ Entry1(Asked).bids = Sent(Ask, d.bids) /\ Entry1(Asked).asks = Sent(Ask, d.asks)
        /\ Entry1(Other) \in Rows /\ Entry1(Other).name = Other
    BY <2>1, NamesDiffer DEF About, Rows
  <2>3. a \in AnswersFrom(Entry1(Asked), Entry1(Other))
    BY <1>7 DEF Answers, AnswersFrom
  <2> HIDE DEF Entry1
  <2>4. Formed(a, Entry1(Asked))
    BY <2>2, <2>3, AnswersFormed, RunsAssumption
  <2>5. QED
    BY <2>2, <2>4 DEF Formed
<1>9. PICK full \in BOOLEAN : full <=> \E i \in DOMAIN a : a[i].bids > 0 /\ a[i].asks > 0
  OBVIOUS
<1>10. full = Holds(a, LAMBDA e : e.bids > 0 /\ e.asks > 0)
  BY <1>9 DEF Holds
<1>11. ASSUME NEW x \in Calls, x.status = "failed", x.error # "refused",
              Answered([x EXCEPT !.there = d], full)
       PROVE  ReadsInv'
  <2>1. PICK c \in Calls : c = [x EXCEPT !.there = d] /\ c.status = "failed" /\ c.error # "refused"
    BY <1>6, <1>11 DEF Calls
  <2>2. Answered(c, full)
    BY <1>11, <2>1
  <2>3. QED
    BY <1>1, <2>1, <2>2, AnswerEnds
<1>12. CASE ~Serves("book", a)
  <2>1. PICK x \in Calls : x = EndedWith("api") /\ x.status = "failed" /\ x.error # "refused"
    BY <1>1, IdleFormed, DoneTyped
  <2>2. Answered([x EXCEPT !.there = d], full)
    BY <1>7, <1>10, <1>12, <2>1
  <2>3. QED
    BY <1>11, <2>1, <2>2
<1>13. CASE Serves("book", a)
  <2> DEFINE e == Object(a)
             label == IF plan.label = "own" THEN e.name ELSE Asked
             r == BookOf(plan, a)
  <2>1. e \in Rows /\ e.bids \in Nat /\ e.asks \in Nat /\ label \in STRING \cup {NoName}
        /\ (e = Blank \/ (1 \in DOMAIN a /\ e = a[1]))
    BY <1>8, ObjectFacts, NamesDiffer DEF Rows
  <2>2. PICK bids \in Nat, asks \in Nat :
          /\ bids = Kept(e.bids, plan.keep) /\ (bids > 0 => e.bids > 0)
          /\ asks = Kept(e.asks, plan.keep) /\ (asks > 0 => e.asks > 0)
    BY <1>3, <2>1, KeptFacts
  <2>3. r = Refused \/ r = [Priced(e, label) EXCEPT !.bids = bids, !.asks = asks]
    BY <2>2 DEF BookOf
  <2> HIDE DEF e, label, r
  <2>4. /\ r \in ReadResults
        /\ r.ok => r.label = label /\ r.of = e.name /\ r.bids = bids /\ r.asks = asks
    <3>1. CASE r = Refused
      BY <3>1, IdleFormed DEF Refused
    <3>2. CASE r = [Priced(e, label) EXCEPT !.bids = bids, !.asks = asks]
      <4>1. Priced(e, label) \in ReadResults /\ Priced(e, label).label = label /\ Priced(e, label).of = e.name
        BY <2>1, PricedTyped
      <4>2. QED
        BY <3>2, <4>1 DEF ReadResults
    <3>3. QED
      BY <2>3, <3>1, <3>2
  <2>5. PICK x \in Calls : /\ x = Done(r) /\ x.error # "refused"
                           /\ r.ok => x.status = "done" /\ x.result = r
                           /\ ~r.ok => x.status = "failed"
    BY <1>1, <2>4, DoneTyped
  <2>6. Answered([x EXCEPT !.there = d], full)
    BY <1>7, <1>10, <1>13, <2>5 DEF r
  <2>7. CASE ~r.ok
    BY <1>11, <2>5, <2>6, <2>7
  <2>8. CASE r.ok
    <3>1. PICK c \in Calls : /\ c = [x EXCEPT !.there = d] /\ c.status = "done" /\ c.error # "refused"
                             /\ c.result = r /\ c.there = d
      <4>1. x.status = "done" /\ x.result = r /\ x.error # "refused"
        BY <2>5, <2>8
      <4>2. [x EXCEPT !.there = d] \in Calls
        BY <1>6 DEF Calls
      <4>3. /\ [x EXCEPT !.there = d].status = x.status /\ [x EXCEPT !.there = d].error = x.error
            /\ [x EXCEPT !.there = d].result = x.result /\ [x EXCEPT !.there = d].there = d
        BY DEF Calls
      <4>4. QED
        BY <4>1, <4>2, <4>3
    <3>2. Answered(c, full)
      BY <2>6, <3>1
    <3>a. CallInv' /\ ListInv'
      BY <1>1, <3>1, <3>2, AnswerEnds
    <3>b. /\ ReadsTyped' /\ RunnerInv' /\ PassedChecksHeldData'
          /\ call' = [c EXCEPT !.odd = ~call.odd] /\ held' = full
          /\ UNCHANGED <<read, venue>> /\ todo' # <<>>
      BY <1>1, <3>2, AnswerGoesOn DEF fixedVars
    <3>c. call'.status = c.status /\ call'.result = c.result /\ call'.there = c.there
      BY <3>b DEF Calls
    <3>3. /\ CallInv' /\ ListInv' /\ ReadsTyped' /\ RunnerInv' /\ PassedChecksHeldData'
          /\ call'.status = "done" /\ call'.result = r /\ call'.there = d /\ held' = full
          /\ UNCHANGED <<read, venue>> /\ todo' # <<>>
      BY <3>1, <3>a, <3>b, <3>c
    <3>4. LabelsAreTrue'
      <4>1. venue \notin Unnamed("book") => label = e.name
        <5>1. SUFFICES ASSUME venue \notin Unnamed("book"), plan.label # "own" PROVE e.name = Asked
          BY DEF label
        <5>2. Len(a) = 1 /\ a[1].name = Asked
          BY <1>2, <1>13, <5>1, BookNames DEF plan
        <5>3. a # <<>>
          <6>1. Len(<<>>) # 1
            OBVIOUS
          <6>2. QED
            BY <5>2, <6>1, Zenon
        <5>4. QED
          BY <5>2, <5>3 DEF e, Object
      <4>2. QED
        BY <1>1, <2>4, <2>8, <3>3, <4>1 DEF LabelsAreTrue, Finished, Unnamed
    <3>5. SizesAreExact'
      <4>1. SUFFICES ASSUME read.limit > 0, r.of = Asked
                     PROVE  r.bids = Least(read.limit, d.bids) /\ r.asks = Least(read.limit, d.asks)
        BY <1>1, <3>3 DEF SizesAreExact, Finished
      <4>2. 1 \in 1..Len(a) /\ e = a[1] /\ a[1].name = Asked
        BY <1>8, <2>1, <2>4, <2>8, <4>1, NamesDiffer
      <4>3. e.bids = Sent(Ask, d.bids) /\ e.asks = Sent(Ask, d.asks)
        BY <1>8, <4>2
      <4>4. \A n \in Nat : Kept(Sent(Ask, n), plan.keep) = Least(read.limit, n)
        BY <1>3, <1>4, <4>1 DEF BookFits, Exact
      <4>5. QED
        BY <1>6, <2>2, <2>4, <2>8, <4>3, <4>4
    <3>6. MarketsAreComplete'
      BY <1>1, <3>3 DEF MarketsAreComplete, Finished
    <3>7. HasEvidence' => held'
      <4>1. HasEvidence' <=> checkOrderBook'
        BY <1>1, <3>3 DEF HasEvidence
      <4>2. checkOrderBook' => e.bids > 0 /\ e.asks > 0
        BY <2>2, <2>4, <2>8, <3>3 DEF checkOrderBook
      <4>3. (e.bids > 0 /\ e.asks > 0) => full
        BY <1>9, <2>1, NamesDiffer
      <4>4. QED
        BY <3>3, <4>1, <4>2, <4>3
    <3>8. QED
      BY <3>3, <3>4, <3>5, <3>6, <3>7 DEF ReadsInv, DoneInv
  <2>9. QED
    BY <2>7, <2>8
<1>14. QED
  BY <1>12, <1>13

\* The answer to a request for trades keeps the invariant.
LEMMA TradesStep ==
  ASSUME ReadsInv, AnswerTrades
  PROVE  ReadsInv'
<1>1. MayAnswer /\ read.kind = "trades" /\ Running /\ Sendable
  BY DEF AnswerTrades, MayAnswer
<1>2. ReadsTyped /\ venue \in AllVenues /\ read.limit \in Nat
  BY <1>1, ReadTyped DEF ReadsInv, ReadsTyped, Running
<1> DEFINE plan == TradesPlan(read.limit)
<1>3. TradesFit(plan, Accepts, read.limit) /\ plan.ask \in Nat /\ plan.keep \in Nat \cup {Every}
  BY <1>2, TradesAllFit DEF TradesFit
<1>4. Ask = plan.ask /\ read.limit <= 100
  BY <1>1 DEF Ask, Sendable, Sized, Validate
<1> HIDE DEF plan
<1>5. PICK n \in Tapes :
        LET Entry1(m) == [About(m) EXCEPT !.rows =
                            IF venue = "htx" THEN Least(n, 2 * Sent(Ask, n)) ELSE Sent(Ask, n)]
        IN \E a \in Answers(Entry1) :
             Answered([IF Serves("trades", a) THEN Done(TradesOf(plan, a)) ELSE EndedWith("api")
                         EXCEPT !.there.rows = n],
                      Holds(a, LAMBDA e : e.rows > 0))
  BY DEF AnswerTrades, plan
<1>6. n \in Nat
  BY RunsAssumption
<1>s. PICK sum \in Nat : sum = IF venue = "htx" THEN Least(n, 2 * Sent(Ask, n)) ELSE Sent(Ask, n)
  <2>1. Sent(Ask, n) \in Nat
    BY <1>3, <1>4, <1>6, SentTyped
  <2>2. QED
    BY <1>6, <2>1 DEF Least
<1> DEFINE Entry1(m) == [About(m) EXCEPT !.rows =
                           IF venue = "htx" THEN Least(n, 2 * Sent(Ask, n)) ELSE Sent(Ask, n)]
<1>7. PICK a \in Answers(Entry1) :
        Answered([IF Serves("trades", a) THEN Done(TradesOf(plan, a)) ELSE EndedWith("api") EXCEPT !.there.rows = n],
                 Holds(a, LAMBDA e : e.rows > 0))
  BY <1>5
<1>8. a \in Seq(Rows) /\ \A i \in 1..Len(a) : a[i].name = Asked => a[i].rows = sum
  <2>1. /\ Entry1(Asked) \in Rows /\ Entry1(Asked).name = Asked /\ Entry1(Asked).rows = sum
        /\ Entry1(Other) \in Rows /\ Entry1(Other).name = Other
    BY <1>s, NamesDiffer DEF About, Rows
  <2>2. a \in AnswersFrom(Entry1(Asked), Entry1(Other))
    BY <1>7 DEF Answers, AnswersFrom
  <2> HIDE DEF Entry1
  <2>3. Formed(a, Entry1(Asked))
    BY <2>1, <2>2, AnswersFormed, RunsAssumption
  <2>4. QED
    BY <2>1, <2>3 DEF Formed
<1>9. PICK full \in BOOLEAN : full <=> \E i \in DOMAIN a : a[i].rows > 0
  OBVIOUS
<1>10. full = Holds(a, LAMBDA e : e.rows > 0)
  BY <1>9 DEF Holds
<1>t. ASSUME NEW x \in Calls
      PROVE  /\ [x EXCEPT !.there.rows = n] \in Calls
             /\ [x EXCEPT !.there.rows = n].status = x.status /\ [x EXCEPT !.there.rows = n].error = x.error
             /\ [x EXCEPT !.there.rows = n].result = x.result /\ [x EXCEPT !.there.rows = n].there.rows = n
  BY <1>6 DEF Calls
<1>11. ASSUME NEW x \in Calls, x.status = "failed", x.error # "refused",
              Answered([x EXCEPT !.there.rows = n], full)
       PROVE  ReadsInv'
  <2>1. PICK c \in Calls : c = [x EXCEPT !.there.rows = n] /\ c.status = "failed" /\ c.error # "refused"
    BY <1>t, <1>11
  <2>2. Answered(c, full)
    BY <1>11, <2>1
  <2>3. QED
    BY <1>1, <2>1, <2>2, AnswerEnds
<1>12. CASE ~Serves("trades", a)
  <2>1. PICK x \in Calls : x = EndedWith("api") /\ x.status = "failed" /\ x.error # "refused"
    BY <1>1, IdleFormed, DoneTyped
  <2>2. Answered([x EXCEPT !.there.rows = n], full)
    BY <1>7, <1>10, <1>12, <2>1
  <2>3. QED
    BY <1>11, <2>1, <2>2
<1>13. CASE Serves("trades", a)
  <2> DEFINE e == Object(a)
             r == TradesOf(plan, a)
  <2>1. e \in Rows /\ e.rows \in Nat /\ (e = Blank \/ (1 \in DOMAIN a /\ e = a[1]))
    BY <1>8, ObjectFacts DEF Rows
  <2>2. PICK rows \in Nat : rows = Kept(e.rows, plan.keep) /\ (rows > 0 => e.rows > 0)
    BY <1>3, <2>1, KeptFacts
  <2>3. r = Refused \/ r = [Priced(e, NoName) EXCEPT !.rows = rows]
    BY <2>2 DEF TradesOf
  <2> HIDE DEF e, r
  <2>4. r \in ReadResults /\ (r.ok => r.of = e.name /\ r.rows = rows)
    <3>1. CASE r = Refused
      BY <3>1, IdleFormed DEF Refused
    <3>2. CASE r = [Priced(e, NoName) EXCEPT !.rows = rows]
      <4>1. Priced(e, NoName) \in ReadResults /\ Priced(e, NoName).of = e.name
        BY <2>1, PricedTyped
      <4>2. QED
        BY <3>2, <4>1 DEF ReadResults
    <3>3. QED
      BY <2>3, <3>1, <3>2
  <2>5. PICK x \in Calls : /\ x = Done(r) /\ x.error # "refused"
                           /\ r.ok => x.status = "done" /\ x.result = r
                           /\ ~r.ok => x.status = "failed"
    BY <1>1, <2>4, DoneTyped
  <2>6. Answered([x EXCEPT !.there.rows = n], full)
    BY <1>7, <1>10, <1>13, <2>5 DEF r
  <2>7. CASE ~r.ok
    BY <1>11, <2>5, <2>6, <2>7
  <2>8. CASE r.ok
    <3>1. PICK c \in Calls : /\ c = [x EXCEPT !.there.rows = n] /\ c.status = "done" /\ c.error # "refused"
                             /\ c.result = r /\ c.there.rows = n
      <4>1. [x EXCEPT !.there.rows = n] \in Calls /\ [x EXCEPT !.there.rows = n].there.rows = n
        BY <1>t, <2>5
      <4>2. /\ [x EXCEPT !.there.rows = n].status = "done" /\ [x EXCEPT !.there.rows = n].result = r
            /\ [x EXCEPT !.there.rows = n].error = x.error
        BY <2>5, <2>8 DEF Calls
      <4>3. QED
        BY <2>5, <4>1, <4>2
    <3>2. Answered(c, full)
      BY <2>6, <3>1
    <3>a. CallInv' /\ ListInv'
      BY <1>1, <3>1, <3>2, AnswerEnds
    <3>b. /\ ReadsTyped' /\ RunnerInv' /\ PassedChecksHeldData'
          /\ call' = [c EXCEPT !.odd = ~call.odd] /\ held' = full
          /\ UNCHANGED <<read, venue>> /\ todo' # <<>>
      BY <1>1, <3>2, AnswerGoesOn DEF fixedVars
    <3>c. call'.status = c.status /\ call'.result = c.result /\ call'.there = c.there
      BY <3>b DEF Calls
    <3>3. SizesAreExact'
      <4>1. SUFFICES ASSUME read.limit > 0, r.of = Asked PROVE r.rows = Least(read.limit, n)
        BY <1>1, <3>1, <3>b, <3>c DEF SizesAreExact, Finished
      <4>2. 1 \in 1..Len(a) /\ e = a[1] /\ a[1].name = Asked
        BY <1>8, <2>1, <2>4, <2>8, <4>1, NamesDiffer
      <4>3. e.rows = sum
        BY <1>8, <4>2
      <4>4. Kept(sum, plan.keep) = Least(read.limit, n)
        <5>1. CASE venue = "htx"
          BY <1>3, <1>4, <1>6, <1>s, <4>1, <5>1 DEF TradesFit
        <5>2. CASE venue # "htx"
          BY <1>3, <1>4, <1>6, <1>s, <4>1, <5>2 DEF TradesFit, Exact
        <5>3. QED
          BY <5>1, <5>2
      <4>5. QED
        BY <2>2, <2>4, <2>8, <4>3, <4>4
    <3>4. LabelsAreTrue' /\ MarketsAreComplete'
      BY <1>1, <3>b DEF LabelsAreTrue, MarketsAreComplete, Finished
    <3>5. HasEvidence' => held'
      <4>1. HasEvidence' <=> checkRecentTrades'
        BY <1>1, <3>b DEF HasEvidence
      <4>2. checkRecentTrades' => e.rows > 0
        BY <2>2, <2>4, <2>8, <3>1, <3>c DEF checkRecentTrades
      <4>3. e.rows > 0 => full
        BY <1>9, <2>1, NamesDiffer
      <4>4. QED
        BY <3>b, <4>1, <4>2, <4>3
    <3>6. QED
      BY <3>a, <3>b, <3>3, <3>4, <3>5 DEF ReadsInv, DoneInv
  <2>9. QED
    BY <2>7, <2>8
<1>14. QED
  BY <1>12, <1>13

\* The answer to a request for balances keeps the invariant.
LEMMA BalancesStep ==
  ASSUME ReadsInv, AnswerBalances
  PROVE  ReadsInv'
<1>1. MayAnswer /\ read.kind = "balances" /\ Running
  BY DEF AnswerBalances, MayAnswer
<1>2. PICK fine \in BOOLEAN :
        Answered([call EXCEPT !.status = "done", !.ended = now, !.result.ok = TRUE, !.result.price = fine], fine)
  BY DEF AnswerBalances
<1>3. call \in Calls /\ now \in Nat /\ call.error # "refused"
  BY <1>1 DEF ReadsInv, ReadsTyped, CallInv, Running
<1>4. PICK c \in Calls :
        /\ c = [call EXCEPT !.status = "done", !.ended = now, !.result.ok = TRUE, !.result.price = fine]
        /\ c.status = "done" /\ c.error # "refused" /\ c.result.price = fine
  <2> DEFINE c == [call EXCEPT !.status = "done", !.ended = now, !.result.ok = TRUE, !.result.price = fine]
  <2>1. call.result \in ReadResults
    BY <1>3 DEF Calls
  <2>2. [call.result EXCEPT !.ok = TRUE, !.price = fine] \in ReadResults
    BY <2>1 DEF ReadResults
  <2>3. c \in Calls /\ c.status = "done" /\ c.error = call.error /\ c.result.price = fine
    BY <1>3, <2>1, <2>2 DEF Calls, ReadResults
  <2>4. QED
    BY <1>3, <2>3
<1>5. Answered(c, fine)
  BY <1>2, <1>4
<1>6. CallInv' /\ ListInv'
  BY <1>1, <1>4, <1>5, AnswerEnds
<1>7. /\ ReadsTyped' /\ RunnerInv' /\ PassedChecksHeldData'
      /\ call' = [c EXCEPT !.odd = ~call.odd] /\ held' = fine
      /\ UNCHANGED read /\ todo' # <<>>
  BY <1>1, <1>5, AnswerGoesOn
<1>8. call'.result = c.result
  BY <1>7 DEF Calls
<1>9. DoneInv'
  <2>1. SizesAreExact' /\ LabelsAreTrue' /\ MarketsAreComplete'
    BY <1>1, <1>7 DEF SizesAreExact, LabelsAreTrue, MarketsAreComplete, Finished
  <2>2. HasEvidence' <=> checkBalances'
    BY <1>1, <1>7 DEF HasEvidence
  <2>3. checkBalances' => fine
    BY <1>4, <1>8 DEF checkBalances
  <2>4. QED
    BY <1>7, <2>1, <2>2, <2>3 DEF DoneInv
<1>10. QED
  BY <1>6, <1>7, <1>9 DEF ReadsInv

-----------------------------------------------------------------------------
(* The listing. *)

\* What Take makes of entries that are all wanted, good or not.
Taken(l, wanted, good) ==
  IF good THEN [l EXCEPT !.listed = @ \cup wanted, !.ids = @ \cup {e.name : e \in wanted}]
  ELSE [l EXCEPT !.status = "failed"]

\* Taking the entries of a page keeps the listing well formed.
LEMMA TakenTyped ==
  ASSUME NEW l \in Lists, NEW wanted \in SUBSET Entries, NEW good \in BOOLEAN
  PROVE  LET t == Taken(l, wanted, good) IN
           /\ t \in Lists /\ t.at = l.at /\ t.seen = l.seen
           /\ good => /\ t.status = l.status /\ t.listed = l.listed \cup wanted
                      /\ \A e \in wanted : e.name \in t.ids
           /\ ~good => t.status = "failed"
<1>1. PICK names \in SUBSET STRING : names = {e.name : e \in wanted} /\ \A e \in wanted : e.name \in names
  <2>1. {e.name : e \in wanted} \in SUBSET STRING
    BY DEF Entries
  <2>2. QED
    BY <2>1
<1>a. l.listed \cup wanted \in SUBSET Entries /\ l.ids \cup names \in SUBSET STRING
  BY DEF Lists
<1>2. CASE good
  <2>1. Taken(l, wanted, good) = [l EXCEPT !.listed = l.listed \cup wanted, !.ids = l.ids \cup names]
    BY <1>1, <1>2 DEF Taken
  <2>2. QED
    BY <1>1, <1>a, <1>2, <2>1 DEF Lists
<1>3. CASE ~good
  BY <1>3 DEF Taken, Lists
<1>4. QED
  BY <1>2, <1>3

\* Ending a listing keeps it well formed.
LEMMA WholeTyped ==
  ASSUME NEW t \in Lists
  PROVE  LET l == Whole(t) IN
           /\ l \in Lists /\ l.listed = t.listed
           /\ l.status = IF t.status = "failed" THEN "failed" ELSE "listed"
  BY DEF Whole, Lists

\* The spot markets of the listing by the names that the adapter goes by.
SpotMarkets == {e \in Range(listing) : e.spot /\ e.named}

\* A listing that came at once is failed or complete.
Complete(l) ==
  /\ l \in Lists /\ l.status \in {"listed", "failed"}
  /\ l.status = "listed" =>
       /\ l.listed = SpotMarkets
       /\ venue \in {"gateio", "kucoin", "htx", "mexc", "cryptocom"} => \A e \in l.listed : e.fits

\* A listing taken in one piece has all its spot markets, or fails.
LEMMA WholeIsComplete ==
  ASSUME listing \in Seq(Entries), NEW wanted, wanted = SpotMarkets, NEW good \in BOOLEAN,
         (good /\ venue \in {"gateio", "kucoin", "htx", "mexc", "cryptocom"}) => \A e \in wanted : e.fits
  PROVE  Complete(Whole(Taken(NoListing, wanted, good)))
<1>1. wanted \in SUBSET Entries
  BY DEF SpotMarkets, Range
<1>2. NoListing \in Lists /\ NoListing.listed = {} /\ NoListing.status = "running"
  BY DEF NoListing, Lists
<1>3. PICK t \in Lists : /\ t = Taken(NoListing, wanted, good)
                         /\ good => t.status = "running" /\ t.listed = wanted
                         /\ ~good => t.status = "failed"
  <2> DEFINE t == Taken(NoListing, wanted, good)
  <2>1. /\ t \in Lists
        /\ good => t.status = NoListing.status /\ t.listed = NoListing.listed \cup wanted
        /\ ~good => t.status = "failed"
    BY <1>1, <1>2, TakenTyped
  <2>2. NoListing.listed \cup wanted = wanted
    BY <1>2
  <2> HIDE DEF t
  <2>3. t \in Lists /\ (good => t.status = "running" /\ t.listed = wanted) /\ (~good => t.status = "failed")
    BY <1>2, <2>1, <2>2
  <2>4. QED
    BY <2>3 DEF t
<1>4. PICK l \in Lists : /\ l = Whole(t) /\ l.listed = t.listed
                         /\ l.status = IF t.status = "failed" THEN "failed" ELSE "listed"
  BY WholeTyped
<1>5. CASE good
  BY <1>3, <1>4, <1>5 DEF Complete
<1>6. CASE ~good
  BY <1>3, <1>4, <1>6 DEF Complete
<1>7. QED
  BY <1>5, <1>6

\* The adapters that read their markets in one answer list all of them, or fail.
LEMMA OnePageIsComplete ==
  ASSUME listing \in Seq(Entries), \A i \in 1..Len(listing) : ListedBy(listing[i]),
         venue \in AllVenues, venue \notin {"bybit", "coinbase"}, NEW p, p.items = listing
  PROVE  Complete(MarketsOf(NoListing, p))
<1> DEFINE all == {listing[i] : i \in DOMAIN listing}
           spots == {listing[i] : i \in {j \in DOMAIN listing : listing[j].spot}}
           names == {listing[i] : i \in {j \in DOMAIN listing : listing[j].named}}
<1>0. DOMAIN listing = 1..Len(listing)
  OBVIOUS
<1>1. venue \notin {"binance", "cryptocom", "kraken"} => all = SpotMarkets
  BY <1>0 DEF SpotMarkets, Range, ListedBy
<1>2. venue \in {"binance", "cryptocom"} => spots = SpotMarkets
  BY <1>0 DEF SpotMarkets, Range, ListedBy
<1>3. venue = "kraken" => names = SpotMarkets
  BY <1>0 DEF SpotMarkets, Range, ListedBy
<1>4. /\ Take(NoListing, listing, Any, Any) = Taken(NoListing, all, TRUE)
      /\ Take(NoListing, listing, Any, HasRules) = Taken(NoListing, all, \A e \in all : e.rules)
      /\ Take(NoListing, listing, Any, Readable) = Taken(NoListing, all, \A e \in all : e.reads)
      /\ Take(NoListing, listing, Any, Fits) = Taken(NoListing, all, \A e \in all : e.reads /\ e.fits)
      /\ Take(NoListing, listing, Any, LAMBDA e : Fits(e) /\ HasRules(e)) =
           Taken(NoListing, all, \A e \in all : (e.reads /\ e.fits) /\ e.rules)
  BY DEF Take, Taken, Any, HasRules, Readable, Fits
<1>5. /\ Take(NoListing, listing, IsSpot, HasRules) = Taken(NoListing, spots, \A e \in spots : e.rules)
      /\ Take(NoListing, listing, IsSpot, Fits) = Taken(NoListing, spots, \A e \in spots : e.reads /\ e.fits)
      /\ Take(NoListing, listing, IsNamed, Readable) = Taken(NoListing, names, \A e \in names : e.reads)
  BY DEF Take, Taken, IsSpot, IsNamed, HasRules, Readable, Fits
<1> HIDE DEF all, spots, names
<1>6. CASE venue = "okx"
  <2>1. MarketsOf(NoListing, p) = Whole(Taken(NoListing, all, TRUE))
    BY <1>4, <1>6 DEF MarketsOf, OkxMarkets
  <2>2. QED
    BY <1>1, <1>6, <2>1, WholeIsComplete
<1>7. CASE venue = "bitget"
  <2>1. MarketsOf(NoListing, p) = Whole(Taken(NoListing, all, \A e \in all : e.rules))
    BY <1>4, <1>7 DEF MarketsOf, BitgetMarkets
  <2>2. QED
    BY <1>1, <1>7, <2>1, WholeIsComplete
<1>8. CASE venue \in {"korbit", "coinone", "bithumb", "upbit"}
  <2>1. MarketsOf(NoListing, p) = Whole(Taken(NoListing, all, \A e \in all : e.reads))
    BY <1>4, <1>8 DEF MarketsOf, KorbitMarkets, CoinoneMarkets, BithumbMarkets, UpbitMarkets
  <2>2. QED
    BY <1>1, <1>8, <2>1, WholeIsComplete
<1>9. CASE venue \in {"gateio", "kucoin", "htx"}
  <2>1. MarketsOf(NoListing, p) = Whole(Taken(NoListing, all, \A e \in all : e.reads /\ e.fits))
    BY <1>4, <1>9 DEF MarketsOf, GateioMarkets, KucoinMarkets, HtxMarkets
  <2>2. QED
    BY <1>1, <1>9, <2>1, WholeIsComplete
<1>10. CASE venue = "mexc"
  <2>1. MarketsOf(NoListing, p) = Whole(Taken(NoListing, all, \A e \in all : (e.reads /\ e.fits) /\ e.rules))
    BY <1>4, <1>10 DEF MarketsOf, MexcMarkets
  <2>2. QED
    BY <1>1, <1>10, <2>1, WholeIsComplete
<1>11. CASE venue = "binance"
  <2>1. MarketsOf(NoListing, p) = Whole(Taken(NoListing, spots, \A e \in spots : e.rules))
    BY <1>5, <1>11 DEF MarketsOf, BinanceMarkets
  <2>2. QED
    BY <1>2, <1>11, <2>1, WholeIsComplete
<1>12. CASE venue = "cryptocom"
  <2>1. MarketsOf(NoListing, p) = Whole(Taken(NoListing, spots, \A e \in spots : e.reads /\ e.fits))
    BY <1>5, <1>12 DEF MarketsOf, CryptocomMarkets
  <2>2. QED
    BY <1>2, <1>12, <2>1, WholeIsComplete
<1>13. CASE venue = "kraken"
  <2>1. MarketsOf(NoListing, p) = Whole(Taken(NoListing, names, \A e \in names : e.reads))
    BY <1>5, <1>13 DEF MarketsOf, KrakenMarkets
  <2>2. QED
    BY <1>3, <1>13, <2>1, WholeIsComplete
<1>14. QED
  BY <1>6, <1>7, <1>8, <1>9, <1>10, <1>11, <1>12, <1>13 DEF AllVenues

\* A page of Bybit or Coinbase: the next entries, or the first ones again.
LEMMA PageFacts ==
  ASSUME listing \in Seq(Entries), venue \in {"bybit", "coinbase"}, call.list.at \in Nat,
         NEW from \in Nat, from = IF stuck THEN 0 ELSE call.list.at, from <= Len(listing)
  PROVE  \E last \in Nat :
           /\ from <= last /\ last <= Len(listing) /\ last <= from + MarketPage
           /\ last = Len(listing) \/ last = from + MarketPage
           /\ ListingPage.next = IF last < Len(listing) THEN last ELSE 0
           /\ ListingPage.items \in Seq(Entries) /\ Len(ListingPage.items) = last - from
           /\ \A i \in 1..(last - from) : ListingPage.items[i] = listing[from + i]
           /\ {ListingPage.items[i] : i \in DOMAIN ListingPage.items} = {listing[i] : i \in (from + 1)..last}
<1>1. MarketPage \in Nat /\ Len(listing) \in Nat
  BY ReadsAssumption
<1>2. PICK last \in Nat : /\ last = Least(Len(listing), from + MarketPage)
                          /\ from <= last /\ last <= Len(listing) /\ last <= from + MarketPage
                          /\ last = Len(listing) \/ last = from + MarketPage
  BY <1>1 DEF Least
<1>3. ListingPage = [items |-> SubSeq(listing, from + 1, last), next |-> IF last < Len(listing) THEN last ELSE 0]
  BY <1>2 DEF ListingPage
<1> DEFINE items == SubSeq(listing, from + 1, last)
<1>4. /\ items \in Seq(Entries) /\ Len(items) = last - from
      /\ \A i \in 1..(last - from) : items[i] = listing[from + i]
  <2>1. PICK first \in Nat : first = from + 1
    OBVIOUS
  <2>2. \A i \in first..last : listing[i] \in Entries
    BY <1>1, <1>2, <2>1
  <2>3. first \in Int /\ last \in Int
    BY <1>2
  <2>4. /\ SubSeq(listing, first, last) \in Seq(Entries)
        /\ Len(SubSeq(listing, first, last)) = IF first <= last THEN last - first + 1 ELSE 0
        /\ \A i \in 1..(last - first + 1) : SubSeq(listing, first, last)[i] = listing[first + i - 1]
    BY <2>2, <2>3, SubSeqProperties
  <2>5. items = SubSeq(listing, first, last)
    BY <2>1
  <2> HIDE DEF items
  <2>6. \A i \in 1..(last - from) : first + i - 1 = from + i /\ i \in 1..(last - first + 1)
    <3>1. last - first + 1 = last - from
      BY <2>1, SMTT(30)
    <3>2. ASSUME NEW i \in 1..(last - from)
          PROVE  first + i - 1 = from + i
      <4>1. i \in Int
        OBVIOUS
      <4>2. QED
        BY <2>1, <4>1
    <3>3. QED
      BY <3>1, <3>2
  <2>7. Len(items) = last - from
    <3>1. from <= last
      BY <1>2
    <3>2. (IF first <= last THEN last - first + 1 ELSE 0) = last - from
      BY <2>1, <3>1, SMTT(30)
    <3>3. QED
      BY <2>4, <2>5, <3>2
  <2>8. QED
    BY <2>4, <2>5, <2>6, <2>7
<1>5. ListingPage.items = items /\ ListingPage.next = IF last < Len(listing) THEN last ELSE 0
  BY <1>3
<1> HIDE DEF items
<1>6. DOMAIN items = 1..(last - from)
  BY <1>4
<1>7. {items[i] : i \in DOMAIN items} = {listing[i] : i \in (from + 1)..last}
  <2>1. ASSUME NEW i \in (from + 1)..last PROVE \E j \in DOMAIN items : items[j] = listing[i]
    <3>1. i - from \in 1..(last - from) /\ from + (i - from) = i
      BY <1>2
    <3>2. QED
      BY <1>4, <1>6, <3>1
  <2>2. ASSUME NEW j \in DOMAIN items PROVE \E i \in (from + 1)..last : items[j] = listing[i]
    <3>1. from + j \in (from + 1)..last
      BY <1>2, <1>6
    <3>2. QED
      BY <1>4, <1>6, <3>1
  <2>3. QED
    BY <2>1, <2>2
<1>8. /\ ListingPage.items \in Seq(Entries) /\ Len(ListingPage.items) = last - from
      /\ \A i \in 1..(last - from) : ListingPage.items[i] = listing[from + i]
      /\ {ListingPage.items[i] : i \in DOMAIN ListingPage.items} = {listing[i] : i \in (from + 1)..last}
  BY <1>4, <1>5, <1>7
<1>9. QED
  BY <1>2, <1>5, <1>8

\* What a page makes of the listing so far: it ends it well or not, or it is another page
\* of it, and an exchange that repeats its first page does not go unnoticed.
PageTaken(l) ==
  /\ l \in Lists
  /\ l.status = "listed" => l.listed = SpotMarkets
  /\ (l.status = "running" /\ ~stuck) =>
       l.at <= Len(listing) /\ l.listed = {listing[i] : i \in 1..l.at}
  /\ (l.status = "running" /\ stuck /\ venue = "bybit") => MarketPage < Len(listing) /\ MarketPage \in l.seen
  /\ (l.status = "running" /\ stuck /\ venue = "coinbase") =>
       MarketPage <= Len(listing) /\ listing[1].name \in l.ids

\* Bybit's and Coinbase's pages are taken one after the other, and a page that repeats
\* fails the listing.
LEMMA PagesAreTaken ==
  ASSUME ReadsInv, Running, read.kind = "markets", venue \in {"bybit", "coinbase"}
  PROVE  PageTaken(MarketsOf(call.list, ListingPage))
<1> DEFINE l == call.list
           p == ListingPage
<1>1. /\ listing \in Seq(Entries) /\ \A i \in 1..Len(listing) : ListedBy(listing[i])
      /\ l \in Lists /\ l.at \in Nat /\ l.seen \in SUBSET Nat /\ stuck \in BOOLEAN /\ Len(listing) \in Nat
      /\ MarketPage \in Nat \ {0}
  <2>1. listing \in Seq(Entries) /\ (\A i \in 1..Len(listing) : ListedBy(listing[i])) /\ stuck \in BOOLEAN
    BY DEF ReadsInv, ReadsTyped
  <2>2. l \in Lists
    BY DEF ReadsInv, ReadsTyped, Calls
  <2>3. MarketPage \in Nat \ {0}
    BY ReadsAssumption
  <2>4. QED
    BY <2>1, <2>2, <2>3 DEF Lists
<1>2. /\ l.status = "running"
      /\ ~stuck => l.at <= Len(listing) /\ l.listed = {listing[i] : i \in 1..l.at}
      /\ (venue = "bybit" /\ stuck) => \/ l.at = 0 /\ l.listed = {} /\ l.seen = {}
                                       \/ MarketPage < Len(listing) /\ MarketPage \in l.seen
      /\ (venue = "coinbase" /\ stuck) => \/ l.at = 0 /\ l.listed = {}
                                          \/ MarketPage <= Len(listing) /\ listing[1].name \in l.ids
  BY DEF ReadsInv, ListInv, ListedSoFar, Running
<1>3. PICK from \in Nat : from = (IF stuck THEN 0 ELSE l.at) /\ from <= Len(listing)
  BY <1>1, <1>2
<1>4. PICK last \in Nat :
        /\ from <= last /\ last <= Len(listing) /\ last <= from + MarketPage
        /\ last = Len(listing) \/ last = from + MarketPage
        /\ p.next = IF last < Len(listing) THEN last ELSE 0
        /\ p.items \in Seq(Entries) /\ Len(p.items) = last - from
        /\ \A i \in 1..(last - from) : p.items[i] = listing[from + i]
        /\ {p.items[i] : i \in DOMAIN p.items} = {listing[i] : i \in (from + 1)..last}
  BY <1>1, <1>3, PageFacts
<1> DEFINE wanted == {p.items[i] : i \in DOMAIN p.items}
<1>5. wanted \in SUBSET Entries /\ wanted = {listing[i] : i \in (from + 1)..last}
  <2>1. wanted = {listing[i] : i \in (from + 1)..last}
    BY <1>4
  <2>2. \A i \in (from + 1)..last : listing[i] \in Entries
    BY <1>1, <1>3, <1>4
  <2>3. QED
    BY <2>1, <2>2
<1>6. SpotMarkets = {listing[i] : i \in 1..Len(listing)}
  BY <1>1 DEF SpotMarkets, Range, ListedBy
<1> HIDE DEF l, p, wanted
<1>7. ~stuck => l.listed \cup wanted = {listing[i] : i \in 1..last}
  BY <1>1, <1>2, <1>3, <1>4, <1>5, SMTT(30)
<1>8. stuck => wanted = {listing[i] : i \in 1..last}
  BY <1>3, <1>5
<1>9. ASSUME NEW t \in Lists, t.listed = l.listed \cup wanted, last = Len(listing),
             stuck => l.listed = {}
      PROVE  t.listed = SpotMarkets
  BY <1>1, <1>6, <1>7, <1>8, <1>9
<1>10. CASE venue = "bybit"
  <2>1. PICK t \in Lists :
          /\ t = Taken(l, wanted, TRUE) /\ t.status = "running" /\ t.listed = l.listed \cup wanted
          /\ t.at = l.at /\ t.seen = l.seen
    <3> DEFINE u == Taken(l, wanted, TRUE)
    <3>1. u \in Lists /\ u.status = l.status /\ u.listed = l.listed \cup wanted /\ u.at = l.at /\ u.seen = l.seen
      BY <1>1, <1>5, TakenTyped
    <3> HIDE DEF u
    <3>2. u.status = "running"
      BY <1>2, <3>1
    <3>3. QED
      BY <3>1, <3>2 DEF u
  <2>2. Take(l, p.items, Any, Any) = t
    BY <2>1 DEF Take, Taken, Any, wanted
  <2>3. MarketsOf(l, p) = BybitMarkets(l, p)
    BY <1>10 DEF MarketsOf
  <2>4. CASE p.next = 0
    <3>1. MarketsOf(l, p) = Whole(t)
      BY <2>2, <2>3, <2>4 DEF BybitMarkets
    <3>2. last = Len(listing) /\ (stuck => l.listed = {})
      BY <1>1, <1>2, <1>3, <1>4, <1>10, <2>4
    <3>3. t.listed = SpotMarkets
      BY <1>9, <2>1, <3>2
    <3>4. PICK w \in Lists : w = Whole(t) /\ w.listed = t.listed /\ w.status = "listed"
      BY <2>1, WholeTyped
    <3>5. PageTaken(w)
      BY <3>3, <3>4 DEF PageTaken
    <3>6. QED
      BY <3>1, <3>4, <3>5 DEF l, p
  <2>5. CASE p.next # 0 /\ p.next \in l.seen
    <3>1. MarketsOf(l, p) = [t EXCEPT !.status = "failed"]
      BY <2>2, <2>3, <2>5 DEF BybitMarkets
    <3>2. PageTaken([t EXCEPT !.status = "failed"])
      BY DEF PageTaken, Lists
    <3>3. QED
      BY <3>1, <3>2 DEF l, p
  <2>6. CASE p.next # 0 /\ p.next \notin l.seen
    <3>1. MarketsOf(l, p) = [t EXCEPT !.seen = @ \cup {p.next}, !.at = p.next]
      BY <2>2, <2>3, <2>6 DEF BybitMarkets
    <3>2. p.next = last /\ last < Len(listing) /\ last = from + MarketPage
      BY <1>4, <2>6
    <3>3. PICK w \in Lists : /\ w = [t EXCEPT !.seen = @ \cup {p.next}, !.at = p.next]
                             /\ w.at = last /\ last \in w.seen /\ w.listed = t.listed /\ w.status = "running"
      <4>1. t.seen \cup {last} \in SUBSET Nat
        BY <1>1, <2>1
      <4> DEFINE u == [t EXCEPT !.seen = t.seen \cup {last}, !.at = last]
      <4>2. u \in Lists /\ u.at = last /\ u.seen = t.seen \cup {last} /\ u.listed = t.listed /\ u.status = t.status
        BY <4>1 DEF Lists
      <4>3. u = [t EXCEPT !.seen = @ \cup {p.next}, !.at = p.next]
        BY <3>2
      <4> HIDE DEF u
      <4>4. QED
        BY <2>1, <4>2, <4>3
    <3>4. PageTaken(w)
      <4>1. ~stuck => w.at <= Len(listing) /\ w.listed = {listing[i] : i \in 1..w.at}
        <5>1. Len(listing) \in Nat
          BY <1>1
        <5>2. last <= Len(listing)
          BY <3>2, <5>1
        <5>3. QED
          BY <1>7, <2>1, <3>3, <5>2
      <4>2. stuck => MarketPage < Len(listing) /\ MarketPage \in w.seen
        BY <1>1, <1>3, <3>2, <3>3
      <4>3. QED
        BY <1>10, <3>3, <4>1, <4>2 DEF PageTaken
    <3>5. QED
      BY <3>1, <3>3, <3>4 DEF l, p
  <2>7. QED
    BY <2>4, <2>5, <2>6
<1>11. CASE venue = "coinbase"
  <2> DEFINE good == \A e \in wanted : e.reads
             repeated == \/ \E i \in DOMAIN p.items : p.items[i].name \in l.ids
                         \/ \E i, j \in DOMAIN p.items : i # j /\ p.items[i].name = p.items[j].name
  <2>1. PICK t \in Lists :
          /\ t = Taken(l, wanted, good) /\ t.at = l.at
          /\ good => /\ t.status = "running" /\ t.listed = l.listed \cup wanted
                     /\ \A e \in wanted : e.name \in t.ids
          /\ ~good => t.status = "failed"
    <3> DEFINE u == Taken(l, wanted, good)
    <3>1. /\ u \in Lists /\ u.at = l.at
          /\ good => /\ u.status = l.status /\ u.listed = l.listed \cup wanted
                     /\ \A e \in wanted : e.name \in u.ids
          /\ ~good => u.status = "failed"
      BY <1>1, <1>5, TakenTyped
    <3> HIDE DEF u, good
    <3>2. good => u.status = "running"
      BY <1>2, <3>1
    <3>3. QED
      BY <3>1, <3>2 DEF u
  <2>2. Take(l, p.items, Any, Readable) = t
    BY <2>1 DEF Take, Taken, Any, Readable, wanted
  <2>3. MarketsOf(l, p) = CoinbaseMarkets(l, p)
    BY <1>11 DEF MarketsOf
  <2>4. MarketsOf(l, p) = IF repeated \/ t.status = "failed" THEN [l EXCEPT !.status = "failed"]
                          ELSE IF Len(p.items) < MarketPage THEN Whole(t)
                          ELSE [t EXCEPT !.at = @ + Len(p.items)]
    BY <2>2, <2>3 DEF CoinbaseMarkets
  <2>5. CASE repeated \/ t.status = "failed"
    <3>1. PageTaken([l EXCEPT !.status = "failed"])
      BY <1>1 DEF PageTaken, Lists
    <3>2. QED
      BY <2>4, <2>5, <3>1 DEF l, p
  <2>6. CASE ~repeated /\ t.status # "failed"
    <3>1. good /\ t.status = "running" /\ t.listed = l.listed \cup wanted /\ \A e \in wanted : e.name \in t.ids
      BY <2>1, <2>6
    <3>2. stuck => l.listed = {} /\ l.at = 0
      <4>1. SUFFICES ASSUME stuck, MarketPage <= Len(listing), listing[1].name \in l.ids PROVE FALSE
        BY <1>2, <1>11
      <4>2. from = 0 /\ last >= 1
        BY <1>1, <1>3, <1>4, <4>1
      <4>3. 1 \in DOMAIN p.items /\ p.items[1] = listing[1]
        BY <1>4, <4>2
      <4>4. QED
        BY <2>6, <4>1, <4>3
    <3>3. CASE Len(p.items) < MarketPage
      <4>1. MarketsOf(l, p) = Whole(t)
        BY <2>4, <2>6, <3>3
      <4>2. last = Len(listing)
        BY <1>1, <1>4, <3>3
      <4>3. t.listed = SpotMarkets
        BY <1>9, <3>1, <3>2, <4>2
      <4>4. PICK w \in Lists : w = Whole(t) /\ w.listed = t.listed /\ w.status = "listed"
        BY <3>1, WholeTyped
      <4>5. PageTaken(w)
        BY <4>3, <4>4 DEF PageTaken
      <4>6. QED
        BY <4>1, <4>4, <4>5 DEF l, p
    <3>4. CASE ~(Len(p.items) < MarketPage)
      <4>1. MarketsOf(l, p) = [t EXCEPT !.at = @ + Len(p.items)]
        BY <2>4, <2>6, <3>4
      <4>2. Len(p.items) = MarketPage /\ last = from + MarketPage
        BY <1>1, <1>4, <3>4
      <4>3. PICK w \in Lists : /\ w = [t EXCEPT !.at = @ + Len(p.items)]
                               /\ w.at = l.at + MarketPage /\ w.listed = t.listed /\ w.ids = t.ids
                               /\ w.status = "running"
        <5> DEFINE u == [t EXCEPT !.at = t.at + MarketPage]
        <5>1. t.at + MarketPage \in Nat
          <6>1. MarketPage \in Nat /\ l.at \in Nat
            BY <1>1
          <6>2. t.at = l.at
            BY <2>1
          <6>3. QED
            BY <6>1, <6>2
        <5>2. u \in Lists /\ u.at = t.at + MarketPage /\ u.listed = t.listed /\ u.ids = t.ids /\ u.status = t.status
          BY <5>1 DEF Lists
        <5>3. u = [t EXCEPT !.at = @ + Len(p.items)]
          BY <4>2
        <5> HIDE DEF u
        <5>4. QED
          BY <2>1, <3>1, <5>2, <5>3
      <4>4. ~stuck => w.at <= Len(listing) /\ w.listed = {listing[i] : i \in 1..w.at}
        BY <1>3, <1>4, <1>7, <3>1, <4>2, <4>3
      <4>5. stuck => MarketPage <= Len(listing) /\ listing[1].name \in w.ids
        <5>1. SUFFICES ASSUME stuck PROVE MarketPage <= Len(listing) /\ listing[1].name \in w.ids
          OBVIOUS
        <5>2. from = 0 /\ last = MarketPage /\ MarketPage <= Len(listing) /\ 1 \in 1..last
          BY <1>1, <1>3, <1>4, <4>2, <5>1
        <5>3. listing[1] \in wanted
          BY <1>8, <5>1, <5>2
        <5>4. QED
          BY <3>1, <4>3, <5>2, <5>3
      <4>6. PageTaken(w)
        BY <1>11, <4>3, <4>4, <4>5 DEF PageTaken
      <4>7. QED
        BY <4>1, <4>3, <4>6 DEF l, p
    <3>5. QED
      BY <3>3, <3>4
  <2>7. QED
    BY <2>5, <2>6
<1>12. QED
  BY <1>10, <1>11

\* The answer to a request for markets keeps the invariant.
LEMMA MarketsStep ==
  ASSUME ReadsInv, AnswerMarkets
  PROVE  ReadsInv'
<1>1. MayAnswer /\ read.kind = "markets" /\ Running
  BY DEF AnswerMarkets, MayAnswer
<1>2. /\ listing \in Seq(Entries) /\ \A i \in 1..Len(listing) : ListedBy(listing[i])
      /\ venue \in AllVenues /\ call \in Calls /\ call.result \in ReadResults /\ now \in Nat
      /\ call.error # "refused" /\ stuck \in BOOLEAN
  BY <1>1 DEF ReadsInv, ReadsTyped, CallInv, Running, Calls
<1>3. PICK l \in Lists : /\ l = MarketsOf(call.list, ListingPage)
                         /\ venue \in {"bybit", "coinbase"} => PageTaken(l)
                         /\ venue \notin {"bybit", "coinbase"} => Complete(l)
  <2>1. CASE venue \in {"bybit", "coinbase"}
    <3>1. PageTaken(MarketsOf(call.list, ListingPage))
      BY <1>1, <2>1, PagesAreTaken
    <3>2. QED
      BY <2>1, <3>1 DEF PageTaken
  <2>2. CASE venue \notin {"bybit", "coinbase"}
    <3>1. call.list = NoListing
      BY <1>1, <2>2 DEF ReadsInv, ListInv, Running
    <3>2. ListingPage.items = listing
      BY <2>2 DEF ListingPage
    <3>3. Complete(MarketsOf(NoListing, ListingPage))
      BY <1>2, <2>2, <3>2, OnePageIsComplete
    <3>4. QED
      BY <2>2, <3>1, <3>3 DEF Complete
  <2>3. QED
    BY <2>1, <2>2
<1>4. PICK full \in BOOLEAN : full <=> \E i \in DOMAIN listing : listing[i].name = Asked /\ listing[i].spot
  OBVIOUS
<1>5. Answered(CASE l.status = "running" -> [call EXCEPT !.list = l]
                 [] l.status = "listed" ->
                      [call EXCEPT !.list = l, !.status = "done", !.ended = now, !.result.ok = TRUE]
                 [] l.status = "failed" -> EndedWith("plain"),
               full)
  <2>1. full = \E i \in DOMAIN listing : listing[i].name = Asked /\ listing[i].spot
    BY <1>4
  <2>2. QED
    BY <1>3, <2>1 DEF AnswerMarkets
<1>6. CASE l.status = "failed"
  <2>1. PICK c \in Calls : c = EndedWith("plain") /\ c.status = "failed" /\ c.error # "refused"
    BY <1>2, EndedTyped
  <2>2. Answered(c, full)
    BY <1>5, <1>6, <2>1
  <2>3. QED
    BY <1>1, <2>1, <2>2, AnswerEnds
<1>7. CASE l.status = "listed"
  <2>1. PICK c \in Calls :
          /\ c = [call EXCEPT !.list = l, !.status = "done", !.ended = now, !.result.ok = TRUE]
          /\ c.status = "done" /\ c.list = l /\ c.error # "refused"
    <3> DEFINE u == [call EXCEPT !.list = l, !.status = "done", !.ended = now, !.result.ok = TRUE]
    <3>1. [call.result EXCEPT !.ok = TRUE] \in ReadResults
      BY <1>2 DEF ReadResults
    <3>2. u \in Calls /\ u.status = "done" /\ u.list = l /\ u.error = call.error
      BY <1>2, <3>1 DEF Calls
    <3>3. QED
      BY <1>2, <3>2
  <2>2. Answered(c, full)
    BY <1>5, <1>7, <2>1
  <2>3. CallInv' /\ ListInv'
    BY <1>1, <2>1, <2>2, AnswerEnds
  <2>4. /\ ReadsTyped' /\ RunnerInv' /\ PassedChecksHeldData'
        /\ call' = [c EXCEPT !.odd = ~call.odd] /\ held' = full
        /\ UNCHANGED <<read, venue, listing>> /\ todo' # <<>>
    BY <1>1, <2>2, AnswerGoesOn DEF fixedVars
  <2>5. call'.list = l /\ call'.status = "done"
    BY <2>1, <2>4 DEF Calls
  <2>6. l.listed = SpotMarkets
    BY <1>3, <1>7 DEF PageTaken, Complete
  <2>7. MarketsAreComplete'
    <3>1. venue \in {"gateio", "kucoin", "htx", "mexc", "cryptocom"} => \A e \in l.listed : e.fits
      BY <1>3, <1>7 DEF Complete
    <3>2. QED
      BY <2>4, <2>5, <2>6, <3>1 DEF MarketsAreComplete, SpotMarkets
  <2>8. SizesAreExact' /\ LabelsAreTrue'
    BY <1>1, <2>4 DEF SizesAreExact, LabelsAreTrue, Finished
  <2>9. HasEvidence' => held'
    <3>1. HasEvidence' <=> checkMarkets'
      BY <1>1, <2>4 DEF HasEvidence
    <3>2. checkMarkets' => \E e \in Range(listing) : e.name = Asked /\ e.spot
      BY <2>5, <2>6 DEF checkMarkets, SpotMarkets
    <3>3. QED
      BY <1>4, <2>4, <3>1, <3>2 DEF Range
  <2>10. QED
    BY <2>3, <2>4, <2>7, <2>8, <2>9 DEF ReadsInv, DoneInv
<1>8. CASE l.status = "running"
  <2>1. PICK c \in Calls : c = [call EXCEPT !.list = l] /\ c.list = l /\ c.status = "running" /\ c.error # "refused"
    <3> DEFINE u == [call EXCEPT !.list = l]
    <3>1. u \in Calls /\ u.list = l /\ u.status = call.status /\ u.error = call.error
      BY <1>2 DEF Calls
    <3>2. QED
      BY <1>1, <1>2, <3>1 DEF Running
  <2>2. Answered(c, full)
    BY <1>5, <1>8, <2>1
  <2>3. /\ ReadsTyped' /\ RunnerInv' /\ PassedChecksHeldData'
        /\ call' = [c EXCEPT !.odd = ~call.odd]
        /\ UNCHANGED <<read, fixedVars>> /\ todo' # <<>>
    BY <1>1, <2>2, AnswerGoesOn
  <2>4. call'.list = l /\ call'.status = "running" /\ call'.error # "refused"
    BY <2>1, <2>3 DEF Calls
  <2>5. venue \in {"bybit", "coinbase"} /\ PageTaken(l)
    BY <1>3, <1>8 DEF Complete
  <2>6. ListInv'
    BY <1>8, <2>3, <2>4, <2>5 DEF ListInv, ListedSoFar, PageTaken, fixedVars
  <2>7. CallInv'
    BY <1>1, <2>3, <2>4 DEF CallInv
  <2>8. DoneInv'
    BY <2>4, NotDone
  <2>9. QED
    BY <2>3, <2>6, <2>7, <2>8 DEF ReadsInv
<1>9. QED
  BY <1>6, <1>7, <1>8 DEF Lists

-----------------------------------------------------------------------------
(* Candles. *)

\* The candles that a read ends with: not more than asked for, and none without minutes.
LEMMA EndingCandles ==
  ASSUME ReadsInv, Running, read.kind = "candles", now \in Nat,
         NEW units \in SUBSET Nat, IsFiniteSet(units),
         Plan.page = 0 => Cardinality(units) <= OrElse(Ask, Unasked)
  PROVE  /\ CandlesOf(units) \in SUBSET Nat
         /\ units = {} => CandlesOf(units) = {}
         /\ read.limit > 0 => Cardinality(CandlesOf(units)) <= read.limit
<1>1. CandlesFit(Plan, Accepts, read.minutes, read.limit) /\ (Plan.page = 0 => Ask = Plan.ask)
  BY PageFits
<1>2. Plan.keep \in Nat \cup {Every} /\ Plan.unit \in Nat /\ Plan.ask \in Nat /\ read.limit \in Nat
      /\ CandleDefault \in Nat
  BY <1>1, ReadTyped, ReadsAssumption DEF CandlesFit, Plans, ReadsInv, ReadsTyped, Running
<1>3. \/ Plan.keep \in Nat /\ (read.limit > 0 => Plan.keep = read.limit)
      \/ Plan.keep = Every /\ ~Merges /\ Plan.page = 0 /\ (read.limit > 0 => Plan.ask = read.limit)
  BY <1>1, <1>2 DEF CandlesFit, OrElse, Merges
<1>4. CASE Plan.keep = Every /\ ~Merges /\ Plan.page = 0 /\ (read.limit > 0 => Plan.ask = read.limit)
  <2>1. CandlesOf(units) = units
    BY <1>4 DEF CandlesOf, NewestOf
  <2>2. QED
    BY <1>1, <1>2, <1>4, <2>1 DEF OrElse
<1>5. CASE Plan.keep \in Nat /\ (read.limit > 0 => Plan.keep = read.limit)
  <2> DEFINE buckets == {b \in 0..(now \div 6) : \E m \in (3 * b)..(3 * b + 2) : m \in units}
             S == IF Merges THEN buckets ELSE units
  <2>1. CandlesOf(units) = NewestOf(S, Plan.keep)
    BY DEF CandlesOf, AggregateCandles
  <2>2. now \div 6 \in Nat
    OBVIOUS
  <2>3. buckets \in SUBSET Nat /\ IsFiniteSet(buckets) /\ (units = {} => buckets = {})
    <3>1. IsFiniteSet(0..(now \div 6)) /\ buckets \subseteq 0..(now \div 6)
      BY <2>2, FS_Interval
    <3>2. QED
      BY <2>2, <3>1, FS_Subset
  <2> HIDE DEF buckets
  <2>4. S \in SUBSET Nat /\ IsFiniteSet(S) /\ (units = {} => S = {})
    BY <2>3
  <2> HIDE DEF S
  <2>5. NewestOf(S, Plan.keep) \subseteq S /\ Cardinality(NewestOf(S, Plan.keep)) <= Plan.keep
    BY <1>5, <2>4, NewestAreFew
  <2>6. QED
    BY <1>5, <2>1, <2>4, <2>5
<1>6. QED
  BY <1>3, <1>4, <1>5

\* A page of candles has finitely many of them, at most as many as were asked for.
LEMMA PageIsFinite ==
  ASSUME ReadsInv, Running, read.kind = "candles", now \in Nat
  PROVE  /\ CandlesPage \in SUBSET Nat /\ IsFiniteSet(CandlesPage)
         /\ Cardinality(CandlesPage) <= OrElse(Ask, Unasked)
<1>1. /\ Plan.unit \in Nat \ {0} /\ Plan.closed \in BOOLEAN /\ call.cursor \in Nat /\ PageEnd \in Nat /\ Ask \in Nat
  BY PageFits DEF CandlesFit, Plans
<1>2. OrElse(Ask, Unasked) \in Nat
  BY <1>1, RunsAssumption DEF OrElse
<1>3. (IF Plan.closed THEN PageEnd ELSE now) \in Nat
  BY <1>1
<1>4. QED
  BY <1>1, <1>2, <1>3, SentAreNumbers DEF CandlesPage

\* The answer to a request for candles keeps the invariant.
LEMMA CandlesStep ==
  ASSUME ReadsInv, AnswerCandles
  PROVE  ReadsInv'
<1>1. MayAnswer /\ read.kind = "candles" /\ Running
  BY DEF AnswerCandles, MayAnswer
<1>2. call \in Calls /\ call.result \in ReadResults /\ now \in Nat /\ call.error # "refused" /\ call.status = "running"
  BY <1>1 DEF ReadsInv, ReadsTyped, CallInv, Running, Calls
<1>3. CASE \E a \in {<<>>, <<About(Other)>>, <<[About(Asked) EXCEPT !.sound = FALSE]>>} :
             ~Serves("candles", a) /\ Answered(EndedWith("api"), FALSE)
  <2>1. PICK c \in Calls : c = EndedWith("api") /\ c.status = "failed" /\ c.error # "refused"
    BY <1>1, IdleFormed, DoneTyped
  <2>2. Answered(c, FALSE)
    BY <1>3, <2>1
  <2>3. QED
    BY <1>1, <2>1, <2>2, AnswerEnds
<1>4. CASE \E units \in {call.units \cup CandlesPage} :
             LET taken == NextPage([call EXCEPT !.units = units], PageEnd)
             IN Answered(IF Plan.page # 0 /\ taken.cursor < call.begun THEN taken
                         ELSE [taken EXCEPT !.status = "done", !.ended = now, !.starts = CandlesOf(units),
                                            !.result.ok = TRUE],
                         units # {})
  <2>1. PICK units \in SUBSET Nat :
          /\ units = call.units \cup CandlesPage /\ IsFiniteSet(units)
          /\ Plan.page = 0 => Cardinality(units) <= OrElse(Ask, Unasked)
    <3>1. /\ CandlesPage \in SUBSET Nat /\ IsFiniteSet(CandlesPage)
          /\ Cardinality(CandlesPage) <= OrElse(Ask, Unasked)
      BY <1>1, <1>2, PageIsFinite
    <3>2. call.units \in SUBSET Nat /\ IsFiniteSet(call.units) /\ (Plan.page = 0 => call.units = {})
      BY <1>1, <1>2 DEF Calls, ReadsInv, CallInv
    <3>3. IsFiniteSet(call.units \cup CandlesPage)
      BY <3>1, <3>2, FS_Union
    <3>4. Plan.page = 0 => call.units \cup CandlesPage = CandlesPage
      BY <3>2
    <3>5. QED
      BY <3>1, <3>2, <3>3, <3>4
  <2>2. PICK to \in Nat : to = PageEnd
    BY <1>1, PageFits
  <2>3. PICK taken \in Calls :
          /\ taken = NextPage([call EXCEPT !.units = units], PageEnd)
          /\ taken.cursor = to /\ taken.units = units /\ taken.status = "running" /\ taken.begun = call.begun
          /\ taken.plan = call.plan /\ taken.error # "refused" /\ taken.result = call.result
    <3> DEFINE u == [[call EXCEPT !.units = units] EXCEPT !.cursor = to]
    <3>1. /\ u \in Calls /\ u.cursor = to /\ u.units = units /\ u.status = call.status
          /\ u.begun = call.begun /\ u.plan = call.plan /\ u.error = call.error /\ u.result = call.result
      BY <1>2, <2>2 DEF Calls
    <3>2. u = NextPage([call EXCEPT !.units = units], PageEnd)
      BY <2>2 DEF NextPage
    <3> HIDE DEF u
    <3>3. QED
      BY <1>2, <3>1, <3>2
  <2>4. PICK full \in BOOLEAN : full = (units # {})
    OBVIOUS
  <2>5. Answered(IF Plan.page # 0 /\ taken.cursor < call.begun THEN taken
                 ELSE [taken EXCEPT !.status = "done", !.ended = now, !.starts = CandlesOf(units),
                                    !.result.ok = TRUE], full)
    BY <1>4, <2>1, <2>3, <2>4
  <2>6. CASE Plan.page # 0 /\ taken.cursor < call.begun
    <3>1. Answered(taken, full)
      BY <2>5, <2>6
    <3>2. /\ ReadsTyped' /\ RunnerInv' /\ PassedChecksHeldData'
          /\ call' = [taken EXCEPT !.odd = ~call.odd]
          /\ UNCHANGED <<read, now, venue>> /\ todo' # <<>>
      BY <1>1, <3>1, AnswerGoesOn DEF fixedVars
    <3>3. /\ call'.status = "running" /\ call'.error # "refused" /\ call'.units = units /\ call'.cursor = to
          /\ call'.begun = call.begun /\ call'.plan = call.plan
      BY <2>3, <3>2 DEF Calls
    <3>4. ListInv' /\ DoneInv'
      BY <1>1, <3>2, <3>3, NotDone DEF ListInv
    <3>5. CallInv'
      <4>1. UNCHANGED CandlesPlan(read.minutes, read.limit)
        BY <3>2, SamePlan
      <4>2. /\ call.plan = CandlesPlan(read.minutes, read.limit)
            /\ call.begun > 6 * CandleDefault /\ call.begun <= now
        BY <1>1, <1>2 DEF ReadsInv, CallInv
      <4>3. Plan' = Plan /\ Plan'.page # 0
        BY <2>6, <3>3 DEF Plan
      <4>4. QED
        BY <1>1, <2>1, <2>3, <2>6, <3>2, <3>3, <4>1, <4>2, <4>3 DEF CallInv
    <3>6. QED
      BY <3>2, <3>4, <3>5 DEF ReadsInv
  <2>7. CASE ~(Plan.page # 0 /\ taken.cursor < call.begun)
    <3>1. PICK starts \in SUBSET Nat :
            /\ starts = CandlesOf(units) /\ (units = {} => starts = {})
            /\ read.limit > 0 => Cardinality(starts) <= read.limit
      BY <1>1, <1>2, <2>1, EndingCandles
    <3>2. PICK c \in Calls :
            /\ c = [taken EXCEPT !.status = "done", !.ended = now, !.starts = starts, !.result.ok = TRUE]
            /\ c.status = "done" /\ c.starts = starts /\ c.begun = call.begun /\ c.plan = call.plan
            /\ c.error # "refused"
      <4> DEFINE u == [taken EXCEPT !.status = "done", !.ended = now, !.starts = starts, !.result.ok = TRUE]
      <4>1. [taken.result EXCEPT !.ok = TRUE] \in ReadResults
        BY <1>2, <2>3 DEF ReadResults
      <4>2. /\ u \in Calls /\ u.status = "done" /\ u.starts = starts /\ u.begun = taken.begun
            /\ u.plan = taken.plan /\ u.error = taken.error
        BY <1>2, <4>1 DEF Calls
      <4> HIDE DEF u
      <4>3. u.begun = call.begun /\ u.plan = call.plan /\ u.error # "refused"
        BY <2>3, <4>2
      <4>4. QED
        BY <4>2, <4>3 DEF u
    <3>3. Answered(c, full)
      BY <2>5, <2>7, <3>1, <3>2
    <3>4. /\ ReadsTyped' /\ RunnerInv' /\ PassedChecksHeldData'
          /\ call' = [c EXCEPT !.odd = ~call.odd] /\ held' = full
          /\ UNCHANGED <<read, now, venue>> /\ todo' # <<>>
      BY <1>1, <3>3, AnswerGoesOn DEF fixedVars
    <3>5. /\ call'.status = "done" /\ call'.error # "refused" /\ call'.starts = starts
          /\ call'.begun = call.begun /\ call'.plan = call.plan
      BY <3>2, <3>4 DEF Calls
    <3>6. CallInv'
      <4>1. UNCHANGED CandlesPlan(read.minutes, read.limit)
        BY <3>4, SamePlan
      <4>2. /\ call.plan = CandlesPlan(read.minutes, read.limit)
            /\ call.begun > 6 * CandleDefault /\ call.begun <= now
        BY <1>1, <1>2 DEF ReadsInv, CallInv
      <4>3. QED
        BY <3>4, <3>5, <4>1, <4>2 DEF CallInv
    <3>7. SizesAreExact' /\ LabelsAreTrue' /\ MarketsAreComplete'
      BY <1>1, <3>1, <3>4, <3>5 DEF SizesAreExact, LabelsAreTrue, MarketsAreComplete, Finished
    <3>8. HasEvidence' => held'
      <4>1. HasEvidence' <=> checkCandles'
        BY <1>1, <3>4 DEF HasEvidence
      <4>2. QED
        BY <2>4, <3>1, <3>4, <3>5, <4>1 DEF checkCandles
    <3>9. ListInv'
      BY <3>5 DEF ListInv
    <3>10. QED
      BY <3>4, <3>6, <3>7, <3>8, <3>9 DEF ReadsInv, DoneInv
  <2>8. QED
    BY <2>6, <2>7
<1>5. QED
  BY <1>3, <1>4 DEF AnswerCandles

-----------------------------------------------------------------------------
(* The theorems. *)

\* The invariant of the reads and of the smoke runner.
THEOREM ReadsHold == Spec => []ReadsInv
<1>1. ReadsInv /\ [Next]_vars => ReadsInv'
  <2>1. SUFFICES ASSUME ReadsInv, [Next]_vars PROVE ReadsInv'
    OBVIOUS
  <2>2. CASE CheckEgress
    BY <2>1, <2>2, EgressStep
  <2>3. CASE Begin
    BY <2>1, <2>3, BeginStep
  <2>4. CASE Refuse
    BY <2>1, <2>4, RefuseStep
  <2>5. CASE Answer
    BY <2>1, <2>5, TickerStep, BookStep, TradesStep, CandlesStep, MarketsStep, BalancesStep DEF Answer
  <2>6. CASE FailCall
    BY <2>1, <2>6, FailStep
  <2>7. CASE Conclude
    BY <2>1, <2>7, ConcludeStep
  <2>8. CASE Tick
    BY <2>1, <2>8, TickStep
  <2>9. CASE Cancel \/ UNCHANGED vars
    BY <2>1, <2>9, CancelStep
  <2>10. QED
    BY <2>1, <2>2, <2>3, <2>4, <2>5, <2>6, <2>7, <2>8, <2>9 DEF Next
<1>2. QED
  BY <1>1, ReadsInit, PTL DEF Spec

\* A read that the interface allows is never turned down by the client of the exchange, and
\* its answer has the size asked for, is of the market it names, and lists every market.
THEOREM ReadsComeBackRight == Spec => []ReadsAreRight
<1>1. ReadsInv => ReadsAreRight
  <2>1. SUFFICES ASSUME ReadsInv PROVE ReadsAreRight
    OBVIOUS
  <2>2. Len(todo) <= 6 /\ Len(report) <= 7
    <3>1. Len(todo) \in Nat /\ Len(report) \in Nat
      BY <2>1 DEF ReadsInv, ReadsTyped
    <3>2. CASE caller = "reader"
      BY <2>1, <3>2 DEF ReadsInv, RunnerInv
    <3>3. CASE caller = "smoke"
      <4>1. PICK b \in BOOLEAN : Tracks(b)
        BY <2>1, <3>3 DEF ReadsInv, RunnerInv
      <4>2. Len(Checks(b)) \in {5, 6}
        BY SixChecks
      <4>3. CASE report = <<>>
        <5>1. todo = Checks(b)
          BY <4>1, <4>3 DEF Tracks
        <5>2. Len(todo) \in {5, 6}
          BY <4>2, <5>1
        <5>3. Len(report) = 0
          BY <4>3
        <5>4. \A x \in {5, 6} : x <= 6
          OBVIOUS
        <5>5. Len(report) <= 7
          BY <5>3
        <5>6. QED
          BY <5>2, <5>4, <5>5
      <4>4. CASE report # <<>>
        <5>1. Len(report) + Len(todo) = Len(Checks(b)) + 1 /\ Len(report) # 0
          BY <2>1, <4>1, <4>4 DEF Tracks, ReadsInv, ReadsTyped
        <5>2. ASSUME NEW x \in Nat, NEW y \in Nat, NEW z \in {5, 6}, x + y = z + 1, x # 0
              PROVE  y <= 6 /\ x <= 7
          BY <5>2
        <5>3. QED
          BY <3>1, <4>2, <5>1, <5>2
      <4>5. QED
        BY <4>3, <4>4
    <3>4. QED
      BY <2>1, <3>2, <3>3 DEF ReadsInv, ReadsTyped
  <2>3. ReadsTypeOK
    BY <2>1, <2>2 DEF ReadsInv, ReadsTyped, ReadsTypeOK, Calls
  <2>4. ValidReadsAreSent
    BY <2>1 DEF ReadsInv, CallInv, ValidReadsAreSent
  <2>5. QED
    BY <2>1, <2>3, <2>4 DEF ReadsInv, DoneInv, ReadsAreRight
<1>2. QED
  BY <1>1, ReadsHold, PTL

\* The smoke runner's report is complete, passes only what held data, and nothing was sent
\* over a route that was not verified.
THEOREM SmokeReportHolds == Spec => []SmokeReportIsTrue
<1>1. ReadsInv => SmokeReportIsTrue
  <2>1. SUFFICES ASSUME ReadsInv PROVE SmokeReportIsTrue
    OBVIOUS
  <2>2. CASE caller # "smoke"
    BY <2>1, <2>2 DEF ReadsInv, SmokeReportIsTrue, UnverifiedRouteIsUnused, ReportIsComplete
  <2>3. CASE caller = "smoke"
    <3>1. PICK b \in BOOLEAN : Tracks(b)
      BY <2>1, <2>3 DEF ReadsInv, RunnerInv
    <3>2. UnverifiedRouteIsUnused
      BY <3>1 DEF Tracks, UnverifiedRouteIsUnused
    <3>3. ReportIsComplete
      <4>1. SUFFICES ASSUME todo = <<>>
                     PROVE [i \in DOMAIN report |-> report[i].name] =
                             <<"egress_ip">> \o [i \in DOMAIN Checks(b) |-> Checks(b)[i].kind]
        BY DEF ReportIsComplete
      <4>2. report \in Seq(Checked) /\ Checks(b) \in Seq(AllReads) /\ Len(Checks(b)) \in {5, 6}
        BY <2>1, SixChecks DEF ReadsInv, ReadsTyped
      <4>3. report # <<>>
        <5>1. report = <<>> => Len(Checks(b)) = 0
          BY <3>1, <4>1 DEF Tracks
        <5>2. 0 \notin {5, 6}
          OBVIOUS
        <5>3. QED
          BY <4>2, <5>1, <5>2, Zenon
      <4>4. /\ Len(report) = Len(Checks(b)) + 1 /\ report[1].name = "egress_ip"
            /\ \A i \in 2..Len(report) : report[i].name = Checks(b)[i - 1].kind
        BY <3>1, <4>1, <4>2, <4>3 DEF Tracks
      <4> DEFINE names == [i \in DOMAIN report |-> report[i].name]
                 kinds == [i \in DOMAIN Checks(b) |-> Checks(b)[i].kind]
                 n == Len(Checks(b))
      <4>5. /\ kinds \in Seq(ReadKinds \cup {"egress_ip"}) /\ Len(kinds) = n
            /\ \A i \in 1..n : kinds[i] = Checks(b)[i].kind
        <5>1. \A i \in 1..n : Checks(b)[i].kind \in ReadKinds
          <6>1. \A r \in AllReads : r.kind \in ReadKinds
            BY DEF AllReads, ReadKinds
          <6>2. QED
            BY <4>2, <6>1
        <5>2. QED
          BY <4>2, <5>1
      <4>6. /\ names \in Seq(ReadKinds \cup {"egress_ip"}) /\ Len(names) = n + 1
            /\ \A i \in 1..(n + 1) : names[i] = report[i].name
        <5>1. \A r \in Checked : r.name \in ReadKinds \cup {"egress_ip"}
          BY DEF Checked
        <5>2. QED
          BY <4>2, <4>4, <5>1
      <4> HIDE DEF names, kinds, n
      <4>7. <<"egress_ip">> \in Seq(ReadKinds \cup {"egress_ip"}) /\ Len(<<"egress_ip">>) = 1
            /\ <<"egress_ip">>[1] = "egress_ip"
        OBVIOUS
      <4>8. /\ <<"egress_ip">> \o kinds \in Seq(ReadKinds \cup {"egress_ip"})
            /\ Len(<<"egress_ip">> \o kinds) = 1 + n
            /\ \A i \in 1..(1 + n) : (<<"egress_ip">> \o kinds)[i] =
                                       IF i <= 1 THEN <<"egress_ip">>[i] ELSE kinds[i - 1]
        BY <4>5, <4>7, ConcatProperties
      <4>9. n \in Nat
        BY <4>2 DEF n
      <4>10. ASSUME NEW i \in 1..(n + 1) PROVE names[i] = (<<"egress_ip">> \o kinds)[i]
        <5>1. CASE i = 1
          BY <4>4, <4>6, <4>7, <4>8, <4>9, <5>1
        <5>2. CASE i # 1
          <6>1. i \in 2..(n + 1) /\ i - 1 \in 1..n /\ ~(i <= 1)
            BY <4>9, <5>2
          <6>2. names[i] = Checks(b)[i - 1].kind
            BY <4>4, <4>6, <6>1 DEF n
          <6>3. (<<"egress_ip">> \o kinds)[i] = kinds[i - 1]
            BY <4>8, <4>9, <6>1
          <6>4. QED
            BY <4>5, <6>1, <6>2, <6>3
        <5>3. QED
          BY <5>1, <5>2
      <4>11. names = <<"egress_ip">> \o kinds
        BY <4>6, <4>8, <4>9, <4>10
      <4>12. QED
        BY <4>11 DEF names, kinds
    <3>4. QED
      BY <2>1, <3>2, <3>3 DEF ReadsInv, SmokeReportIsTrue
  <2>4. QED
    BY <2>2, <2>3
<1>2. QED
  BY <1>1, ReadsHold, PTL

-----------------------------------------------------------------------------
(* The newest candles. *)

\* The newest k numbers: all that lie above one of them are among them.
LEMMA NewestFacts ==
  ASSUME NEW S \in SUBSET Nat, IsFiniteSet(S), NEW k \in Nat
  PROVE  /\ NewestOf(S, k) \in SUBSET S /\ IsFiniteSet(NewestOf(S, k))
         /\ NewestOf(S, k) = Best(S, k)
         /\ \A x \in NewestOf(S, k), y \in S : x <= y => y \in NewestOf(S, k)
<1>1. NewestOf(S, k) = Best(S, k)
  BY DEF NewestOf, Best, Above, Every
<1>2. Best(S, k) \in SUBSET S /\ IsFiniteSet(Best(S, k))
  BY BestIsFinite
<1>3. ASSUME NEW x \in Best(S, k), NEW y \in S, x <= y PROVE y \in Best(S, k)
  <2>1. Above(S, y) \in SUBSET Above(S, x)
    <3>1. x \in Nat /\ y \in Nat /\ \A q \in S : q \in Nat
      BY <1>2
    <3>2. \A q \in S : q > y => q > x
      BY <1>3, <3>1
    <3>3. QED
      BY <3>2 DEF Above
  <2>2. /\ IsFiniteSet(Above(S, x)) /\ Cardinality(Above(S, x)) \in Nat
        /\ Cardinality(Above(S, y)) \in Nat /\ Cardinality(Above(S, x)) < k
    BY <1>3, AboveIsFinite DEF Best
  <2>3. Cardinality(Above(S, y)) <= Cardinality(Above(S, x))
    BY <2>1, <2>2, FS_Subset
  <2>4. Cardinality(Above(S, y)) < k
    BY <2>2, <2>3
  <2>5. QED
    BY <2>4 DEF Best
<1>4. QED
  BY <1>1, <1>2, <1>3

\* A number with fewer than k numbers above it is among the newest k.
LEMMA NewestHas ==
  ASSUME NEW S \in SUBSET Nat, NEW k \in Nat \cup {Every}, NEW top \in Nat,
         \A x \in S : x <= top, NEW y \in S, k # Every => top - y < k
  PROVE  y \in NewestOf(S, k)
<1>1. CASE k = Every
  BY <1>1 DEF NewestOf
<1>2. CASE k # Every
  <2> DEFINE A == {w \in S : y < w}
  <2>1. y \in Nat /\ k \in Nat /\ top - y < k /\ y <= top
    BY <1>2
  <2>2. A \subseteq (y + 1)..top
    <3>1. ASSUME NEW w \in S, y < w PROVE w \in (y + 1)..top
      <4>1. w \in Nat /\ w <= top
        OBVIOUS
      <4>2. QED
        BY <2>1, <3>1, <4>1
    <3>2. QED
      BY <3>1
  <2>3. IsFiniteSet((y + 1)..top) /\ Cardinality((y + 1)..top) = top - y
    <3>1. y + 1 \in Int /\ top \in Int
      BY <2>1
    <3>2. IF y + 1 > top THEN top - y = 0 ELSE top - (y + 1) + 1 = top - y
      BY <2>1
    <3>3. QED
      BY <3>1, <3>2, FS_Interval
  <2> HIDE DEF A
  <2>4. IsFiniteSet(A) /\ Cardinality(A) <= top - y /\ Cardinality(A) \in Nat
    BY <2>2, <2>3, FS_Subset, FS_CardinalityType
  <2>5. Cardinality(A) < k
    BY <2>1, <2>4
  <2>6. QED
    BY <2>5 DEF NewestOf, A
<1>3. QED
  BY <1>1, <1>2

\* Where a number was cut off, the newest k are k numbers, all of them above it.
LEMMA CutIsFull ==
  ASSUME NEW S \in SUBSET Nat, IsFiniteSet(S), NEW k \in Nat, NEW y \in S, y \notin NewestOf(S, k)
  PROVE  k <= Cardinality(NewestOf(S, k)) /\ \A x \in NewestOf(S, k) : y < x
<1>1. ~(Cardinality(Above(S, y)) < k)
  BY NewestFacts DEF Best
<1>2. /\ Cardinality(Above(S, y)) \in Nat /\ Cardinality(S) \in Nat
      /\ Cardinality(Above(S, y)) <= Cardinality(S)
  BY AboveIsFinite, FS_CardinalityType
<1>3. k <= Cardinality(S)
  BY <1>1, <1>2
<1>4. k <= Cardinality(NewestOf(S, k))
  BY <1>3, NewestFacts, EnoughAreBest
<1>5. ASSUME NEW x \in NewestOf(S, k) PROVE y < x
  <2>1. x \in S /\ x \in Nat /\ y \in Nat
    BY NewestFacts
  <2>2. ~(x <= y)
    BY NewestFacts
  <2>3. QED
    BY <2>1, <2>2
<1>6. QED
  BY <1>4, <1>5

\* Minutes that leave a gap in the oldest bucket and reach less than n buckets are less than 3n.
LEMMA FewMinutes ==
  ASSUME NEW U \in SUBSET Nat, NEW A \in SUBSET Nat, IsFiniteSet(A), NEW n \in Nat, Cardinality(A) < n,
         NEW b \in Nat, b \notin A, NEW m \in (3 * b)..(3 * b + 2), m \notin U,
         \A u \in U : u \div 3 = b \/ u \div 3 \in A
  PROVE  IsFiniteSet(U) /\ Cardinality(U) < 3 * n
<1> DEFINE X == A \cup {b}
           P == X \X (0..2)
           Q == P \ {<<b, m - 3 * b>>}
           f == [u \in U |-> <<u \div 3, u % 3>>]
<1>1. IsFiniteSet(X) /\ Cardinality(X) = Cardinality(A) + 1 /\ Cardinality(A) \in Nat
  BY FS_AddElement, FS_CardinalityType
<1>2. IsFiniteSet(0..2) /\ Cardinality(0..2) = 3
  <2>1. 0 \in Int /\ 2 \in Int /\ ~(0 > 2) /\ 2 - 0 + 1 = 3
    OBVIOUS
  <2>2. QED
    BY <2>1, FS_Interval
<1>3. IsFiniteSet(P) /\ Cardinality(P) = Cardinality(X) * 3
  BY <1>1, <1>2, FS_Product
<1>4. <<b, m - 3 * b>> \in P
  OBVIOUS
<1>5. IsFiniteSet(Q) /\ Cardinality(Q) = Cardinality(P) - 1
  <2> HIDE DEF P
  <2>1. QED
    BY <1>3, <1>4, FS_RemoveElement
<1>6. Cardinality(Q) < 3 * n
  BY <1>1, <1>3, <1>5
<1>7. ASSUME NEW u \in U
      PROVE  /\ u \div 3 \in X /\ u % 3 \in 0..2 /\ u = 3 * (u \div 3) + (u % 3)
             /\ ~(u \div 3 = b /\ u % 3 = m - 3 * b)
  <2>1. u \in Nat /\ m \in Nat /\ u # m
    OBVIOUS
  <2>2. u % 3 \in 0..2 /\ u = 3 * (u \div 3) + (u % 3)
    BY <2>1
  <2>3. ~(u \div 3 = b /\ u % 3 = m - 3 * b)
    BY <2>1, <2>2
  <2>4. QED
    BY <2>2, <2>3
<1>8. f \in [U -> Q]
  BY <1>7
<1>9. ASSUME NEW u \in U, NEW w \in U, f[u] = f[w] PROVE u = w
  <2>1. u \div 3 = w \div 3 /\ u % 3 = w % 3
    BY <1>9
  <2>2. QED
    BY <1>7, <2>1
<1>10. f \in Injection(U, Q)
  BY <1>8, <1>9 DEF Injection, IsInjective
<1>11. IsFiniteSet(U) /\ Cardinality(U) <= Cardinality(Q)
  <2> HIDE DEF f, Q
  <2>1. QED
    BY <1>5, <1>10, FS_Injection
<1>12. Cardinality(U) \in Nat /\ Cardinality(Q) \in Nat
  BY <1>5, <1>11, FS_CardinalityType
<1>13. QED
  BY <1>6, <1>11, <1>12

-----------------------------------------------------------------------------
(* Candle numbers: c half minutes make a candle. *)

\* A product grows with its factors.
LEMMA TimesGrows ==
  ASSUME NEW c \in Nat, NEW x \in Int, NEW y \in Int, x <= y
  PROVE  c * x <= c * y
<1>1. PICK z \in Nat : y = x + z
  <2>1. y - x \in Nat /\ y = x + (y - x)
    OBVIOUS
  <2>2. QED
    BY <2>1
<1>2. c * y = c * x + c * z /\ c * z \in Nat
  BY <1>1
<1>3. QED
  BY <1>2

\* The candle of a time begins at or before it and ends after it.
LEMMA FloorFacts ==
  ASSUME NEW c \in Nat \ {0}, NEW x \in Nat
  PROVE  x \div c \in Nat /\ c * (x \div c) <= x /\ x < c * (x \div c) + c
  OBVIOUS

\* A candle that begins at or before a time is not after that time's.
LEMMA FloorIsMost ==
  ASSUME NEW c \in Nat \ {0}, NEW x \in Nat, NEW q \in Nat, c * q <= x
  PROVE  q <= x \div c
<1>1. x \div c \in Nat /\ x < c * (x \div c) + c
  BY FloorFacts
<1> DEFINE r == x \div c
<1> HIDE DEF r
<1>2. r \in Nat /\ x < c * r + c
  BY <1>1 DEF r
<1>3. r + 1 <= q => c * (r + 1) <= c * q
  BY <1>2, TimesGrows
<1>4. c * (r + 1) = c * r + c
  BY <1>2
<1>5. q <= r
  BY <1>2, <1>3, <1>4
<1>6. QED
  BY <1>5 DEF r

\* Later times have later candles.
LEMMA FloorGrows ==
  ASSUME NEW c \in Nat \ {0}, NEW x \in Nat, NEW y \in Nat, x <= y
  PROVE  x \div c <= y \div c
<1>1. x \div c \in Nat /\ c * (x \div c) <= x
  BY FloorFacts
<1>2. c * (x \div c) \in Nat
  BY <1>1
<1>3. c * (x \div c) <= y
  BY <1>1, <1>2
<1>4. QED
  BY <1>1, <1>3, FloorIsMost

\* The first candle that begins in a window is at or before any that begins in it.
LEMMA CeilingIsLeast ==
  ASSUME NEW c \in Nat \ {0}, NEW x \in Nat, NEW q \in Nat, x <= c * q
  PROVE  Ceiling(x, c) \in Nat /\ Ceiling(x, c) <= q
<1> DEFINE y == x + (c - 1)
           r == y \div c
<1>1. y \in Nat
  OBVIOUS
<1>2. r \in Nat /\ c * r <= y
  <2> HIDE DEF y
  <2>1. QED
    BY <1>1, FloorFacts
<1>3. Ceiling(x, c) = r
  BY DEF Ceiling
<1>4. y < c * q + c
  <2>1. c * q \in Nat
    OBVIOUS
  <2>2. QED
    BY <2>1
<1> HIDE DEF y, r
<1>5. q + 1 <= r => c * (q + 1) <= c * r
  BY <1>2, TimesGrows
<1>6. c * (q + 1) = c * q + c /\ c * r \in Nat /\ c * q \in Nat
  BY <1>2
<1>7. r <= q
  BY <1>1, <1>2, <1>4, <1>5, <1>6
<1>8. QED
  BY <1>2, <1>3, <1>7

\* A window of n candles' length begins at or before the last n candles.
LEMMA WindowHasLast ==
  ASSUME NEW c \in Nat \ {0}, NEW t \in Nat, NEW n \in Nat, NEW b \in Nat, t \div c - n < b
  PROVE  /\ t - c * n < c * b
         /\ (IF c * n > t THEN 0 ELSE t - c * n) <= c * b
<1>1. t \div c \in Nat /\ t < c * (t \div c) + c
  BY FloorFacts
<1> DEFINE q == t \div c
<1> HIDE DEF q
<1>2. q \in Nat /\ t < c * q + c /\ q + 1 <= n + b
  BY <1>1 DEF q
<1>3. c * (q + 1) <= c * (n + b)
  BY <1>2, TimesGrows
<1>4. c * (q + 1) = c * q + c /\ c * (n + b) = c * n + c * b /\ c * q \in Nat /\ c * n \in Nat /\ c * b \in Nat
  BY <1>2
<1>5. t < c * n + c * b
  BY <1>2, <1>3, <1>4
<1>6. QED
  BY <1>4, <1>5

-----------------------------------------------------------------------------
(* Buckets of three minutes. *)

\* The buckets that some minutes make up by now.
Buckets(minutes) == {b \in 0..(now \div 6) : \E m \in (3 * b)..(3 * b + 2) : m \in minutes}

\* AggregateCandles gives the newest of finitely many buckets, none of which lies in the future.
LEMMA BucketsTyped ==
  ASSUME now \in Nat, NEW U \in SUBSET Nat, NEW n
  PROVE  /\ Buckets(U) \in SUBSET Nat /\ IsFiniteSet(Buckets(U)) /\ now \div 6 \in Nat
         /\ AggregateCandles(U, n) = NewestOf(Buckets(U), n)
         /\ \A b \in Buckets(U) : b <= now \div 6
<1>1. now \div 6 \in Nat
  OBVIOUS
<1>2. IsFiniteSet(0..(now \div 6)) /\ Buckets(U) \subseteq 0..(now \div 6)
  BY <1>1, FS_Interval DEF Buckets
<1>3. IsFiniteSet(Buckets(U))
  BY <1>2, FS_Subset
<1>4. AggregateCandles(U, n) = NewestOf(Buckets(U), n)
  BY DEF AggregateCandles, Buckets
<1>5. QED
  BY <1>1, <1>2, <1>3, <1>4

\* The last n buckets are among those kept.
LEMMA BucketKept ==
  ASSUME now \in Nat, NEW U \in SUBSET Nat, NEW n \in Nat, NEW b \in Nat, b <= now \div 6,
         now \div 6 - n < b, NEW m \in (3 * b)..(3 * b + 2), m \in U
  PROVE  b \in AggregateCandles(U, n)
<1>1. b \in Buckets(U)
  BY DEF Buckets
<1>2. now \div 6 - b < n
  OBVIOUS
<1>3. b \in NewestOf(Buckets(U), n)
  BY <1>1, <1>2, BucketsTyped, NewestHas
<1>4. QED
  BY <1>3, BucketsTyped

\* A minute of the last n buckets is among the newest 3n minutes.
LEMMA MinuteKept ==
  ASSUME now \in Nat, NEW S \in SUBSET Nat, \A u \in S : u <= now \div 2,
         NEW n \in Nat, NEW k \in Nat, 3 * n <= k, NEW b \in Nat, now \div 6 - n < b,
         NEW m \in (3 * b)..(3 * b + 2), m \in S
  PROVE  m \in NewestOf(S, k)
<1>1. now \div 2 \in Nat /\ now \div 2 - m < 3 * n
  OBVIOUS
<1>2. now \div 2 - m < k
  BY <1>1
<1>3. QED
  BY <1>1, <1>2, NewestHas

\* The buckets above a kept one are few.
LEMMA FewAbove ==
  ASSUME now \in Nat, NEW U \in SUBSET Nat, NEW n \in Nat, NEW b \in AggregateCandles(U, n)
  PROVE  /\ b \in Nat /\ b <= now \div 6 /\ \E u \in (3 * b)..(3 * b + 2) : u \in U
         /\ Above(Buckets(U), b) \in SUBSET Nat /\ IsFiniteSet(Above(Buckets(U), b))
         /\ Cardinality(Above(Buckets(U), b)) < n /\ Cardinality(Above(Buckets(U), b)) \in Nat
<1>1. b \in NewestOf(Buckets(U), n)
  BY BucketsTyped
<1>2. b \in Best(Buckets(U), n)
  BY <1>1, BucketsTyped, NewestFacts
<1>3. b \in Buckets(U) /\ Cardinality(Above(Buckets(U), b)) < n
  BY <1>2 DEF Best
<1>4. IsFiniteSet(Above(Buckets(U), b)) /\ Cardinality(Above(Buckets(U), b)) \in Nat
  BY BucketsTyped, AboveIsFinite
<1>5. Above(Buckets(U), b) \in SUBSET Nat
  BY BucketsTyped DEF Above
<1>6. b \in Nat /\ b <= now \div 6 /\ \E u \in (3 * b)..(3 * b + 2) : u \in U
  BY <1>3, BucketsTyped DEF Buckets
<1>7. QED
  BY <1>3, <1>4, <1>5, <1>6

\* A bucket made of the newest minutes, at least 3n of them, is cut only where n newer
\* buckets are kept instead.
LEMMA CutIsNotKept ==
  ASSUME now \in Nat, NEW S \in SUBSET Nat, IsFiniteSet(S), \A u \in S : u <= now \div 2,
         NEW n \in Nat, NEW k \in Nat, 3 * n <= k,
         NEW b \in AggregateCandles(NewestOf(S, k), n), NEW m \in (3 * b)..(3 * b + 2), m \in S
  PROVE  m \in NewestOf(S, k)
<1> SUFFICES ASSUME m \notin NewestOf(S, k) PROVE FALSE
  OBVIOUS
<1>1. PICK U \in SUBSET S : /\ U = NewestOf(S, k) /\ IsFiniteSet(U)
                            /\ k <= Cardinality(U) /\ \A x \in U : m < x
  BY NewestFacts, CutIsFull
<1>2. U \in SUBSET Nat /\ b \in AggregateCandles(U, n)
  BY <1>1
<1>3. PICK A \in SUBSET Nat : A = Above(Buckets(U), b) /\ IsFiniteSet(A) /\ Cardinality(A) < n
  BY <1>2, FewAbove
<1>4. b \in Nat /\ b \notin A
  BY <1>2, <1>3, FewAbove DEF Above
<1>5. ASSUME NEW u \in U PROVE u \div 3 = b \/ u \div 3 \in A
  <2>1. u \in Nat /\ m < u /\ u <= now \div 2
    BY <1>1
  <2>2. /\ u \div 3 \in Nat /\ u \in (3 * (u \div 3))..(3 * (u \div 3) + 2)
        /\ u \div 3 \in 0..(now \div 6) /\ b <= u \div 3
    BY <1>4, <2>1
  <2>3. u \div 3 \in Buckets(U)
    BY <2>2 DEF Buckets
  <2>4. QED
    BY <1>3, <1>4, <2>2, <2>3 DEF Above
<1>6. m \in (3 * b)..(3 * b + 2) /\ m \notin U
  BY <1>1
<1>7. Cardinality(U) < 3 * n
  BY <1>2, <1>3, <1>4, <1>5, <1>6, FewMinutes
<1>8. Cardinality(U) \in Nat
  BY <1>1, FS_CardinalityType
<1>9. QED
  BY <1>1, <1>7, <1>8

\* Where each of the n buckets up to a time has a minute, only those are kept, and later ones.
LEMMA KeptIsRecent ==
  ASSUME now \in Nat, NEW U \in SUBSET Nat, NEW n \in Nat, NEW t \in Nat, t <= now, n <= t \div 6,
         NEW b \in AggregateCandles(U, n),
         \A w \in 0..(t \div 6) : (t \div 6 - n < w /\ b < w) => \E u \in (3 * w)..(3 * w + 2) : u \in U
  PROVE  t \div 6 - n < b
<1> SUFFICES ASSUME b <= t \div 6 - n PROVE FALSE
  BY FewAbove
<1>1. /\ b \in Nat /\ Above(Buckets(U), b) \in SUBSET Nat /\ IsFiniteSet(Above(Buckets(U), b))
      /\ Cardinality(Above(Buckets(U), b)) < n /\ Cardinality(Above(Buckets(U), b)) \in Nat
  BY FewAbove
<1> DEFINE q == t \div 6
           X == (q - n + 1)..q
<1>2. q \in Nat /\ q <= now \div 6 /\ n <= q /\ b <= q - n
  OBVIOUS
<1>3. ASSUME NEW w \in X PROVE w \in Above(Buckets(U), b)
  <2>1. w \in 0..q /\ q - n < w /\ b < w /\ w \in 0..(now \div 6)
    BY <1>1, <1>2
  <2>2. \E u \in (3 * w)..(3 * w + 2) : u \in U
    BY <2>1
  <2>3. QED
    BY <2>1, <2>2 DEF Buckets, Above
<1>4. IsFiniteSet(X) /\ Cardinality(X) = n
  <2> HIDE DEF q
  <2>1. q - n + 1 \in Int /\ q \in Int /\ (IF q - n + 1 > q THEN 0 = n ELSE q - (q - n + 1) + 1 = n)
    BY <1>2
  <2>2. QED
    BY <2>1, FS_Interval
<1> HIDE DEF X, q
<1>5. X \in SUBSET Above(Buckets(U), b)
  BY <1>3
<1>6. Cardinality(X) <= Cardinality(Above(Buckets(U), b))
  BY <1>1, <1>5, FS_Subset
<1>7. QED
  BY <1>1, <1>4, <1>6

-----------------------------------------------------------------------------
(* How the adapters read candles. *)

\* In the length asked for and in one answer, of all candles or of a window of n.
InOneAnswer(p, d, limit, n) ==
  /\ p.unit = d /\ p.page = 0
  /\ limit > 0 => p.ask \in {0, limit} /\ p.keep \in {Every, limit}
  /\ (p.back = 0 /\ ~p.closed) \/ p.back = d * n

\* In minutes that are merged, the newest 3n of them or those of a window.
MergedInOne(p, n) ==
  /\ p.unit = 1 /\ p.page = 0 /\ ~p.closed /\ p.keep = n
  /\ (p.back = 0 /\ p.ask = 3 * n) \/ (p.back = 3 * n /\ p.ask = 0 /\ venue = "kraken")

\* In minutes that are merged, those of a window, page by page.
MergedInPages(p, n) ==
  /\ p.unit = 1 /\ p.page # 0 /\ p.closed /\ p.keep = n /\ p.back = 3 * n
  /\ venue \in {"coinbase", "korbit"}

Shaped(p, d, limit, n) == InOneAnswer(p, d, limit, n) \/ (d = 3 /\ (MergedInOne(p, n) \/ MergedInPages(p, n)))

\* Each adapter reads candles in one of the three ways.
LEMMA CandlesShaped ==
  ASSUME venue \in AllVenues, NEW d \in Nat \ {0}, NEW limit \in Nat
  PROVE  Shaped(CandlesPlan(d, limit), d, limit, OrElse(limit, CandleDefault))
<1>0. /\ CandleDefault \in Nat \ {0} /\ KorbitPage \in Nat \ {0} /\ CoinbasePage \in Nat \ {0}
      /\ Every = -1
  BY ReadsAssumption DEF Every
<1> DEFINE n == OrElse(limit, CandleDefault)
<1>n. n \in Nat \ {0} /\ (limit > 0 => n = limit)
  BY <1>0 DEF OrElse
<1> HIDE DEF n
<1>1. CASE venue = "okx"
  <2>1. CandlesPlan(d, limit) = OkxCandles(d, limit)
    BY <1>1 DEF CandlesPlan
  <2>2. OkxCandles(d, limit) =
          [unit |-> d, ask |-> limit, back |-> 0, closed |-> FALSE, page |-> 0, keep |-> Every]
    BY DEF OkxCandles, Newest, n
  <2>3. InOneAnswer(OkxCandles(d, limit), d, limit, n)
    BY <1>0, <1>n, <2>2 DEF InOneAnswer
  <2>4. QED
    BY <2>1, <2>3 DEF Shaped, n
<1>2. CASE venue = "bybit"
  <2>1. CandlesPlan(d, limit) = BybitCandles(d, limit)
    BY <1>2 DEF CandlesPlan
  <2>2. BybitCandles(d, limit) =
          [unit |-> d, ask |-> limit, back |-> 0, closed |-> FALSE, page |-> 0, keep |-> Every]
    BY DEF BybitCandles, Newest, n
  <2>3. InOneAnswer(BybitCandles(d, limit), d, limit, n)
    BY <1>0, <1>n, <2>2 DEF InOneAnswer
  <2>4. QED
    BY <2>1, <2>3 DEF Shaped, n
<1>3. CASE venue = "bitget"
  <2>1. CandlesPlan(d, limit) = BitgetCandles(d, limit)
    BY <1>3 DEF CandlesPlan
  <2>2. BitgetCandles(d, limit) =
          [unit |-> d, ask |-> limit, back |-> 0, closed |-> FALSE, page |-> 0, keep |-> Every]
    BY DEF BitgetCandles, Newest, n
  <2>3. InOneAnswer(BitgetCandles(d, limit), d, limit, n)
    BY <1>0, <1>n, <2>2 DEF InOneAnswer
  <2>4. QED
    BY <2>1, <2>3 DEF Shaped, n
<1>4. CASE venue = "binance"
  <2>1. CandlesPlan(d, limit) = BinanceCandles(d, limit)
    BY <1>4 DEF CandlesPlan
  <2>2. BinanceCandles(d, limit) =
          [unit |-> d, ask |-> limit, back |-> 0, closed |-> FALSE, page |-> 0, keep |-> Every]
    BY DEF BinanceCandles, Newest, n
  <2>3. InOneAnswer(BinanceCandles(d, limit), d, limit, n)
    BY <1>0, <1>n, <2>2 DEF InOneAnswer
  <2>4. QED
    BY <2>1, <2>3 DEF Shaped, n
<1>5. CASE venue = "coinbase"
  <2>1. CandlesPlan(d, limit) = CoinbaseCandles(d, limit)
    BY <1>5 DEF CandlesPlan
  <2>2. CASE d = 3
    <3>1. CoinbaseCandles(d, limit) =
            [unit |-> 1, ask |-> n, back |-> 3 * n, closed |-> TRUE, page |-> CoinbasePage, keep |-> n]
      BY <2>2 DEF CoinbaseCandles, Newest, Merged, n
    <3>2. MergedInPages(CoinbaseCandles(d, limit), n)
      BY <1>0, <1>n, <1>5, <3>1 DEF MergedInPages
    <3>3. QED
      BY <2>1, <2>2, <3>2 DEF Shaped, n
  <2>3. CASE d # 3
    <3>1. CoinbaseCandles(d, limit) =
            [unit |-> d, ask |-> n, back |-> d * n, closed |-> TRUE, page |-> 0, keep |-> Every]
      BY <2>3 DEF CoinbaseCandles, Newest, n
    <3>2. InOneAnswer(CoinbaseCandles(d, limit), d, limit, n)
      BY <1>0, <1>n, <3>1 DEF InOneAnswer
    <3>3. QED
      BY <2>1, <3>2 DEF Shaped, n
  <2>4. QED
    BY <2>2, <2>3
<1>6. CASE venue = "kraken"
  <2>1. CandlesPlan(d, limit) = KrakenCandles(d, limit)
    BY <1>6 DEF CandlesPlan
  <2>2. CASE d = 3
    <3>1. KrakenCandles(d, limit) =
            [unit |-> 1, ask |-> 0, back |-> 3 * n, closed |-> FALSE, page |-> 0, keep |-> n]
      <4>1. KrakenCandles(d, limit) = [Newest(1, 0, n) EXCEPT !.back = d * n]
        BY <2>2, Zenon DEF KrakenCandles, n
      <4>2. d * n = 3 * n
        BY <2>2
      <4>3. QED
        BY <4>1, <4>2 DEF Newest
    <3>2. MergedInOne(KrakenCandles(d, limit), n)
      BY <1>0, <1>n, <1>6, <3>1 DEF MergedInOne
    <3>3. QED
      BY <2>1, <2>2, <3>2 DEF Shaped, n
  <2>3. CASE d # 3
    <3>1. KrakenCandles(d, limit) =
            [unit |-> d, ask |-> 0, back |-> d * n, closed |-> FALSE, page |-> 0, keep |-> n]
      <4>1. KrakenCandles(d, limit) = [Newest(d, 0, n) EXCEPT !.back = d * n]
        BY <2>3, Zenon DEF KrakenCandles, n
      <4>2. d * n = d * n
        BY <2>3
      <4>3. QED
        BY <4>1, <4>2 DEF Newest
    <3>2. InOneAnswer(KrakenCandles(d, limit), d, limit, n)
      BY <1>0, <1>n, <3>1 DEF InOneAnswer
    <3>3. QED
      BY <2>1, <3>2 DEF Shaped, n
  <2>4. QED
    BY <2>2, <2>3
<1>7. CASE venue = "gateio"
  <2>1. CandlesPlan(d, limit) = GateioCandles(d, limit)
    BY <1>7 DEF CandlesPlan
  <2>2. CASE d = 3
    <3>1. GateioCandles(d, limit) =
            [unit |-> 1, ask |-> 3 * n, back |-> 0, closed |-> FALSE, page |-> 0, keep |-> n]
      BY <2>2 DEF GateioCandles, Newest, Merged, n
    <3>2. MergedInOne(GateioCandles(d, limit), n)
      BY <1>0, <1>n, <1>7, <3>1 DEF MergedInOne
    <3>3. QED
      BY <2>1, <2>2, <3>2 DEF Shaped, n
  <2>3. CASE d # 3
    <3>1. GateioCandles(d, limit) =
            [unit |-> d, ask |-> n, back |-> 0, closed |-> FALSE, page |-> 0, keep |-> Every]
      BY <2>3 DEF GateioCandles, Newest, n
    <3>2. InOneAnswer(GateioCandles(d, limit), d, limit, n)
      BY <1>0, <1>n, <3>1 DEF InOneAnswer
    <3>3. QED
      BY <2>1, <3>2 DEF Shaped, n
  <2>4. QED
    BY <2>2, <2>3
<1>8. CASE venue = "kucoin"
  <2>1. CandlesPlan(d, limit) = KucoinCandles(d, limit)
    BY <1>8 DEF CandlesPlan
  <2>2. KucoinCandles(d, limit) =
          [unit |-> d, ask |-> 0, back |-> 0, closed |-> FALSE, page |-> 0, keep |-> n]
    BY DEF KucoinCandles, Newest, n
  <2>3. InOneAnswer(KucoinCandles(d, limit), d, limit, n)
    BY <1>0, <1>n, <2>2 DEF InOneAnswer
  <2>4. QED
    BY <2>1, <2>3 DEF Shaped, n
<1>9. CASE venue = "htx"
  <2>1. CandlesPlan(d, limit) = HtxCandles(d, limit)
    BY <1>9 DEF CandlesPlan
  <2>2. CASE d = 3
    <3>1. HtxCandles(d, limit) =
            [unit |-> 1, ask |-> 3 * n, back |-> 0, closed |-> FALSE, page |-> 0, keep |-> n]
      BY <2>2 DEF HtxCandles, Newest, Merged, n
    <3>2. MergedInOne(HtxCandles(d, limit), n)
      BY <1>0, <1>n, <1>9, <3>1 DEF MergedInOne
    <3>3. QED
      BY <2>1, <2>2, <3>2 DEF Shaped, n
  <2>3. CASE d # 3
    <3>1. HtxCandles(d, limit) =
            [unit |-> d, ask |-> n, back |-> 0, closed |-> FALSE, page |-> 0, keep |-> Every]
      BY <2>3 DEF HtxCandles, Newest, n
    <3>2. InOneAnswer(HtxCandles(d, limit), d, limit, n)
      BY <1>0, <1>n, <3>1 DEF InOneAnswer
    <3>3. QED
      BY <2>1, <3>2 DEF Shaped, n
  <2>4. QED
    BY <2>2, <2>3
<1>10. CASE venue = "mexc"
  <2>1. CandlesPlan(d, limit) = MexcCandles(d, limit)
    BY <1>10 DEF CandlesPlan
  <2>2. CASE d = 3
    <3>1. MexcCandles(d, limit) =
            [unit |-> 1, ask |-> 3 * n, back |-> 0, closed |-> FALSE, page |-> 0, keep |-> n]
      BY <2>2 DEF MexcCandles, Newest, Merged, n
    <3>2. MergedInOne(MexcCandles(d, limit), n)
      BY <1>0, <1>n, <1>10, <3>1 DEF MergedInOne
    <3>3. QED
      BY <2>1, <2>2, <3>2 DEF Shaped, n
  <2>3. CASE d # 3
    <3>1. MexcCandles(d, limit) =
            [unit |-> d, ask |-> n, back |-> 0, closed |-> FALSE, page |-> 0, keep |-> Every]
      BY <2>3 DEF MexcCandles, Newest, n
    <3>2. InOneAnswer(MexcCandles(d, limit), d, limit, n)
      BY <1>0, <1>n, <3>1 DEF InOneAnswer
    <3>3. QED
      BY <2>1, <3>2 DEF Shaped, n
  <2>4. QED
    BY <2>2, <2>3
<1>11. CASE venue = "cryptocom"
  <2>1. CandlesPlan(d, limit) = CryptocomCandles(d, limit)
    BY <1>11 DEF CandlesPlan
  <2>2. CASE d = 3
    <3>1. CryptocomCandles(d, limit) =
            [unit |-> 1, ask |-> 3 * n, back |-> 0, closed |-> FALSE, page |-> 0, keep |-> n]
      BY <2>2 DEF CryptocomCandles, Newest, Merged, n
    <3>2. MergedInOne(CryptocomCandles(d, limit), n)
      BY <1>0, <1>n, <1>11, <3>1 DEF MergedInOne
    <3>3. QED
      BY <2>1, <2>2, <3>2 DEF Shaped, n
  <2>3. CASE d # 3
    <3>1. CryptocomCandles(d, limit) =
            [unit |-> d, ask |-> n, back |-> 0, closed |-> FALSE, page |-> 0, keep |-> Every]
      BY <2>3 DEF CryptocomCandles, Newest, n
    <3>2. InOneAnswer(CryptocomCandles(d, limit), d, limit, n)
      BY <1>0, <1>n, <3>1 DEF InOneAnswer
    <3>3. QED
      BY <2>1, <3>2 DEF Shaped, n
  <2>4. QED
    BY <2>2, <2>3
<1>12. CASE venue = "korbit"
  <2>1. CandlesPlan(d, limit) = KorbitCandles(d, limit)
    BY <1>12 DEF CandlesPlan
  <2>2. CASE d = 3
    <3>1. KorbitCandles(d, limit) =
            [unit |-> 1, ask |-> 0, back |-> 3 * n, closed |-> TRUE, page |-> KorbitPage, keep |-> n]
      BY <2>2 DEF KorbitCandles, Newest, Merged, n
    <3>2. MergedInPages(KorbitCandles(d, limit), n)
      BY <1>0, <1>n, <1>12, <3>1 DEF MergedInPages
    <3>3. QED
      BY <2>1, <2>2, <3>2 DEF Shaped, n
  <2>3. CASE d # 3
    <3>1. KorbitCandles(d, limit) =
            [unit |-> d, ask |-> n, back |-> 0, closed |-> FALSE, page |-> 0, keep |-> Every]
      BY <2>3 DEF KorbitCandles, Newest, n
    <3>2. InOneAnswer(KorbitCandles(d, limit), d, limit, n)
      BY <1>0, <1>n, <3>1 DEF InOneAnswer
    <3>3. QED
      BY <2>1, <3>2 DEF Shaped, n
  <2>4. QED
    BY <2>2, <2>3
<1>13. CASE venue = "coinone"
  <2>1. CandlesPlan(d, limit) = CoinoneCandles(d, limit)
    BY <1>13 DEF CandlesPlan
  <2>2. CoinoneCandles(d, limit) =
          [unit |-> d, ask |-> limit, back |-> 0, closed |-> FALSE, page |-> 0, keep |-> Every]
    BY DEF CoinoneCandles, Newest, n
  <2>3. InOneAnswer(CoinoneCandles(d, limit), d, limit, n)
    BY <1>0, <1>n, <2>2 DEF InOneAnswer
  <2>4. QED
    BY <2>1, <2>3 DEF Shaped, n
<1>14. CASE venue = "bithumb"
  <2>1. CandlesPlan(d, limit) = BithumbCandles(d, limit)
    BY <1>14 DEF CandlesPlan
  <2>2. BithumbCandles(d, limit) =
          [unit |-> d, ask |-> limit, back |-> 0, closed |-> FALSE, page |-> 0, keep |-> Every]
    BY DEF BithumbCandles, Newest, n
  <2>3. InOneAnswer(BithumbCandles(d, limit), d, limit, n)
    BY <1>0, <1>n, <2>2 DEF InOneAnswer
  <2>4. QED
    BY <2>1, <2>3 DEF Shaped, n
<1>15. CASE venue = "upbit"
  <2>1. CandlesPlan(d, limit) = UpbitCandles(d, limit)
    BY <1>15 DEF CandlesPlan
  <2>2. UpbitCandles(d, limit) =
          [unit |-> d, ask |-> limit, back |-> 0, closed |-> FALSE, page |-> 0, keep |-> Every]
    BY DEF UpbitCandles, Newest, n
  <2>3. InOneAnswer(UpbitCandles(d, limit), d, limit, n)
    BY <1>0, <1>n, <2>2 DEF InOneAnswer
  <2>4. QED
    BY <2>1, <2>3 DEF Shaped, n
<1>16. QED
  BY <1>1, <1>2, <1>3, <1>4, <1>5, <1>6, <1>7, <1>8, <1>9, <1>10, <1>11, <1>12, <1>13, <1>14, <1>15 DEF AllVenues, n

-----------------------------------------------------------------------------
(* What a page of candles holds. *)

\* Where the window of a read begins.
CandleStart == IF Plan.back = 0 \/ 2 * Plan.back > call.begun THEN 0 ELSE call.begun - 2 * Plan.back

\* While a read of candles goes on, one answer is asked for from the start of the window,
\* and the pages taken have brought every traded minute of the window up to the cursor.
WindowInv ==
  (Running /\ read.kind = "candles") =>
    /\ Plan.page = 0 => call.cursor = CandleStart
    /\ Plan.page # 0 => \A m \in 0..call.cursor :
         (CandleStart < 2 * m /\ 2 * m <= call.cursor /\ Traded(m)) => m \in call.units

CandleInv == WindowInv /\ CandlesAreRight

\* A minute's candle is there once the minute has begun, if it saw a trade.
LEMMA MinuteCandle ==
  ASSUME NEW u \in Nat, NEW t
  PROVE  HasCandle(1, u, t) <=> (2 * u <= t /\ Traded(u))
<1>1. (1 * u)..(1 * u + 1 - 1) = {u}
  OBVIOUS
<1>2. QED
  BY <1>1 DEF HasCandle

\* A candle that is there stays.
LEMMA CandleStays ==
  ASSUME NEW d \in Nat \ {0}, NEW b \in Nat, NEW s \in Nat, NEW t \in Nat, s <= t, HasCandle(d, b, s)
  PROVE  HasCandle(d, b, t)
<1>1. PICK m \in (d * b)..(d * b + d - 1) : 2 * m <= s /\ Traded(m)
  BY DEF HasCandle
<1>2. m \in Nat /\ 2 * m <= t
  <2>1. d * b \in Nat
    OBVIOUS
  <2>2. QED
    BY <1>1, <2>1
<1>3. QED
  BY <1>1, <1>2 DEF HasCandle

\* What is known of a read of candles that may be answered.
LEMMA CandleRead ==
  ASSUME ReadsInv, MayAnswer, read.kind = "candles"
  PROVE  LET n == OrElse(read.limit, CandleDefault) IN
         /\ Running /\ read.minutes \in Nat \ {0} /\ read.limit \in Nat
         /\ n \in Nat \ {0} /\ n <= CandleDefault /\ (read.limit > 0 => n = read.limit)
         /\ now \in Nat /\ call.begun \in Nat /\ call.begun <= now /\ 6 * n < call.begun
         /\ 3 * n <= Unasked /\ Unasked \in Nat
         /\ call.cursor \in Nat /\ call.units \in SUBSET Nat /\ (Plan.page = 0 => call.units = {})
         /\ Plan \in Plans /\ Plan.unit # 0 /\ Shaped(Plan, read.minutes, read.limit, n)
<1>1. Running /\ Sendable
  BY DEF MayAnswer
<1>2. todo \in Seq(AllReads) /\ todo # <<>> /\ venue \in AllVenues /\ call \in Calls /\ now \in Nat
  BY <1>1 DEF Running, ReadsInv, ReadsTyped
<1>3. read.minutes \in Nat \ {0} /\ read.limit \in Nat
  BY <1>2, ReadTyped
<1>4. read.limit <= CandleDefault
  BY <1>1 DEF Sendable, Sized, Validate
<1>5. CandleDefault \in Nat \ {0} /\ Unasked \in Nat /\ Unasked >= 3 * CandleDefault
  BY ReadsAssumption, RunsAssumption
<1> DEFINE n == OrElse(read.limit, CandleDefault)
<1>6. n \in Nat \ {0} /\ n <= CandleDefault /\ (read.limit > 0 => n = read.limit)
  BY <1>3, <1>4, <1>5 DEF OrElse
<1>7. call.begun > 6 * CandleDefault /\ call.begun <= now /\ Plan = CandlesPlan(read.minutes, read.limit)
  BY <1>1 DEF ReadsInv, CallInv, Running, Plan
<1>8. call.begun \in Nat /\ call.cursor \in Nat /\ call.units \in SUBSET Nat
  BY <1>2 DEF Calls
<1>9. Plan.page = 0 => call.units = {}
  BY <1>1 DEF ReadsInv, CallInv, Running
<1>10. Plan \in Plans /\ Plan.unit # 0
  BY <1>1, PageFits DEF CandlesFit
<1>11. Shaped(Plan, read.minutes, read.limit, n)
  BY <1>2, <1>3, <1>7, CandlesShaped
<1> HIDE DEF n
<1>12. 6 * n < call.begun /\ 3 * n <= Unasked
  BY <1>5, <1>6, <1>7, <1>8
<1>13. QED
  BY <1>1, <1>2, <1>3, <1>5, <1>6, <1>7, <1>8, <1>9, <1>10, <1>11, <1>12 DEF n

\* The candles of a page are the newest of those that begin in it.
LEMMA PageOfCandles ==
  ASSUME ReadsInv, MayAnswer, read.kind = "candles"
  PROVE  \E S \in SUBSET Nat, lo \in Nat, hi \in Nat :
           /\ lo = Ceiling(call.cursor, 2 * Plan.unit)
           /\ hi = (IF Plan.closed THEN PageEnd ELSE now) \div (2 * Plan.unit)
           /\ hi <= now \div (2 * Plan.unit)
           /\ S = {u \in lo..hi : HasCandle(Plan.unit, u, now)} /\ IsFiniteSet(S)
           /\ CandlesPage = NewestOf(S, OrElse(Ask, Unasked))
<1>1. /\ now \in Nat /\ call.begun \in Nat /\ call.begun <= now /\ Plan \in Plans /\ Plan.unit # 0
      /\ call.cursor \in Nat /\ Running
  BY CandleRead
<1>2. PageEnd \in Nat /\ PageEnd <= call.begun
  BY <1>1, PageFits
<1>3. 2 * Plan.unit \in Nat \ {0}
  BY <1>1 DEF Plans
<1>4. PICK c \in Nat \ {0} : c = 2 * Plan.unit
  BY <1>3
<1>5. PICK to \in Nat : to = (IF Plan.closed THEN PageEnd ELSE now) /\ to <= now
  BY <1>1, <1>2
<1>6. Least(to, now) = to
  BY <1>1, <1>5 DEF Least
<1>7. to \div c \in Nat /\ to \div c <= now \div c
  BY <1>1, <1>5, FloorFacts, FloorGrows
<1>8. Ceiling(call.cursor, c) \in Nat
  BY <1>1, <1>4 DEF Ceiling
<1>9. PICK lo \in Nat, hi \in Nat : lo = Ceiling(call.cursor, c) /\ hi = to \div c
  BY <1>7, <1>8
<1> DEFINE S == {u \in lo..hi : HasCandle(Plan.unit, u, now)}
<1>10. S \in SUBSET Nat /\ IsFiniteSet(S)
  <2>1. IsFiniteSet(lo..hi) /\ S \in SUBSET (lo..hi)
    BY FS_Interval
  <2>2. QED
    BY <2>1, FS_Subset
<1>11. CandlesPage = NewestOf(S, OrElse(Ask, Unasked))
  BY <1>4, <1>5, <1>6, <1>9 DEF CandlesPage, CandlesSent
<1>12. QED
  BY <1>4, <1>5, <1>7, <1>9, <1>10, <1>11

-----------------------------------------------------------------------------
(* What a read of candles ends with. *)

\* None of the last candles is missing.
RecentAre(starts) ==
  read.limit > 0 =>
    \A b \in 0..(call.begun \div (2 * read.minutes)) :
      (/\ AmongLast(b, read.minutes, read.limit, call.begun)
       /\ AmongLast(b, read.minutes, read.limit, now)
       /\ HasCandle(read.minutes, b, call.begun)) => b \in starts

\* Every merged bucket has all its minutes.
WholeAre(starts, units) ==
  (Merges /\ ~(venue \in {"coinbase", "korbit", "kraken"} /\ Quiet)) =>
    \A b \in starts : \A m \in (3 * b)..(3 * b + 2) : (2 * m <= call.begun /\ Traded(m)) => m \in units

\* Candles of the length asked for, in one answer.
LEMMA OneAnswerEnds ==
  ASSUME ReadsInv, WindowInv, MayAnswer, read.kind = "candles",
         NEW n, n = OrElse(read.limit, CandleDefault),
         InOneAnswer(Plan, read.minutes, read.limit, n),
         NEW units, units = call.units \cup CandlesPage
  PROVE  RecentAre(CandlesOf(units)) /\ WholeAre(CandlesOf(units), units)
<1>0. /\ Running /\ read.minutes \in Nat \ {0} /\ read.limit \in Nat
      /\ n \in Nat \ {0} /\ n <= CandleDefault /\ (read.limit > 0 => n = read.limit)
      /\ now \in Nat /\ call.begun \in Nat /\ call.begun <= now
      /\ 3 * n <= Unasked /\ Unasked \in Nat
      /\ call.cursor \in Nat /\ (Plan.page = 0 => call.units = {}) /\ Plan \in Plans
  BY CandleRead
<1>1. /\ Plan.unit = read.minutes /\ Plan.page = 0
      /\ read.limit > 0 => Plan.ask \in {0, read.limit} /\ Plan.keep \in {Every, read.limit}
      /\ (Plan.back = 0 /\ ~Plan.closed) \/ Plan.back = read.minutes * n
  BY DEF InOneAnswer
<1>2. ~Merges
  BY <1>0, <1>1 DEF Merges
<1>3. WholeAre(CandlesOf(units), units)
  BY <1>2 DEF WholeAre
<1>4. units = CandlesPage
  BY <1>0, <1>1
<1>5. CandlesOf(units) = NewestOf(units, Plan.keep)
  BY <1>2 DEF CandlesOf
<1>6. Ask = Plan.ask /\ PageEnd = call.begun
  BY <1>0, <1>1, PageFits
<1>7. PICK c \in Nat \ {0} : c = 2 * read.minutes
  BY <1>0
<1>8. PICK S \in SUBSET Nat, lo \in Nat, hi \in Nat :
        /\ lo = Ceiling(call.cursor, c)
        /\ hi = (IF Plan.closed THEN call.begun ELSE now) \div c
        /\ hi <= now \div c
        /\ S = {u \in lo..hi : HasCandle(read.minutes, u, now)} /\ IsFiniteSet(S)
        /\ CandlesPage = NewestOf(S, OrElse(Ask, Unasked))
  BY <1>1, <1>6, <1>7, PageOfCandles
<1>9. ASSUME read.limit > 0, NEW b \in 0..(call.begun \div c),
             AmongLast(b, read.minutes, read.limit, call.begun),
             AmongLast(b, read.minutes, read.limit, now), HasCandle(read.minutes, b, call.begun)
      PROVE  b \in CandlesOf(units)
  <2>1. /\ n = read.limit /\ call.begun \div c - n < b /\ now \div c - n < b
        /\ b <= call.begun \div c /\ b \in Nat
    BY <1>0, <1>7, <1>9, FloorFacts DEF AmongLast
  <2>2. lo <= b
    <3>1. call.cursor = CandleStart
      BY <1>0, <1>1 DEF WindowInv
    <3>2. CASE Plan.back = 0
      <4>1. call.cursor = 0
        BY <3>1, <3>2 DEF CandleStart
      <4>2. 0 <= c * b
        BY <2>1
      <4>3. QED
        BY <1>8, <2>1, <4>1, <4>2, CeilingIsLeast
    <3>3. CASE Plan.back # 0
      <4>1. 2 * Plan.back = c * n
        BY <1>0, <1>1, <1>7, <3>3
      <4>2. call.cursor = IF c * n > call.begun THEN 0 ELSE call.begun - c * n
        BY <3>1, <3>3, <4>1 DEF CandleStart
      <4>3. call.cursor <= c * b
        BY <1>0, <2>1, <4>2, WindowHasLast
      <4>4. QED
        BY <1>0, <1>8, <2>1, <4>3, CeilingIsLeast
    <3>4. QED
      BY <3>2, <3>3
  <2>3. b <= hi
    <3>1. call.begun \div c <= now \div c /\ call.begun \div c \in Nat /\ now \div c \in Nat
      BY <1>0, FloorGrows, FloorFacts
    <3>2. QED
      BY <1>8, <2>1, <3>1
  <2>4. HasCandle(read.minutes, b, now)
    BY <1>0, <1>9, <2>1, CandleStays
  <2>5. b \in S
    BY <1>8, <2>1, <2>2, <2>3, <2>4
  <2>6. now \div c \in Nat /\ now \div c - b < n
    BY <1>0, <2>1, FloorFacts
  <2>7. \A x \in S : x <= now \div c
    <3>1. \A x \in S : x \in Nat /\ x <= hi
      BY <1>8
    <3>2. QED
      BY <1>8, <2>6, <3>1
  <2>8. b \in NewestOf(S, OrElse(Ask, Unasked))
    <3>1. OrElse(Ask, Unasked) \in Nat /\ n <= OrElse(Ask, Unasked)
      BY <1>0, <1>1, <1>6, <1>9, <2>1 DEF OrElse
    <3>2. now \div c - b < OrElse(Ask, Unasked)
      BY <1>0, <2>1, <2>6, <3>1
    <3>3. QED
      BY <2>5, <2>6, <2>7, <3>1, <3>2, NewestHas
  <2>9. b \in units /\ units \in SUBSET S
    <3>1. units = NewestOf(S, OrElse(Ask, Unasked))
      BY <1>4, <1>8
    <3>2. NewestOf(S, OrElse(Ask, Unasked)) \in SUBSET S
      BY DEF NewestOf
    <3>3. QED
      BY <2>8, <3>1, <3>2
  <2>10. Plan.keep \in Nat \cup {Every} /\ (Plan.keep # Every => Plan.keep = n)
    BY <1>0, <1>1, <1>9, <2>1
  <2>11. b \in NewestOf(units, Plan.keep)
    <3>1. \A x \in units : x <= now \div c
      BY <2>7, <2>9
    <3>2. units \in SUBSET Nat
      BY <2>9
    <3>3. Plan.keep # Every => now \div c - b < Plan.keep
      BY <2>6, <2>10
    <3>4. QED
      BY <2>6, <2>9, <2>10, <3>1, <3>2, <3>3, NewestHas
  <2>12. QED
    BY <1>5, <2>11
<1>10. RecentAre(CandlesOf(units))
  BY <1>7, <1>9 DEF RecentAre
<1>11. QED
  BY <1>3, <1>10

\* Minutes merged, in one answer.
LEMMA MergedOnceEnds ==
  ASSUME ReadsInv, WindowInv, MayAnswer, read.kind = "candles",
         NEW n, n = OrElse(read.limit, CandleDefault), read.minutes = 3, MergedInOne(Plan, n),
         NEW units, units = call.units \cup CandlesPage
  PROVE  RecentAre(CandlesOf(units)) /\ WholeAre(CandlesOf(units), units)
<1>0. /\ Running /\ read.limit \in Nat
      /\ n \in Nat \ {0} /\ n <= CandleDefault /\ (read.limit > 0 => n = read.limit)
      /\ now \in Nat /\ call.begun \in Nat /\ call.begun <= now /\ 6 * n < call.begun
      /\ 3 * n <= Unasked /\ Unasked \in Nat
      /\ call.cursor \in Nat /\ (Plan.page = 0 => call.units = {})
  BY CandleRead
<1>1. /\ Plan.unit = 1 /\ Plan.page = 0 /\ ~Plan.closed /\ Plan.keep = n
      /\ (Plan.back = 0 /\ Plan.ask = 3 * n) \/ (Plan.back = 3 * n /\ Plan.ask = 0 /\ venue = "kraken")
  BY DEF MergedInOne
<1>2. CandlesOf(units) = AggregateCandles(units, n)
  BY <1>1 DEF CandlesOf, Merges
<1>3. units = CandlesPage
  BY <1>0, <1>1
<1>4. Ask = Plan.ask
  BY <1>0, <1>1, PageFits
<1>5. PICK k \in Nat : k = OrElse(Ask, Unasked) /\ 3 * n <= k
  BY <1>0, <1>1, <1>4 DEF OrElse
<1>6. PICK S \in SUBSET Nat, lo \in Nat, hi \in Nat :
        /\ lo = Ceiling(call.cursor, 2) /\ hi = now \div 2
        /\ S = {u \in lo..hi : HasCandle(1, u, now)} /\ IsFiniteSet(S) /\ units = NewestOf(S, k)
  <2>1. PICK S \in SUBSET Nat, lo \in Nat, hi \in Nat :
          /\ lo = Ceiling(call.cursor, 2 * 1) /\ hi = now \div (2 * 1)
          /\ S = {u \in lo..hi : HasCandle(1, u, now)} /\ IsFiniteSet(S)
          /\ CandlesPage = NewestOf(S, OrElse(Ask, Unasked))
    BY <1>1, PageOfCandles
  <2>2. 2 * 1 = 2
    OBVIOUS
  <2>3. QED
    BY <1>3, <1>5, <2>1, <2>2
<1>7. \A u \in Nat : u \in S <=> lo <= u /\ 2 * u <= now /\ Traded(u)
  <2>1. ASSUME NEW u \in Nat PROVE u <= now \div 2 <=> 2 * u <= now
    BY <1>0
  <2>2. QED
    BY <1>0, <1>6, <2>1, MinuteCandle
<1>8. \A u \in S : u <= now \div 2
  BY <1>6
<1>9. ASSUME NEW b \in Nat, call.begun \div 6 - n < b, NEW m \in (3 * b)..(3 * b + 2),
             2 * m <= call.begun, Traded(m)
      PROVE  m \in S
  <2>1. m \in Nat /\ 2 * m <= now /\ 6 * b <= 2 * m
    BY <1>0, <1>9
  <2>2. call.cursor <= 2 * m
    <3>1. call.cursor = IF Plan.back = 0 \/ 2 * Plan.back > call.begun THEN 0 ELSE call.begun - 2 * Plan.back
      BY <1>0, <1>1 DEF WindowInv, CandleStart
    <3>2. CASE Plan.back = 0
      BY <2>1, <3>1, <3>2
    <3>3. CASE Plan.back = 3 * n
      <4>1. call.begun - 6 * n < 6 * b
        BY <1>0, <1>9
      <4>2. QED
        BY <1>0, <2>1, <3>1, <3>3, <4>1
    <3>4. QED
      BY <1>1, <3>2, <3>3
  <2>3. lo <= m
    <3>1. 2 \in Nat \ {0}
      OBVIOUS
    <3>2. Ceiling(call.cursor, 2) <= m
      BY <1>0, <2>1, <2>2, <3>1, CeilingIsLeast
    <3>3. QED
      BY <1>6, <3>2
  <2>4. QED
    BY <1>7, <1>9, <2>1, <2>3
<1>10. ASSUME read.limit > 0, NEW b \in 0..(call.begun \div 6),
              AmongLast(b, 3, read.limit, call.begun), AmongLast(b, 3, read.limit, now),
              HasCandle(3, b, call.begun)
       PROVE  b \in CandlesOf(units)
  <2>1. n = read.limit /\ call.begun \div 6 - n < b /\ now \div 6 - n < b /\ b <= now \div 6 /\ b \in Nat
    BY <1>0, <1>10 DEF AmongLast
  <2>2. PICK m \in (3 * b)..(3 * b + 2) : 2 * m <= call.begun /\ Traded(m)
    BY <1>10, <2>1 DEF HasCandle
  <2>3. m \in S
    BY <1>9, <2>1, <2>2
  <2>4. m \in units
    <3>1. m \in NewestOf(S, k)
      BY <1>0, <1>5, <1>8, <2>1, <2>3, MinuteKept
    <3>2. QED
      BY <1>6, <3>1
  <2>5. units \in SUBSET Nat
    BY <1>6 DEF NewestOf
  <2>6. b \in AggregateCandles(units, n)
    BY <1>0, <2>1, <2>4, <2>5, BucketKept
  <2>7. QED
    BY <1>2, <2>6
<1>11. ASSUME ~(venue \in {"coinbase", "korbit", "kraken"} /\ Quiet), NEW b \in CandlesOf(units),
              NEW m \in (3 * b)..(3 * b + 2), 2 * m <= call.begun, Traded(m)
       PROVE  m \in units
  <2>1. units \in SUBSET Nat /\ b \in AggregateCandles(units, n)
    BY <1>2, <1>6, <1>11 DEF NewestOf
  <2>2. b \in Nat /\ b <= now \div 6 /\ \E u \in (3 * b)..(3 * b + 2) : u \in units
    BY <1>0, <2>1, FewAbove
  <2>3. m \in Nat /\ 2 * m <= now
    BY <1>0, <1>11, <2>2
  <2>4. CASE m \in S
    <3>1. b \in AggregateCandles(NewestOf(S, k), n)
      BY <1>6, <2>1
    <3>2. IsFiniteSet(S)
      BY <1>6
    <3>3. m \in NewestOf(S, k)
      BY <1>0, <1>5, <1>8, <2>4, <3>1, <3>2, CutIsNotKept
    <3>4. QED
      BY <1>6, <3>3
  <2>5. CASE m \notin S
    <3>1. venue = "kraken" /\ ~Quiet
      <4>1. CASE Plan.back = 0
        <5>1. call.cursor = 0
          BY <1>0, <1>1, <4>1 DEF WindowInv, CandleStart
        <5>2. lo <= m
          BY <1>6, <2>3, <5>1, CeilingIsLeast
        <5>3. QED
          BY <1>7, <1>11, <2>3, <2>5, <5>2
      <4>2. CASE venue = "kraken"
        BY <1>11, <4>2
      <4>3. QED
        BY <1>1, <4>1, <4>2
    <3>2. ASSUME NEW w \in 0..(call.begun \div 6), call.begun \div 6 - n < w, b < w
          PROVE  \E u \in (3 * w)..(3 * w + 2) : u \in units
      <4>1. AmongLast(w, 3, n, call.begun)
        BY <1>0, <3>2 DEF AmongLast
      <4>2. HasCandle(3, w, call.begun)
        BY <1>0, <3>1, <4>1 DEF Quiet
      <4>3. PICK u \in (3 * w)..(3 * w + 2) : 2 * u <= call.begun /\ Traded(u)
        BY <4>2 DEF HasCandle
      <4>4. u \in S
        BY <1>0, <1>9, <3>2, <4>3
      <4>5. PICK x \in (3 * b)..(3 * b + 2) : x \in units
        BY <2>2
      <4>6. x <= u
        BY <2>2, <3>2
      <4>7. u \in units
        BY <1>6, <4>4, <4>5, <4>6, NewestFacts
      <4>8. QED
        BY <4>7
    <3>3. n <= call.begun \div 6
      BY <1>0
    <3>4. call.begun \div 6 - n < b
      BY <1>0, <2>1, <3>2, <3>3, KeptIsRecent
    <3>5. QED
      BY <1>9, <1>11, <2>2, <2>5, <3>4
  <2>6. QED
    BY <2>4, <2>5
<1>12. RecentAre(CandlesOf(units))
  <2>1. 2 * read.minutes = 6
    OBVIOUS
  <2>2. QED
    BY <1>10, <2>1 DEF RecentAre
<1>13. WholeAre(CandlesOf(units), units)
  BY <1>11 DEF WholeAre
<1>14. QED
  BY <1>12, <1>13

\* After a page every traded minute of the window up to its end is there.
LEMMA PageBrings ==
  ASSUME ReadsInv, WindowInv, MayAnswer, read.kind = "candles",
         NEW n, n = OrElse(read.limit, CandleDefault), MergedInPages(Plan, n)
  PROVE  \A m \in 0..PageEnd :
           (CandleStart < 2 * m /\ 2 * m <= PageEnd /\ Traded(m)) => m \in call.units \cup CandlesPage
<1>0. /\ Running /\ now \in Nat /\ call.begun \in Nat /\ call.begun <= now
      /\ Unasked \in Nat /\ call.cursor \in Nat
  BY CandleRead
<1>1. Plan.unit = 1 /\ Plan.page # 0 /\ Plan.closed
  BY DEF MergedInPages
<1>2. /\ PageEnd \in Nat /\ PageEnd <= call.begun /\ call.cursor < PageEnd
      /\ Ask = Ceiling(PageEnd - call.cursor, 2) /\ Ask \in 1..Plan.page
  BY <1>0, <1>1, PageFits
<1>3. OrElse(Ask, Unasked) = Ask /\ Ask \in Nat
  BY <1>2 DEF OrElse
<1>4. PICK S \in SUBSET Nat, lo \in Nat, hi \in Nat :
        /\ lo = Ceiling(call.cursor, 2) /\ hi = PageEnd \div 2
        /\ S = {u \in lo..hi : HasCandle(1, u, now)} /\ CandlesPage = NewestOf(S, Ask)
  <2>1. PICK S \in SUBSET Nat, lo \in Nat, hi \in Nat :
          /\ lo = Ceiling(call.cursor, 2 * 1) /\ hi = PageEnd \div (2 * 1)
          /\ S = {u \in lo..hi : HasCandle(1, u, now)} /\ IsFiniteSet(S)
          /\ CandlesPage = NewestOf(S, OrElse(Ask, Unasked))
    BY <1>1, PageOfCandles
  <2>2. 2 * 1 = 2
    OBVIOUS
  <2>3. QED
    BY <1>3, <2>1, <2>2
<1>5. SUFFICES ASSUME NEW m \in 0..PageEnd, CandleStart < 2 * m, 2 * m <= PageEnd, Traded(m)
               PROVE  m \in call.units \cup CandlesPage
  OBVIOUS
<1>6. m \in Nat
  BY <1>2
<1>7. CASE 2 * m <= call.cursor
  <2>1. m \in 0..call.cursor
    BY <1>0, <1>6, <1>7
  <2>2. QED
    BY <1>0, <1>1, <1>5, <1>7, <2>1 DEF WindowInv
<1>8. CASE call.cursor < 2 * m
  <2>1. lo <= m
    <3>1. 2 \in Nat \ {0} /\ call.cursor <= 2 * m
      BY <1>0, <1>6, <1>8
    <3>2. Ceiling(call.cursor, 2) <= m
      BY <1>0, <1>6, <3>1, CeilingIsLeast
    <3>3. QED
      BY <1>4, <3>2
  <2>2. m <= hi
    BY <1>2, <1>4, <1>5, <1>6
  <2>3. HasCandle(1, m, now)
    <3>1. 2 * m <= now
      BY <1>0, <1>2, <1>5, <1>6
    <3>2. QED
      BY <1>5, <1>6, <3>1, MinuteCandle
  <2>4. m \in S
    BY <1>4, <1>6, <2>1, <2>2, <2>3
  <2>5. hi - m < Ask
    BY <1>0, <1>2, <1>4, <1>6, <1>8 DEF Ceiling
  <2>6. \A x \in S : x <= hi
    BY <1>4
  <2>7. m \in NewestOf(S, Ask)
    BY <1>3, <1>4, <2>4, <2>5, <2>6, NewestHas
  <2>8. QED
    BY <1>4, <2>7
<1>9. QED
  BY <1>0, <1>6, <1>7, <1>8

\* Minutes merged, after the last page.
LEMMA PagesEnd ==
  ASSUME ReadsInv, WindowInv, MayAnswer, read.kind = "candles", PageEnd >= call.begun,
         NEW n, n = OrElse(read.limit, CandleDefault), read.minutes = 3, MergedInPages(Plan, n),
         NEW units, units = call.units \cup CandlesPage
  PROVE  RecentAre(CandlesOf(units)) /\ WholeAre(CandlesOf(units), units)
<1>0. /\ Running /\ read.limit \in Nat
      /\ n \in Nat \ {0} /\ n <= CandleDefault /\ (read.limit > 0 => n = read.limit)
      /\ now \in Nat /\ call.begun \in Nat /\ call.begun <= now /\ 6 * n < call.begun
      /\ call.cursor \in Nat /\ call.units \in SUBSET Nat
  BY CandleRead
<1>1. Plan.unit = 1 /\ Plan.page # 0 /\ Plan.keep = n /\ Plan.back = 3 * n /\ venue \in {"coinbase", "korbit"}
  BY DEF MergedInPages
<1>2. CandlesOf(units) = AggregateCandles(units, n)
  BY <1>1 DEF CandlesOf, Merges
<1>3. PageEnd = call.begun
  BY <1>0, PageFits
<1>4. units \in SUBSET Nat
  <2>1. CandlesPage \in SUBSET Nat
    BY <1>0, PageIsFinite
  <2>2. QED
    BY <1>0, <2>1
<1>5. CandleStart = call.begun - 6 * n
  BY <1>0, <1>1 DEF CandleStart
<1>6. ASSUME NEW b \in Nat, call.begun \div 6 - n < b, NEW m \in (3 * b)..(3 * b + 2),
             2 * m <= call.begun, Traded(m)
      PROVE  m \in units
  <2>1. m \in 0..PageEnd /\ 2 * m <= PageEnd
    BY <1>0, <1>3, <1>6
  <2>2. CandleStart < 2 * m
    BY <1>0, <1>5, <1>6
  <2>3. QED
    BY <1>6, <2>1, <2>2, PageBrings
<1>7. ASSUME read.limit > 0, NEW b \in 0..(call.begun \div 6),
             AmongLast(b, 3, read.limit, call.begun), AmongLast(b, 3, read.limit, now),
             HasCandle(3, b, call.begun)
      PROVE  b \in CandlesOf(units)
  <2>1. n = read.limit /\ call.begun \div 6 - n < b /\ now \div 6 - n < b /\ b <= now \div 6 /\ b \in Nat
    BY <1>0, <1>7 DEF AmongLast
  <2>2. PICK m \in (3 * b)..(3 * b + 2) : 2 * m <= call.begun /\ Traded(m)
    BY <1>7, <2>1 DEF HasCandle
  <2>3. m \in units
    BY <1>6, <2>1, <2>2
  <2>4. b \in AggregateCandles(units, n)
    BY <1>0, <1>4, <2>1, <2>3, BucketKept
  <2>5. QED
    BY <1>2, <2>4
<1>8. ASSUME ~(venue \in {"coinbase", "korbit", "kraken"} /\ Quiet), NEW b \in CandlesOf(units),
             NEW m \in (3 * b)..(3 * b + 2), 2 * m <= call.begun, Traded(m)
      PROVE  m \in units
  <2>1. b \in AggregateCandles(units, n)
    BY <1>2
  <2>2. b \in Nat
    BY <1>0, <1>4, <2>1, FewAbove
  <2>3. ~Quiet
    BY <1>1, <1>8
  <2>4. ASSUME NEW w \in 0..(call.begun \div 6), call.begun \div 6 - n < w, b < w
        PROVE  \E u \in (3 * w)..(3 * w + 2) : u \in units
    <3>1. AmongLast(w, 3, n, call.begun)
      BY <1>0, <2>4 DEF AmongLast
    <3>2. HasCandle(3, w, call.begun)
      BY <1>0, <2>3, <3>1 DEF Quiet
    <3>3. PICK u \in (3 * w)..(3 * w + 2) : 2 * u <= call.begun /\ Traded(u)
      BY <3>2 DEF HasCandle
    <3>4. u \in units
      BY <1>0, <1>6, <2>4, <3>3
    <3>5. QED
      BY <3>4
  <2>5. n <= call.begun \div 6
    BY <1>0
  <2>6. call.begun \div 6 - n < b
    BY <1>0, <1>4, <2>1, <2>4, <2>5, KeptIsRecent
  <2>7. QED
    BY <1>6, <1>8, <2>2, <2>6
<1>9. RecentAre(CandlesOf(units))
  <2>1. 2 * read.minutes = 6
    OBVIOUS
  <2>2. QED
    BY <1>7, <2>1 DEF RecentAre
<1>10. WholeAre(CandlesOf(units), units)
  BY <1>8 DEF WholeAre
<1>11. QED
  BY <1>9, <1>10

\* Whatever the way, a read ends with the last candles, made of all their minutes.
LEMMA CandlesEnd ==
  ASSUME ReadsInv, WindowInv, MayAnswer, read.kind = "candles",
         Plan.page = 0 \/ PageEnd >= call.begun,
         NEW units, units = call.units \cup CandlesPage
  PROVE  RecentAre(CandlesOf(units)) /\ WholeAre(CandlesOf(units), units)
<1> DEFINE n == OrElse(read.limit, CandleDefault)
<1>1. Shaped(Plan, read.minutes, read.limit, n)
  BY CandleRead
<1>2. CASE InOneAnswer(Plan, read.minutes, read.limit, n)
  BY <1>2, OneAnswerEnds
<1>3. CASE read.minutes = 3 /\ MergedInOne(Plan, n)
  BY <1>3, MergedOnceEnds
<1>4. CASE read.minutes = 3 /\ MergedInPages(Plan, n)
  <2>1. PageEnd >= call.begun
    BY <1>4 DEF MergedInPages
  <2>2. QED
    BY <1>4, <2>1, PagesEnd
<1>5. QED
  BY <1>1, <1>2, <1>3, <1>4 DEF Shaped

-----------------------------------------------------------------------------
(* Each step keeps the candles right. *)

\* Nothing is claimed where no candles are read.
LEMMA NoCandles ==
  ASSUME (todo # <<>> /\ call.status \in {"running", "done"})' => (read.kind # "candles")'
  PROVE  CandleInv'
  BY DEF CandleInv, WindowInv, CandlesAreRight, CandlesAreWhole, MergedWhole, RecentCandlesAreThere,
     Finished, Running

\* A step that leaves the read and the trades alone.
LEMMA SameCandles ==
  ASSUME CandleInv, UNCHANGED <<venue, history, todo, call>>
  PROVE  CandleInv'
<1>1. UNCHANGED <<read, Plan>> /\ (Running' <=> Running) /\ (Finished("candles")' <=> Finished("candles"))
  BY DEF read, Plan, Running, Finished
<1>2. WindowInv'
  BY <1>1 DEF CandleInv, WindowInv, CandleStart, Traded
<1>3. CandlesAreWhole'
  BY <1>1 DEF CandleInv, CandlesAreRight, CandlesAreWhole, MergedWhole, Merges, Quiet, HasCandle,
     Traded, AmongLast
<1>4. RecentCandlesAreThere'
  BY <1>1 DEF CandleInv, CandlesAreRight, RecentCandlesAreThere, HasCandle, Traded, AmongLast
<1>5. QED
  BY <1>2, <1>3, <1>4 DEF CandleInv, CandlesAreRight

\* A read of candles begins at the start of its window.
LEMMA BeginCandles ==
  ASSUME ReadsInv, Begin
  PROVE  CandleInv'
<1>1. PICK plan : /\ read.kind = "candles" => plan = CandlesPlan(read.minutes, read.limit)
                  /\ call' = [Idle EXCEPT !.status = "running", !.begun = now, !.plan = plan,
                                          !.cursor = WindowStart(plan)]
  BY DEF Begin
<1>2. UNCHANGED <<fixedVars, now, todo, read>> /\ Idle \in Calls /\ Idle.units = {}
  BY IdleFormed DEF Begin, read
<1>3. /\ call'.status = "running" /\ call'.begun = now /\ call'.plan = plan
      /\ call'.cursor = WindowStart(plan) /\ call'.units = {}
  BY <1>1, <1>2 DEF Calls
<1>4. CandleStart' = WindowStart(plan)
  BY <1>3 DEF CandleStart, WindowStart, Plan
<1>5. WindowStart(plan) \in Nat => \A m \in 0..WindowStart(plan) : ~(WindowStart(plan) < 2 * m /\ 2 * m <= WindowStart(plan))
  OBVIOUS
<1>6. read.kind = "candles" => WindowStart(plan) \in Nat
  <2>1. SUFFICES ASSUME read.kind = "candles" PROVE WindowStart(plan) \in Nat
    OBVIOUS
  <2>2. venue \in AllVenues /\ todo \in Seq(AllReads) /\ todo # <<>> /\ now \in Nat
    BY DEF ReadsInv, ReadsTyped, Begin
  <2>3. read.limit \in Nat /\ read.minutes \in Nat \ {0}
    BY <2>2, ReadTyped
  <2>4. plan \in Plans
    BY <1>1, <2>1, <2>2, <2>3, CandlesAllFit DEF CandlesFit
  <2>5. plan.back \in Nat
    BY <2>4 DEF Plans
  <2>6. QED
    BY <2>2, <2>5 DEF WindowStart
<1>7. WindowInv'
  BY <1>2, <1>3, <1>4, <1>5, <1>6 DEF WindowInv, Running
<1>8. CandlesAreRight'
  BY <1>3 DEF CandlesAreRight, CandlesAreWhole, MergedWhole, RecentCandlesAreThere, Finished
<1>9. QED
  BY <1>7, <1>8 DEF CandleInv

\* An answer to a request for candles ends the read, with all it should hold, or a page.
LEMMA AnswerCandlesRight ==
  ASSUME ReadsInv, CandleInv, AnswerCandles
  PROVE  CandleInv'
<1>1. MayAnswer /\ read.kind = "candles" /\ Running /\ WindowInv
  BY DEF AnswerCandles, MayAnswer, CandleInv
<1>2. call \in Calls /\ call.result \in ReadResults /\ now \in Nat /\ call.status = "running"
  BY <1>1 DEF ReadsInv, ReadsTyped, Running, Calls
<1>3. UNCHANGED <<fixedVars, now, todo, read>>
  BY DEF AnswerCandles, Answered, read
<1>4. CASE \E a \in {<<>>, <<About(Other)>>, <<[About(Asked) EXCEPT !.sound = FALSE]>>} :
             ~Serves("candles", a) /\ Answered(EndedWith("api"), FALSE)
  <2>1. PICK c \in Calls : c = EndedWith("api") /\ c.status = "failed"
    BY <1>1, IdleFormed, DoneTyped
  <2>2. call' = [c EXCEPT !.odd = ~call.odd]
    BY <1>4, <2>1 DEF Answered
  <2>3. call'.status = "failed"
    BY <2>1, <2>2 DEF Calls
  <2>4. QED
    BY <2>3, NoCandles
<1>5. CASE \E units \in {call.units \cup CandlesPage} :
             LET taken == NextPage([call EXCEPT !.units = units], PageEnd)
             IN Answered(IF Plan.page # 0 /\ taken.cursor < call.begun THEN taken
                         ELSE [taken EXCEPT !.status = "done", !.ended = now, !.starts = CandlesOf(units),
                                            !.result.ok = TRUE],
                         units # {})
  <2>1. PICK units \in SUBSET Nat : units = call.units \cup CandlesPage
    <3>1. CandlesPage \in SUBSET Nat
      BY <1>1, <1>2, PageIsFinite
    <3>2. call.units \in SUBSET Nat
      BY <1>2 DEF Calls
    <3>3. QED
      BY <3>1, <3>2
  <2>2. PICK to \in Nat : to = PageEnd
    BY <1>1, PageFits
  <2>3. PICK taken \in Calls :
          /\ taken = NextPage([call EXCEPT !.units = units], PageEnd)
          /\ taken.cursor = to /\ taken.units = units /\ taken.status = "running" /\ taken.begun = call.begun
          /\ taken.plan = call.plan
    <3> DEFINE u == [[call EXCEPT !.units = units] EXCEPT !.cursor = to]
    <3>1. /\ u \in Calls /\ u.cursor = to /\ u.units = units /\ u.status = call.status
          /\ u.begun = call.begun /\ u.plan = call.plan
      BY <1>2, <2>2 DEF Calls
    <3>2. u = NextPage([call EXCEPT !.units = units], PageEnd)
      BY <2>2 DEF NextPage
    <3> HIDE DEF u
    <3>3. QED
      BY <1>2, <3>1, <3>2
  <2>4. Answered(IF Plan.page # 0 /\ taken.cursor < call.begun THEN taken
                 ELSE [taken EXCEPT !.status = "done", !.ended = now, !.starts = CandlesOf(units),
                                    !.result.ok = TRUE], units # {})
    BY <1>5, <2>1, <2>3
  <2>5. CASE Plan.page # 0 /\ taken.cursor < call.begun
    <3>1. call' = [taken EXCEPT !.odd = ~call.odd]
      BY <2>4, <2>5 DEF Answered
    <3>2. /\ call'.status = "running" /\ call'.units = units /\ call'.cursor = to
          /\ call'.begun = call.begun /\ call'.plan = call.plan
      BY <2>3, <3>1 DEF Calls
    <3>3. CandleStart' = CandleStart /\ Plan' = Plan
      BY <3>2 DEF CandleStart, Plan
    <3>4. MergedInPages(Plan, OrElse(read.limit, CandleDefault))
      BY <1>1, <2>5, CandleRead DEF Shaped, InOneAnswer, MergedInOne
    <3>5. \A m \in 0..PageEnd :
            (CandleStart < 2 * m /\ 2 * m <= PageEnd /\ Traded(m)) => m \in call.units \cup CandlesPage
      BY <1>1, <3>4, PageBrings
    <3>6. \A m \in 0..to : (CandleStart < 2 * m /\ 2 * m <= to /\ Traded(m)') => m \in units
      <4>1. \A m : Traded(m)' <=> Traded(m)
        BY <1>3 DEF Traded, fixedVars
      <4>2. QED
        BY <2>1, <2>2, <3>5, <4>1
    <3>7. WindowInv'
      BY <2>5, <3>2, <3>3, <3>6 DEF WindowInv
    <3>8. CandlesAreRight'
      BY <3>2 DEF CandlesAreRight, CandlesAreWhole, MergedWhole, RecentCandlesAreThere, Finished
    <3>9. QED
      BY <3>7, <3>8 DEF CandleInv
  <2>6. CASE ~(Plan.page # 0 /\ taken.cursor < call.begun)
    <3>1. Plan.page = 0 \/ PageEnd >= call.begun
      <4>1. call.begun \in Nat
        BY <1>2 DEF Calls
      <4>2. QED
        BY <2>2, <2>3, <2>6, <4>1
    <3>2. RecentAre(CandlesOf(units)) /\ WholeAre(CandlesOf(units), units)
      BY <1>1, <2>1, <3>1, CandlesEnd
    <3>3. CandlesOf(units) \in SUBSET Nat
      <4>1. CandlesOf(units) \in SUBSET units \/ CandlesOf(units) \in SUBSET Buckets(units)
        BY DEF CandlesOf, AggregateCandles, NewestOf, Buckets
      <4>2. QED
        BY <1>2, <4>1, BucketsTyped
    <3>4. PICK starts \in SUBSET Nat : starts = CandlesOf(units)
      BY <3>3
    <3>5. PICK c \in Calls :
            /\ c = [taken EXCEPT !.status = "done", !.ended = now, !.starts = starts, !.result.ok = TRUE]
            /\ c.status = "done" /\ c.starts = starts /\ c.units = units /\ c.begun = call.begun
            /\ c.plan = call.plan /\ c.ended = now
      <4> DEFINE u == [taken EXCEPT !.status = "done", !.ended = now, !.starts = starts, !.result.ok = TRUE]
      <4>1. taken.result \in ReadResults /\ [taken.result EXCEPT !.ok = TRUE] \in ReadResults
        BY <2>3 DEF Calls, ReadResults
      <4>2. u \in Calls /\ u.status = "done" /\ u.starts = starts /\ u.ended = now
        BY <1>2, <4>1 DEF Calls
      <4>3. u.begun = taken.begun /\ u.plan = taken.plan /\ u.units = taken.units
        BY <4>1 DEF Calls
      <4> HIDE DEF u
      <4>4. QED
        BY <2>3, <4>2, <4>3 DEF u
    <3>6. call' = [c EXCEPT !.odd = ~call.odd]
      BY <2>4, <2>6, <3>4, <3>5 DEF Answered
    <3>7. /\ call'.status = "done" /\ call'.starts = starts /\ call'.units = units /\ call'.ended = now
          /\ call'.begun = call.begun /\ call'.plan = call.plan
      BY <3>5, <3>6 DEF Calls
    <3>8. WindowInv'
      BY <3>7 DEF WindowInv, Running
    <3>9. CandlesAreWhole'
      BY <1>1, <1>3, <3>2, <3>4, <3>7 DEF CandlesAreWhole, MergedWhole, WholeAre, Merges, Plan, Quiet,
         HasCandle, Traded, AmongLast, Finished, fixedVars
    <3>10. RecentCandlesAreThere'
      BY <1>1, <1>3, <3>2, <3>4, <3>7 DEF RecentCandlesAreThere, RecentAre,
         HasCandle, Traded, AmongLast, Finished, fixedVars
    <3>11. QED
      BY <3>8, <3>9, <3>10 DEF CandleInv, CandlesAreRight
  <2>7. QED
    BY <2>5, <2>6
<1>6. QED
  BY <1>4, <1>5 DEF AnswerCandles

\* Every step keeps the candles right.
LEMMA CandleInvStep ==
  ASSUME ReadsInv, CandleInv, [Next]_vars
  PROVE  CandleInv'
<1>1. CASE Tick \/ Cancel \/ UNCHANGED vars
  BY <1>1, SameCandles DEF Tick, Cancel, vars, fixedVars
<1>2. CASE CheckEgress
  <2>1. call' = call /\ call.status = "idle"
    BY <1>2, IdleFormed DEF CheckEgress, ReadsInv, RunnerInv, Tracks
  <2>2. QED
    BY <2>1, NoCandles
<1>3. CASE Begin
  BY <1>3, BeginCandles
<1>4. CASE Refuse \/ FailCall
  <2>1. call \in Calls /\ (call' = EndedWith("refused") \/ call' = EndedWith("api"))
    BY <1>4 DEF ReadsInv, ReadsTyped, Refuse, FailCall
  <2>2. call'.status = "failed"
    BY <2>1, EndedTyped
  <2>3. QED
    BY <2>2, NoCandles
<1>5. CASE AnswerTicker \/ AnswerBook \/ AnswerTrades \/ AnswerMarkets \/ AnswerBalances
  <2>1. read.kind # "candles"
    BY <1>5 DEF AnswerTicker, AnswerBook, AnswerTrades, AnswerMarkets, AnswerBalances
  <2>2. todo' = todo
    BY <1>5 DEF AnswerTicker, AnswerBook, AnswerTrades, AnswerMarkets, AnswerBalances, Answered
  <2>3. QED
    BY <2>1, <2>2, NoCandles DEF read
<1>6. CASE AnswerCandles
  BY <1>6, AnswerCandlesRight
<1>7. CASE Conclude
  <2>1. call' = Idle /\ Idle.status = "idle"
    BY <1>7, IdleFormed DEF Conclude
  <2>2. QED
    BY <2>1, NoCandles
<1>8. QED
  BY <1>1, <1>2, <1>3, <1>4, <1>5, <1>6, <1>7 DEF Next, Answer

\* For the histories of Traded, at every page and phase of the clock: none of the last candles
\* is missing, and each is merged from all its minutes; the latter not at Coinbase, Korbit and
\* Kraken when one of the last buckets is without trades.
THEOREM CandlesComeBackRight == Spec => []CandlesAreRight
<1>1. Init => CandleInv
  <2>1. Init => call.status = "idle"
    BY IdleFormed DEF Init
  <2>2. QED
    BY <2>1 DEF CandleInv, WindowInv, CandlesAreRight, CandlesAreWhole, MergedWhole,
       RecentCandlesAreThere, Finished, Running
<1>2. ReadsInv /\ CandleInv /\ [Next]_vars => CandleInv'
  BY CandleInvStep
<1>3. CandleInv => CandlesAreRight
  BY DEF CandleInv
<1>4. QED
  BY <1>1, <1>2, <1>3, ReadsHold, PTL DEF Spec

=============================================================================
