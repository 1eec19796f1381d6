------------------------------ MODULE Session ------------------------------
(***************************************************************************)
(* stream.Session: the reconnecting WebSocket session every exchange       *)
(* adapter is built on (src/stream/session.go).                            *)
(*                                                                         *)
(* Four kinds of goroutine share one Session:                              *)
(*   - the goroutine inside Run, whose control point is pc;                *)
(*   - the reader goroutine consume starts, one per connection;            *)
(*   - callers of Close;                                                   *)
(*   - callers of Reconnect (heartbeats, key renewal, the application).    *)
(* Every section under session.mu is one step, and so is every call that   *)
(* can block.  Connections are numbered in the order Connect returned      *)
(* them; 0 stands for a nil Connection.                                    *)
(***************************************************************************)
EXTENDS Naturals, FiniteSets

CONSTANTS
  MaxReconnectAttempts, \* SessionConfig.MaxReconnectAttempts, 0 = unlimited
  SourceErrors,         \* error kinds RequestSource may return
  ConnectErrors,        \* error kinds Connector.Connect may return
  HookErrors,           \* error kinds OnConnect may return
  PingErrors,           \* error kinds Ping may return; {} = PingInterval 0
  HandlerOutcomes,      \* what the message handler may do
  CloseMayFail,         \* may Connection.Close return an error?
  MaxDials,             \* bound: connections the peer accepts
  MaxFailures,          \* bound: consecutive retryable failures
  MaxReconnectCalls     \* bound: external calls of Reconnect

(***************************************************************************)
(* Error kinds.  "timeout" is any error that wraps                         *)
(* context.DeadlineExceeded while the Run context is still live (a ping or *)
(* a login that ran into its own deadline); "permanent" is a permanent     *)
(* 4xx handshake or an invalid endpoint; "reconnect" is                    *)
(* errReconnectRequested; "decode" is a reconnectMessageError.             *)
(***************************************************************************)
NetErrors == {"network", "timeout", "permanent"}
Causes == NetErrors \cup {"none", "canceled", "closed", "reconnect", "decode",
                          "handler", "closefailed"}
Outcomes == {"ok", "fail", "decode", "reconnect"}

ASSUME SessionAssumption ==
  /\ MaxReconnectAttempts \in Nat
  /\ SourceErrors \subseteq NetErrors
  /\ ConnectErrors \subseteq NetErrors
  /\ HookErrors \subseteq NetErrors
  /\ PingErrors \subseteq NetErrors
  /\ HandlerOutcomes \subseteq Outcomes
  /\ CloseMayFail \in BOOLEAN
  /\ MaxDials \in Nat /\ MaxFailures \in Nat /\ MaxReconnectCalls \in Nat

VARIABLES
  connection, generation, started, closed, reconnect, cancel, \* Session, under mu
  ctxDone,      \* the caller's context is done
  canceled,     \* the Run context's own cancel was called
  pc,           \* control point of the goroutine in Run
  conn, gen,    \* Run's connection and generation locals
  attempt, cause,
  handlerErr,   \* the error the handler returned, "none" if it did not fail
  result,       \* what Run returned
  dialed,       \* number of connections opened so far
  open,         \* connections nobody has closed on this side
  alive,        \* connections the peer still serves
  reader, held, \* reader goroutine, and the result it is about to send
  results,      \* the one-place channel from the reader to consume
  closer, closerConn, \* the caller of Close, and the connection it took
  closing,      \* connections captured by Reconnect and not yet closed
  calls,        \* external calls of Reconnect so far
  observed      \* last StateChange given to the Observer

sessionVars == <<connection, generation, started, closed, reconnect, cancel>>
ctxVars == <<ctxDone, canceled>>
runVars == <<pc, conn, gen, attempt, cause, handlerErr, result>>
netVars == <<dialed, open, alive>>
readVars == <<reader, held, results>>
callVars == <<closer, closerConn, closing, calls>>
vars == <<sessionVars, ctxVars, runVars, netVars, readVars, callVars, observed>>

\* Inside stopError: closed was read as false, ctx.Err() is still to be read.
CtxPoints == {"topctx", "afterctx", "waitctx", "sleepctx"}
RunPoints == {"idle", "top", "dial", "connect", "install", "connected", "hook",
              "consume", "handling", "hclose", "cause", "remove", "after",
              "wait", "sleep", "finish", "done"} \cup CtxPoints
States == {"none", "connecting", "connected", "disconnected", "closed"}

FlagsOK ==
  /\ started \in BOOLEAN /\ closed \in BOOLEAN /\ reconnect \in BOOLEAN
  /\ cancel \in BOOLEAN /\ ctxDone \in BOOLEAN /\ canceled \in BOOLEAN

\* Every variable has its type, and a connection anybody holds was dialed.
TypeOK ==
  /\ dialed \in Nat
  /\ connection \in 0..dialed /\ conn \in 0..dialed /\ closerConn \in 0..dialed
  /\ generation \in Nat
  /\ FlagsOK
  /\ pc \in RunPoints
  /\ gen \in Nat /\ attempt \in Nat
  /\ cause \in Causes /\ handlerErr \in Causes /\ result \in Causes
  /\ open \subseteq 1..dialed /\ alive \subseteq open
  /\ reader \in {"off", "reading", "sending"}
  /\ held \in {"message", "network", "canceled"}
  /\ results \in {"empty", "message", "network", "canceled"}
  /\ closer \in {"idle", "cancel", "close", "done"}
  /\ closing \subseteq 1..dialed /\ calls \in Nat
  /\ observed \in [state : States, generation : Nat]

Init ==
  /\ connection = 0 /\ generation = 0
  /\ started = FALSE /\ closed = FALSE /\ reconnect = FALSE /\ cancel = FALSE
  /\ ctxDone = FALSE /\ canceled = FALSE
  /\ pc = "idle" /\ conn = 0 /\ gen = 0 /\ attempt = 0
  /\ cause = "none" /\ handlerErr = "none" /\ result = "none"
  /\ dialed = 0 /\ open = {} /\ alive = {}
  /\ reader = "off" /\ held = "network" /\ results = "empty"
  /\ closer = "idle" /\ closerConn = 0 /\ closing = {} /\ calls = 0
  /\ observed = [state |-> "none", generation |-> 0]
-----------------------------------------------------------------------------
(* Helpers of the Run goroutine. *)

\* Mutant: closed is not looked at.
ClosedErrorNever == "none"

\* stopError under the lock: Close wins over a finished context.
ClosedError == IF closed THEN "closed" ELSE "none"

\* stopError after the unlock.
ContextError == IF ctxDone \/ canceled THEN "canceled" ELSE "none"

\* DefaultReconnectPolicy.
DefaultReconnectPolicy(err) ==
  err \notin {"none", "canceled", "timeout", "closed", "permanent"}

\* Run returns e; the deferred finish is still to come.
Return(e) == pc' = "finish" /\ result' = e

\* Errors a call under the Run context may return now.  The last retryable
\* failure is withheld at the bound, so that a passing network is assumed to
\* recover; a permanent one is always possible.
CallErrors(errors) ==
  {e \in errors : e = "permanent" \/ attempt < MaxFailures}
    \cup (IF ctxDone \/ canceled THEN {"canceled"} ELSE {})

\* Mutant: a closed connection still delivers.
CloseConnHalf(c) == open' = open \ {c} /\ alive' = alive

\* Closing a connection on this side; Close may be called again later.
CloseConn(c) == open' = open \ {c} /\ alive' = alive \ {c}

Observe(s, g) == observed' = [state |-> s, generation |-> g]
-----------------------------------------------------------------------------
(* The goroutine in Run. *)

\* stopError, its first half: at the top of the loop, after consume, and on both
\* sides of the reconnection timer.  Close may run before the second half.
AskClosed ==
  /\ pc \in {"top", "after", "wait", "sleep"}
  /\ \/ /\ ClosedError # "none"
        /\ Return(ClosedError)
     \/ /\ ClosedError = "none"
        /\ pc' = CASE pc = "top" -> "topctx" [] pc = "after" -> "afterctx"
                   [] pc = "wait" -> "waitctx" [] pc = "sleep" -> "sleepctx"
        /\ UNCHANGED result
  /\ UNCHANGED <<sessionVars, ctxVars, conn, gen, attempt, cause, handlerErr,
                 netVars, readVars, callVars, observed>>

\* start: Run on a closed session fails at once, without finish.
Start ==
  /\ pc = "idle"
  /\ \/ /\ closed
        /\ pc' = "done" /\ result' = "closed"
        /\ UNCHANGED <<started, cancel>>
     \/ /\ ~closed
        /\ started' = TRUE /\ cancel' = TRUE
        /\ pc' = "top"
        /\ UNCHANGED result
  /\ UNCHANGED <<connection, generation, closed, reconnect, ctxVars, conn, gen,
                 attempt, cause, handlerErr, netVars, readVars, callVars, observed>>

\* Top of the loop, stopError's second half: stop, or announce the attempt.
Connecting ==
  /\ pc = "topctx"
  /\ \/ /\ ContextError # "none"
        /\ Return(ContextError)
        /\ UNCHANGED observed
     \/ /\ ContextError = "none"
        /\ Observe("connecting", generation)
        /\ pc' = "dial"
        /\ UNCHANGED result
  /\ UNCHANGED <<sessionVars, ctxVars, conn, gen, attempt, cause, handlerErr,
                 netVars, readVars, callVars>>

\* dialRequest: a failing RequestSource is retried without a StateChange.
ResolveRequest ==
  /\ pc = "dial"
  /\ \/ /\ pc' = "connect"
        /\ UNCHANGED <<attempt, cause>>
     \/ \E e \in CallErrors(SourceErrors) :
          /\ attempt' = attempt + 1
          /\ cause' = e
          /\ pc' = "wait"
  /\ UNCHANGED <<sessionVars, ctxVars, conn, gen, handlerErr, result, netVars,
                 readVars, callVars, observed>>

\* Connector.Connect succeeds.
Connect ==
  /\ pc = "connect"
  /\ dialed < MaxDials
  /\ dialed' = dialed + 1
  /\ conn' = dialed + 1
  /\ open' = open \cup {dialed + 1}
  /\ alive' = alive \cup {dialed + 1}
  /\ pc' = "install"
  /\ UNCHANGED <<sessionVars, ctxVars, gen, attempt, cause, handlerErr, result,
                 readVars, callVars, observed>>

\* Connector.Connect fails: the path up to waitToReconnect.
ConnectFails ==
  /\ pc = "connect"
  /\ \E e \in CallErrors(ConnectErrors) : cause' = e
  /\ attempt' = attempt + 1
  /\ Observe("disconnected", generation)
  /\ pc' = "wait"
  /\ UNCHANGED <<sessionVars, ctxVars, conn, gen, handlerErr, result, netVars,
                 readVars, callVars>>

\* Mutant: the refused connection is not closed.
InstallRefusedLeaks ==
  /\ pc = "install"
  /\ closed
  /\ Return("closed")
  /\ UNCHANGED <<sessionVars, ctxVars, conn, gen, attempt, cause, handlerErr,
                 netVars, readVars, callVars, observed>>

\* Mutant: the generation is counted before closed is looked at.
InstallRefusedCounts ==
  /\ pc = "install"
  /\ closed
  /\ generation' = generation + 1
  /\ CloseConn(conn)
  /\ Return("closed")
  /\ UNCHANGED <<connection, started, closed, reconnect, cancel, ctxVars, conn,
                 gen, attempt, cause, handlerErr, dialed, readVars, callVars,
                 observed>>

\* install: a session closed during the dial refuses the connection.
InstallRefused ==
  /\ pc = "install"
  /\ closed
  /\ CloseConn(conn)
  /\ Return("closed")
  /\ UNCHANGED <<sessionVars, ctxVars, conn, gen, attempt, cause, handlerErr,
                 dialed, readVars, callVars, observed>>

\* install under the lock: publish the connection as the next generation.
Publish ==
  /\ pc = "install"
  /\ connection' = conn
  /\ reconnect' = FALSE
  /\ generation' = generation + 1
  /\ gen' = generation + 1
  /\ pc' = "connected"
  /\ UNCHANGED <<started, closed, cancel, ctxVars, conn, attempt, cause,
                 handlerErr, result, netVars, readVars, callVars, observed>>

\* Mutant: closed is not looked at again after the dial.
InstallUnchecked == Publish

Install == ~closed /\ Publish

ObserveConnected ==
  /\ pc = "connected"
  /\ Observe("connected", gen)
  /\ pc' = "hook"
  /\ UNCHANGED <<sessionVars, ctxVars, conn, gen, attempt, cause, handlerErr,
                 result, netVars, readVars, callVars>>

\* Mutant: the ended connection stays published.
RemoveConnForgotten == UNCHANGED connection

\* remove: only the connection this Run loop owns is taken down.
RemoveConn == connection' = IF connection = conn THEN 0 ELSE connection

\* OnConnect succeeds: attempt is reset and consume starts its reader.
HookSucceeds ==
  /\ pc = "hook"
  /\ attempt' = 0
  /\ reader' = "reading" /\ results' = "empty"
  /\ pc' = "consume"
  /\ UNCHANGED <<sessionVars, ctxVars, conn, gen, cause, handlerErr, result,
                 netVars, held, callVars, observed>>

\* The failure path of OnConnect, up to closing the connection.
HookFailed ==
  /\ pc = "hook"
  /\ \E e \in CallErrors(HookErrors) : cause' = e
  /\ RemoveConn
  /\ attempt' = attempt + 1
  /\ Observe("disconnected", gen)
  /\ pc' = "wait"
  /\ UNCHANGED <<generation, started, closed, reconnect, cancel, ctxVars, conn,
                 gen, handlerErr, result, dialed, readVars, callVars>>

\* Mutant: a connection whose hook failed is left open.
HookFailsLeaks == HookFailed /\ UNCHANGED <<open, alive>>

HookFails == HookFailed /\ CloseConn(conn)

\* consume returns e; the deferred cancel ends its reader goroutine.
LeaveConsume(e, handlerError) ==
  /\ cause' = e
  /\ handlerErr' = handlerError
  /\ reader' = "off" /\ results' = "empty"
  /\ pc' = "cause"
  /\ UNCHANGED held

\* consume's select, when it takes ctx.Done.  Its stopError may have read closed
\* before Close; Run asks again before it returns, so nobody sees which.
ConsumeStops ==
  /\ pc = "consume"
  /\ ctxDone \/ canceled
  /\ CloseConn(conn)
  /\ \E e \in {"canceled", "closed"} :
       (e = "closed" => closed) /\ LeaveConsume(e, "none")
  /\ UNCHANGED <<sessionVars, ctxVars, conn, gen, attempt, result, dialed,
                 callVars, observed>>

\* consume's select, when it takes a failed read.
ConsumeError ==
  /\ pc = "consume"
  /\ results \notin {"empty", "message"}
  /\ LeaveConsume(results, "none")
  /\ UNCHANGED <<sessionVars, ctxVars, conn, gen, attempt, result, netVars,
                 callVars, observed>>

\* consume's select, when it takes a message.
ConsumeMessage ==
  /\ pc = "consume"
  /\ results = "message"
  /\ results' = "empty"
  /\ pc' = "handling"
  /\ UNCHANGED <<sessionVars, ctxVars, conn, gen, attempt, cause, handlerErr,
                 result, netVars, reader, held, callVars, observed>>

\* consume's select, when it takes the ticker and Ping fails.
PingFails ==
  /\ pc = "consume"
  /\ PingErrors # {}
  /\ \E e \in CallErrors(PingErrors) : LeaveConsume(e, "none")
  /\ UNCHANGED <<sessionVars, ctxVars, conn, gen, attempt, result, netVars,
                 callVars, observed>>

\* The handler accepts the message, fails, reports a damaged frame
\* (ReconnectOnMessageError), or asks for a new connection from inside, as the
\* local order books do on a sequence gap.
Handle ==
  /\ pc = "handling"
  /\ \/ /\ "ok" \in HandlerOutcomes
        /\ pc' = "consume"
        /\ UNCHANGED <<reconnect, cause, handlerErr, readVars>>
     \/ /\ "fail" \in HandlerOutcomes
        /\ LeaveConsume("handler", "handler")
        /\ UNCHANGED reconnect
     \/ /\ "decode" \in HandlerOutcomes
        /\ LeaveConsume("decode", "none")
        /\ UNCHANGED reconnect
     \/ /\ "reconnect" \in HandlerOutcomes
        /\ closed
        /\ LeaveConsume("closed", "closed")
        /\ UNCHANGED reconnect
     \/ /\ "reconnect" \in HandlerOutcomes
        /\ ~closed
        /\ reconnect' = TRUE
        /\ pc' = "hclose"
        /\ UNCHANGED <<cause, handlerErr, readVars>>
  /\ UNCHANGED <<connection, generation, started, closed, cancel, ctxVars, conn,
                 gen, attempt, result, netVars, callVars, observed>>

\* The Close inside that Reconnect; its error becomes the handler's error.
HandlerClosesConn ==
  /\ pc = "hclose"
  /\ CloseConn(conn)
  /\ \/ /\ pc' = "consume"
        /\ UNCHANGED <<cause, handlerErr, readVars>>
     \/ /\ CloseMayFail
        /\ LeaveConsume("closefailed", "closefailed")
  /\ UNCHANGED <<sessionVars, ctxVars, conn, gen, attempt, result, dialed,
                 callVars, observed>>

\* reconnectCause.
ReconnectCause ==
  /\ pc = "cause"
  /\ \/ /\ connection = conn /\ reconnect
        /\ reconnect' = FALSE
        /\ cause' = "reconnect"
     \/ /\ ~(connection = conn /\ reconnect)
        /\ UNCHANGED <<reconnect, cause>>
  /\ pc' = "remove"
  /\ UNCHANGED <<connection, generation, started, closed, cancel, ctxVars, conn,
                 gen, attempt, handlerErr, result, netVars, readVars, callVars,
                 observed>>

\* remove and Close of the finished connection; a failed handler ends Run.
Remove ==
  /\ pc = "remove"
  /\ RemoveConn
  /\ CloseConn(conn)
  /\ \/ handlerErr # "none" /\ Return(cause)
     \/ handlerErr = "none" /\ pc' = "after" /\ UNCHANGED result
  /\ UNCHANGED <<generation, started, closed, reconnect, cancel, ctxVars, conn,
                 gen, attempt, cause, handlerErr, dialed, readVars, callVars,
                 observed>>

AfterConsume ==
  /\ pc = "afterctx"
  /\ \/ /\ ContextError # "none"
        /\ Return(ContextError)
        /\ UNCHANGED <<attempt, observed>>
     \/ /\ ContextError = "none"
        /\ attempt' = attempt + 1
        /\ Observe("disconnected", gen)
        /\ pc' = "wait"
        /\ UNCHANGED result
  /\ UNCHANGED <<sessionVars, ctxVars, conn, gen, cause, handlerErr, netVars,
                 readVars, callVars>>

\* Mutant: the last permitted reconnection is not made.
ExhaustedEarly == MaxReconnectAttempts > 0 /\ attempt >= MaxReconnectAttempts

Exhausted == MaxReconnectAttempts > 0 /\ attempt > MaxReconnectAttempts

\* waitToReconnect up to its timer.
WaitToReconnect ==
  /\ pc = "waitctx"
  /\ \/ ContextError # "none" /\ Return(ContextError)
     \/ /\ ContextError = "none"
        /\ ~DefaultReconnectPolicy(cause) \/ Exhausted
        /\ Return(cause)
     \/ /\ ContextError = "none"
        /\ DefaultReconnectPolicy(cause) /\ ~Exhausted
        /\ pc' = "sleep"
        /\ UNCHANGED result
  /\ UNCHANGED <<sessionVars, ctxVars, conn, gen, attempt, cause, handlerErr,
                 netVars, readVars, callVars, observed>>

\* stopError again, after the timer or ctx.Done.
WakeUp ==
  /\ pc = "sleepctx"
  /\ \/ ContextError # "none" /\ Return(ContextError)
     \/ ContextError = "none" /\ pc' = "top" /\ UNCHANGED result
  /\ UNCHANGED <<sessionVars, ctxVars, conn, gen, attempt, cause, handlerErr,
                 netVars, readVars, callVars, observed>>

\* finish, deferred by Run.
Finish ==
  /\ pc = "finish"
  /\ CloseConn(connection)
  /\ connection' = 0
  /\ canceled' = (canceled \/ cancel)
  /\ cancel' = FALSE
  /\ Observe("closed", generation)
  /\ pc' = "done"
  /\ UNCHANGED <<generation, started, closed, reconnect, ctxDone, conn, gen,
                 attempt, cause, handlerErr, result, dialed, readVars, callVars>>

RunStep ==
  \/ Start \/ AskClosed \/ Connecting \/ ResolveRequest \/ Connect \/ ConnectFails
  \/ InstallRefused \/ Install \/ ObserveConnected \/ HookSucceeds \/ HookFails
  \/ ConsumeStops \/ ConsumeError \/ ConsumeMessage \/ PingFails
  \/ Handle \/ HandlerClosesConn \/ ReconnectCause \/ Remove \/ AfterConsume
  \/ WaitToReconnect \/ WakeUp \/ Finish
-----------------------------------------------------------------------------
(* The reader goroutine of consume. *)

Read ==
  /\ reader = "reading"
  /\ \/ conn \in alive /\ held' = "message"
     \/ conn \notin alive /\ held' = "network"
     \/ (ctxDone \/ canceled) /\ held' = "canceled"
  /\ reader' = "sending"
  /\ UNCHANGED <<sessionVars, ctxVars, runVars, netVars, results, callVars, observed>>

\* The select between the channel and readContext.Done.
Send ==
  /\ reader = "sending"
  /\ \/ /\ results = "empty"
        /\ results' = held
        /\ reader' = IF held = "message" THEN "reading" ELSE "off"
     \/ /\ ctxDone \/ canceled
        /\ reader' = "off"
        /\ UNCHANGED results
  /\ UNCHANGED <<sessionVars, ctxVars, runVars, netVars, held, callVars, observed>>
-----------------------------------------------------------------------------
(* Other goroutines, the caller's context and the peer. *)

\* Reconnect under the lock: the connection is captured and closed later.
Reconnect ==
  /\ calls < MaxReconnectCalls
  /\ calls' = calls + 1
  /\ ~closed /\ connection # 0
  /\ reconnect' = TRUE
  /\ closing' = closing \cup {connection}
  /\ UNCHANGED <<connection, generation, started, closed, cancel, ctxVars,
                 runVars, netVars, readVars, closer, closerConn, observed>>

\* Mutant: the connection is read again after the unlock.
ReconnectClosesCurrent(c) ==
  /\ closing' = closing \ {c}
  /\ CloseConn(connection)
  /\ UNCHANGED <<sessionVars, ctxVars, runVars, dialed, readVars, closer,
                 closerConn, calls, observed>>

\* Mutant: only the flag is set.
ReconnectClosesNothing(c) ==
  /\ closing' = closing \ {c}
  /\ UNCHANGED <<sessionVars, ctxVars, runVars, netVars, readVars, closer,
                 closerConn, calls, observed>>

\* Connection.Close of Reconnect, after the unlock.
ReconnectCloses(c) ==
  /\ closing' = closing \ {c}
  /\ CloseConn(c)
  /\ UNCHANGED <<sessionVars, ctxVars, runVars, dialed, readVars, closer,
                 closerConn, calls, observed>>

\* Mutant: the Run context is not canceled.
AfterUnlockNoCancel == "close"

\* What Close does after the unlock: cancel, if Run has set one, then Close.
AfterUnlock == IF cancel THEN "cancel" ELSE "close"

\* Close under the lock; a second Close returns at once.
Close ==
  /\ closer = "idle"
  /\ closed' = TRUE
  /\ reconnect' = FALSE
  /\ closerConn' = connection
  /\ connection' = 0
  /\ closer' = AfterUnlock
  /\ UNCHANGED <<generation, started, cancel, ctxVars, runVars, netVars, readVars,
                 closing, calls, observed>>

CloseCancels ==
  /\ closer = "cancel"
  /\ canceled' = TRUE
  /\ closer' = "close"
  /\ UNCHANGED <<sessionVars, ctxDone, runVars, netVars, readVars, closerConn,
                 closing, calls, observed>>

CloseClosesConn ==
  /\ closer = "close"
  /\ CloseConn(closerConn)
  /\ closer' = "done"
  /\ UNCHANGED <<sessionVars, ctxVars, runVars, dialed, readVars, closerConn,
                 closing, calls, observed>>

CancelContext ==
  /\ ~ctxDone
  /\ ctxDone' = TRUE
  /\ UNCHANGED <<sessionVars, canceled, runVars, netVars, readVars, callVars, observed>>

PeerDrops ==
  /\ conn \in alive
  /\ alive' = alive \ {conn}
  /\ UNCHANGED <<sessionVars, ctxVars, runVars, dialed, open, readVars, callVars,
                 observed>>

CallerStep ==
  \/ Reconnect \/ (\E c \in closing : ReconnectCloses(c))
  \/ Close \/ CloseCancels \/ CloseClosesConn

\* Run has returned and nothing is left to do.
Returned ==
  /\ pc = "done"
  /\ UNCHANGED vars

Next ==
  \/ RunStep \/ Read \/ Send \/ CallerStep \/ CancelContext \/ PeerDrops
  \/ Returned

Spec == Init /\ [][Next]_vars

\* Goroutines that can move do move.  A dial, a RequestSource, an OnConnect hook
\* and a Read on a silent connection may block as long as they like, but return
\* once their context is done or their connection is gone.  A select that finds
\* ctx.Done ready again and again takes it at last (Go's select picks among the
\* ready cases at random).  Nobody is obliged
\* to call Run, Close or Reconnect, to cancel the context, or to break a
\* connection.
Blocking == pc \in {"dial", "connect", "hook"} /\ ~(ctxDone \/ canceled)
Fairness ==
  /\ WF_vars(RunStep /\ pc # "idle" /\ ~Blocking)
  /\ SF_vars(ConsumeStops)
  /\ WF_vars(Read /\ (conn \notin alive \/ ctxDone \/ canceled))
  /\ WF_vars(Send)
  /\ WF_vars(CloseCancels) /\ WF_vars(CloseClosesConn)
  /\ WF_vars(\E c \in closing : ReconnectCloses(c))
FairSpec == Spec /\ Fairness

-----------------------------------------------------------------------------
(* Properties. *)

\* At most one socket of a session is open at any time: a connection is closed on
\* every path of Run before the next dial, so an exchange never sees two
\* logins of one session.
OneSocket == \A c, d \in open : c = d

\* The connection that Write and Reconnect find in the session is the one Run is
\* serving, and there is none while Run dials, sleeps or has returned, nor
\* after Close.
PublishedIsServed ==
  connection # 0 =>
    /\ connection = conn
    /\ ~closed
    /\ pc \in {"connected", "hook", "consume", "handling", "hclose", "cause", "remove"}

\* Once Run has returned no socket is left open, whichever of Run, Close and
\* Reconnect was to close it, and in whatever order they did.
NoSocketLeak == pc = "done" => open = {}

\* Close is final: a dial that was in flight when Close ran is never published
\* and never counted as a generation.
CloseIsFinal ==
  [][closed => connection' = connection /\ generation' = generation]_vars

\* A connection in service is closed from this side only for a reason that
\* concerns it: a Reconnect that captured an older connection, and calls
\* Close late, never breaks its successor.
NoInnocentClose ==
  [][(connection \in (open \ open') /\ connection' = connection)
       => (reconnect \/ ctxDone \/ canceled \/ pc = "remove")]_vars

\* Run says "session closed" only after Close, and "context canceled" only if
\* somebody asked it to stop: the caller canceled, or Close ran (its cancel may be
\* all that a Run between the two reads of stopError gets to see).
TruthfulStop ==
  pc = "done" =>
    /\ result = "closed" => closed
    /\ result = "canceled" => ctxDone \/ closed

\* Close names itself: once it has run, and Run is not between the two reads of
\* stopError, a Run that goes through any later dial, hook, handler or wait never
\* blames a context its caller did not cancel.
CloseIsNamed ==
  [](closed /\ ~ctxDone /\ pc \notin CtxPoints \cup {"finish", "done"}
       => [](pc = "done" /\ ~ctxDone => result # "canceled"))

\* A retryable error ends Run only when exactly MaxReconnectAttempts consecutive
\* reconnections were spent (never, if it is 0); a handler's error ends it at
\* once.
GivesUpAtLimit ==
  pc = "done" /\ result \in {"network", "decode", "reconnect"} =>
    \/ handlerErr # "none"
    \/ MaxReconnectAttempts > 0 /\ attempt = MaxReconnectAttempts + 1

\* Run ends for a reason, and names it: it gives up neither too early nor too late, and
\* blames Close or the caller only for what they did, up to a Close that falls
\* between the two reads of stopError.
EndsForAReason == [](TruthfulStop /\ GivesUpAtLimit) /\ CloseIsNamed

\* The StateChanges the Observer gets follow SessionContract.
Contract == INSTANCE SessionContract
              WITH state <- observed.state, generation <- observed.generation
ObserverContract == Contract!Spec

\* Run returns after Close or after the caller's context is done, even if a dial,
\* a login or a read would otherwise block for ever.
StopsOnRequest == started /\ (closed \/ ctxDone) ~> pc = "done"

\* A requested reconnection takes place: if peers and hooks answer, a session asked
\* to reconnect gets a newer generation or ends.
Responsive == WF_vars(RunStep /\ pc # "idle")
ReconnectHappens ==
  Responsive =>
    \A g \in 0..MaxDials :
      (reconnect /\ generation = g) ~> (generation > g \/ pc = "done")

\* A session never has two sockets, never serves one connection while another is
\* published, and leaves none open, however Run, Close and Reconnect interleave.
SocketsAreKept == TypeOK /\ OneSocket /\ PublishedIsServed /\ NoSocketLeak

\* No close comes too late or hits the wrong connection: nothing is published after
\* Close, and no successor is closed for its predecessor's sake.
ClosesAreRight == CloseIsFinal /\ NoInnocentClose

\* The doc of DefaultReconnectPolicy: every connection error but a permanent 4xx
\* is retried, so a ping or a login that times out does not end Run.
TimeoutIsRetried == pc = "done" => result # "timeout"

\* session_test.go: Run returns the error of the handler that failed.
HandlerErrorReturned == pc = "done" /\ handlerErr = "handler" => result = "handler"
=============================================================================
