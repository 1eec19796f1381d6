--------------------------- MODULE TransportProofs ---------------------------
(***************************************************************************)
(* Proofs about what every connection shares: Session, for every number of *)
(* dials, failures and calls, and RateLimiter, for every set of rules,     *)
(* callers and charges.                                                    *)
(***************************************************************************)
EXTENDS Session, RateLimiter, SharedFacts

(* The reconnecting session. *)

\* Every step keeps the Boolean fields Boolean.
LEMMA FlagsStep == FlagsOK /\ [Next]_vars => FlagsOK'
<1> SUFFICES ASSUME FlagsOK, [Next]_vars PROVE FlagsOK'
  OBVIOUS
<1> USE DEF FlagsOK, sessionVars, ctxVars
<1>1. CASE UNCHANGED <<sessionVars, ctxVars>>
  BY <1>1, Zenon
<1>2. CASE Start
  BY <1>2, Zenon DEF Start
<1>3. CASE Install
  BY <1>3, Zenon DEF Install, Publish
<1>4. CASE HookFails
  BY <1>4, Zenon DEF HookFails, HookFailed
<1>5. CASE Handle
  BY <1>5, Zenon DEF Handle
<1>6. CASE ReconnectCause
  BY <1>6, Zenon DEF ReconnectCause
<1>7. CASE Remove
  BY <1>7, Zenon DEF Remove
<1>8. CASE Finish
  BY <1>8, Zenon DEF Finish
<1>9. CASE Reconnect
  BY <1>9, Zenon DEF Reconnect
<1>10. CASE Close
  BY <1>10, Zenon DEF Close
<1>11. CASE CloseCancels
  BY <1>11, Zenon DEF CloseCancels
<1>12. CASE CancelContext
  BY <1>12, Zenon DEF CancelContext
<1>13. ASSUME AskClosed \/ Connecting \/ ResolveRequest \/ Connect \/ ConnectFails
              \/ InstallRefused \/ ObserveConnected \/ HookSucceeds \/ ConsumeStops
              \/ ConsumeError \/ ConsumeMessage \/ PingFails
              \/ HandlerClosesConn \/ AfterConsume \/ WaitToReconnect \/ WakeUp
              \/ Read \/ Send \/ CloseClosesConn \/ PeerDrops
              \/ (\E c \in closing : ReconnectCloses(c)) \/ UNCHANGED vars
       PROVE  UNCHANGED <<sessionVars, ctxVars>>
  BY <1>13, Zenon
     DEF AskClosed, Connecting, ResolveRequest, Connect, ConnectFails, InstallRefused, ObserveConnected,
         HookSucceeds, ConsumeStops, ConsumeError, ConsumeMessage, PingFails, HandlerClosesConn, AfterConsume,
         WaitToReconnect, WakeUp, Read, Send, CloseClosesConn, PeerDrops,
         ReconnectCloses, vars
<1>14. QED
  BY <1>1, <1>2, <1>3, <1>4, <1>5, <1>6, <1>7, <1>8, <1>9, <1>10, <1>11, <1>12,
     <1>13 DEF Next, RunStep, CallerStep, Returned

\* The type invariant of the session: in particular, every connection that Run,
\* Close or Reconnect holds is one the Connector returned.
THEOREM Typing == Spec => []TypeOK
<1>1. Init => TypeOK
  <2>1. Init => FlagsOK
    BY Zenon DEF Init, FlagsOK
  <2>2. QED
    BY <2>1 DEF Init, TypeOK, RunPoints, CtxPoints, Causes, States
<1>2. ASSUME TypeOK, [Next]_vars
      PROVE  TypeOK'
  <2> USE <1>2 DEF TypeOK, sessionVars, ctxVars, runVars, netVars, readVars,
                   callVars, RunPoints, CtxPoints, States
  <2>0. FlagsOK'
    BY <1>2, FlagsStep
  <2> USE <2>0
  <2>1. ContextError \in Causes /\ \A S \in SUBSET NetErrors : CallErrors(S) \subseteq Causes
    BY DEF ContextError, CallErrors, Causes, NetErrors
  <2>2. CASE Start
    BY <2>2 DEF Start, Causes
  <2>35. CASE AskClosed
    BY <2>35 DEF AskClosed, ClosedError, Return, CtxPoints, Causes
  <2>3. CASE Connecting
    BY <2>1, <2>3 DEF Connecting, Return, Observe
  <2>4. CASE ResolveRequest
    BY <2>1, <2>4, SessionAssumption DEF ResolveRequest
  <2>5. CASE Connect
    BY <2>5 DEF Connect
  <2>6. CASE ConnectFails
    BY <2>1, <2>6, SessionAssumption DEF ConnectFails, Observe
  <2>7. CASE InstallRefused
    BY <2>7 DEF InstallRefused, CloseConn, Return, Causes
  <2>8. CASE Install
    BY <2>8 DEF Install, Publish
  <2>9. CASE ObserveConnected
    BY <2>9 DEF ObserveConnected, Observe
  <2>10. CASE HookSucceeds
    BY <2>10 DEF HookSucceeds
  <2>11. CASE HookFails
    BY <2>1, <2>11, SessionAssumption DEF HookFails, HookFailed, RemoveConn, CloseConn, Observe
  <2>12. CASE ConsumeStops
    BY <2>1, <2>12 DEF ConsumeStops, CloseConn, LeaveConsume, Causes
  <2>13. CASE ConsumeError
    BY <2>13 DEF ConsumeError, LeaveConsume, Causes, NetErrors
  <2>14. CASE ConsumeMessage
    BY <2>14 DEF ConsumeMessage
  <2>15. CASE PingFails
    BY <2>1, <2>15, SessionAssumption DEF PingFails, LeaveConsume, Causes
  <2>16. CASE Handle
    BY <2>16 DEF Handle, LeaveConsume, Causes
  <2>17. CASE HandlerClosesConn
    BY <2>17 DEF HandlerClosesConn, CloseConn, LeaveConsume, Causes
  <2>18. CASE ReconnectCause
    BY <2>18 DEF ReconnectCause, Causes
  <2>19. CASE Remove
    BY <2>19 DEF Remove, RemoveConn, CloseConn, Return
  <2>20. CASE AfterConsume
    BY <2>1, <2>20 DEF AfterConsume, Return, Observe
  <2>21. CASE WaitToReconnect
    BY <2>1, <2>21 DEF WaitToReconnect, Return
  <2>22. CASE WakeUp
    BY <2>1, <2>22 DEF WakeUp, Return
  <2>23. CASE Finish
    BY <2>23 DEF Finish, CloseConn, Observe
  <2>24. CASE Read
    BY <2>24 DEF Read
  <2>25. CASE Send
    BY <2>25 DEF Send
  <2>26. CASE Reconnect
    BY <2>26 DEF Reconnect
  <2>27. CASE \E c \in closing : ReconnectCloses(c)
    BY <2>27 DEF ReconnectCloses, CloseConn
  <2>28. CASE Close
    BY <2>28 DEF Close, AfterUnlock
  <2>29. CASE CloseCancels
    BY <2>29 DEF CloseCancels
  <2>30. CASE CloseClosesConn
    BY <2>30 DEF CloseClosesConn, CloseConn
  <2>31. CASE CancelContext
    BY <2>31 DEF CancelContext
  <2>32. CASE PeerDrops
    BY <2>32 DEF PeerDrops
  <2>33. CASE UNCHANGED vars
    BY <2>33 DEF vars
  <2>34. QED
    BY <2>35, <2>2, <2>3, <2>4, <2>5, <2>6, <2>7, <2>8, <2>9, <2>10, <2>11, <2>12, <2>13, <2>14, <2>15, <2>16,
       <2>17, <2>18, <2>19, <2>20, <2>21, <2>22, <2>23, <2>24, <2>25, <2>26,
       <2>27, <2>28, <2>29, <2>30, <2>31, <2>32, <2>33
       DEF Next, RunStep, CallerStep, Returned
<1>3. QED
  BY <1>1, <1>2, PTL DEF Spec
-----------------------------------------------------------------------------
(* Sockets: what is open, and what is published. *)

Unconnected == {"idle", "top", "dial", "connect", "after", "wait", "sleep",
                "finish", "done"} \cup CtxPoints

\* The only open socket is the one of Run's loop, and it is closed on the way out.
SocketInv ==
  /\ open \subseteq {conn}
  /\ pc \in Unconnected => open = {}

\* Why a connection in service may be closed: whoever is about to close it left a
\* trace that still holds when the close happens.
ClosersInv ==
  /\ closer # "idle" => closed
  /\ pc = "hclose" /\ connection # 0 => reconnect
  /\ pc = "install" => conn \notin closing
  /\ connection # 0 /\ connection \in closing => reconnect \/ pc = "remove"

ServiceInv == TypeOK /\ SocketInv /\ PublishedIsServed /\ ClosersInv

(* What the Observer last heard, at each control point. *)
ObserverInv ==
  /\ pc \in {"idle", "top", "topctx", "dial", "connect", "install", "wait", "waitctx", "sleep",
             "sleepctx", "finish"} => observed.generation = generation
  /\ pc = "idle" => observed.state = "none" /\ generation = 0
  /\ pc \in {"top", "topctx", "wait", "waitctx", "sleep", "sleepctx"} =>
       observed.state \in {"none", "connecting", "disconnected"}
  /\ pc \in {"dial", "connect", "install"} => observed.state = "connecting"
  /\ pc = "connected" => /\ observed.state = "connecting"
                         /\ observed.generation + 1 = generation
                         /\ gen = generation
  /\ pc \in {"hook", "consume", "handling", "hclose", "cause", "remove", "after",
             "afterctx"} =>
       /\ observed.state = "connected"
       /\ observed.generation = generation
       /\ gen = generation
  /\ pc = "finish" => observed.state # "closed"

(* Why Run may say what it says. *)
StopInv ==
  /\ canceled => closed \/ pc = "done"
  /\ closer = "cancel" => closed
  /\ "canceled" \in {held, results, cause} /\ pc # "done" => ctxDone \/ canceled
  /\ cause = "closed" => closed
  /\ handlerErr # "none" /\ pc \in {"cause", "remove"} => cause # "canceled"
  /\ pc \in {"finish", "done"} /\ result = "closed" => closed
  /\ pc \in {"finish", "done"} /\ result = "canceled" => ctxDone \/ closed

\* Run counts: while it may still dial, no more than MaxReconnectAttempts
\* reconnections in a row, and one more once it decides whether to go on.
Retryable == {"network", "decode", "reconnect"}
AttemptInv ==
  /\ MaxReconnectAttempts > 0 /\ pc \notin {"wait", "waitctx", "finish", "done"} =>
       attempt <= MaxReconnectAttempts
  /\ MaxReconnectAttempts > 0 /\ pc \in {"wait", "waitctx"} =>
       attempt <= MaxReconnectAttempts + 1
  /\ pc \in {"finish", "done"} /\ result \in Retryable =>
       \/ handlerErr # "none"
       \/ MaxReconnectAttempts > 0 /\ attempt = MaxReconnectAttempts + 1

\* Every step keeps the open sockets within Run's own.
LEMMA SocketStep == TypeOK /\ SocketInv /\ [Next]_vars => SocketInv'
<1> SUFFICES ASSUME TypeOK, SocketInv, [Next]_vars
             PROVE  SocketInv'
  OBVIOUS
<1> USE DEF TypeOK, SocketInv, Unconnected, CtxPoints, sessionVars, ctxVars, runVars,
            netVars, readVars, callVars
<1>0. CASE AskClosed
  BY <1>0 DEF AskClosed, ClosedError, Return, CtxPoints
<1>1. CASE Start
  BY <1>1 DEF Start
<1>2. CASE Connecting
  BY <1>2 DEF Connecting, Return
<1>3. CASE ResolveRequest
  BY <1>3 DEF ResolveRequest
<1>4. CASE Connect
  BY <1>4 DEF Connect
<1>5. CASE ConnectFails
  BY <1>5 DEF ConnectFails
<1>6. CASE InstallRefused
  BY <1>6 DEF InstallRefused, CloseConn, Return
<1>7. CASE Install
  BY <1>7 DEF Install, Publish
<1>8. CASE ObserveConnected
  BY <1>8 DEF ObserveConnected
<1>9. CASE HookSucceeds
  BY <1>9 DEF HookSucceeds
<1>10. CASE HookFails
  BY <1>10 DEF HookFails, HookFailed, RemoveConn, CloseConn
<1>11. CASE ConsumeStops
  BY <1>11 DEF ConsumeStops, CloseConn, LeaveConsume
<1>12. CASE ConsumeError
  BY <1>12 DEF ConsumeError, LeaveConsume
<1>13. CASE ConsumeMessage
  BY <1>13 DEF ConsumeMessage
<1>14. CASE PingFails
  BY <1>14 DEF PingFails, LeaveConsume
<1>15. CASE Handle
  BY <1>15 DEF Handle, LeaveConsume
<1>16. CASE HandlerClosesConn
  BY <1>16 DEF HandlerClosesConn, CloseConn, LeaveConsume
<1>17. CASE ReconnectCause
  BY <1>17 DEF ReconnectCause
<1>18. CASE Remove
  BY <1>18 DEF Remove, RemoveConn, CloseConn, Return
<1>19. CASE AfterConsume
  BY <1>19 DEF AfterConsume, Return
<1>20. CASE WaitToReconnect
  BY <1>20 DEF WaitToReconnect, Return
<1>21. CASE WakeUp
  BY <1>21 DEF WakeUp, Return
<1>22. CASE Finish
  BY <1>22 DEF Finish, CloseConn
<1>23. CASE Read
  BY <1>23 DEF Read
<1>24. CASE Send
  BY <1>24 DEF Send
<1>25. CASE Reconnect
  BY <1>25 DEF Reconnect
<1>26. CASE \E c \in closing : ReconnectCloses(c)
  BY <1>26 DEF ReconnectCloses, CloseConn
<1>27. CASE Close
  BY <1>27 DEF Close
<1>28. CASE CloseCancels
  BY <1>28 DEF CloseCancels
<1>29. CASE CloseClosesConn
  BY <1>29 DEF CloseClosesConn, CloseConn
<1>30. CASE CancelContext
  BY <1>30 DEF CancelContext
<1>31. CASE PeerDrops
  BY <1>31 DEF PeerDrops
<1>32. CASE UNCHANGED vars
  BY <1>32 DEF vars
<1>33. QED
  BY <1>0, <1>1, <1>2, <1>3, <1>4, <1>5, <1>6, <1>7, <1>8, <1>9, <1>10, <1>11, <1>12,
     <1>13, <1>14, <1>15, <1>16, <1>17, <1>18, <1>19, <1>20, <1>21, <1>22,
     <1>23, <1>24, <1>25, <1>26, <1>27, <1>28, <1>29, <1>30, <1>31, <1>32
     DEF Next, RunStep, CallerStep, Returned

\* Every step publishes only the connection Run serves.
LEMMA PublishedStep == TypeOK /\ PublishedIsServed /\ [Next]_vars => PublishedIsServed'
<1> SUFFICES ASSUME TypeOK, PublishedIsServed, [Next]_vars
             PROVE  PublishedIsServed'
  OBVIOUS
<1> USE DEF TypeOK, PublishedIsServed, sessionVars, ctxVars, runVars, netVars,
            readVars, callVars
<1>0. CASE AskClosed
  BY <1>0 DEF AskClosed, ClosedError, Return, CtxPoints
<1>1. CASE Start
  BY <1>1 DEF Start
<1>2. CASE Connecting
  BY <1>2 DEF Connecting, Return
<1>3. CASE ResolveRequest
  BY <1>3 DEF ResolveRequest
<1>4. CASE Connect
  BY <1>4 DEF Connect
<1>5. CASE ConnectFails
  BY <1>5 DEF ConnectFails
<1>6. CASE InstallRefused
  BY <1>6 DEF InstallRefused, Return
<1>7. CASE Install
  BY <1>7 DEF Install, Publish
<1>8. CASE ObserveConnected
  BY <1>8 DEF ObserveConnected
<1>9. CASE HookSucceeds
  BY <1>9 DEF HookSucceeds
<1>10. CASE HookFails
  BY <1>10 DEF HookFails, HookFailed, RemoveConn
<1>11. CASE ConsumeStops
  BY <1>11 DEF ConsumeStops, LeaveConsume
<1>12. CASE ConsumeError
  BY <1>12 DEF ConsumeError, LeaveConsume
<1>13. CASE ConsumeMessage
  BY <1>13 DEF ConsumeMessage
<1>14. CASE PingFails
  BY <1>14 DEF PingFails, LeaveConsume
<1>15. CASE Handle
  BY <1>15 DEF Handle, LeaveConsume
<1>16. CASE HandlerClosesConn
  BY <1>16 DEF HandlerClosesConn, LeaveConsume
<1>17. CASE ReconnectCause
  BY <1>17 DEF ReconnectCause
<1>18. CASE Remove
  BY <1>18 DEF Remove, RemoveConn, Return
<1>19. CASE AfterConsume
  BY <1>19 DEF AfterConsume, Return
<1>20. CASE WaitToReconnect
  BY <1>20 DEF WaitToReconnect, Return
<1>21. CASE WakeUp
  BY <1>21 DEF WakeUp, Return
<1>22. CASE Finish
  BY <1>22 DEF Finish
<1>23. CASE Read
  BY <1>23 DEF Read
<1>24. CASE Send
  BY <1>24 DEF Send
<1>25. CASE Reconnect
  BY <1>25 DEF Reconnect
<1>26. CASE \E c \in closing : ReconnectCloses(c)
  BY <1>26 DEF ReconnectCloses
<1>27. CASE Close
  BY <1>27 DEF Close
<1>28. CASE CloseCancels
  BY <1>28 DEF CloseCancels
<1>29. CASE CloseClosesConn
  BY <1>29 DEF CloseClosesConn
<1>30. CASE CancelContext
  BY <1>30 DEF CancelContext
<1>31. CASE PeerDrops
  BY <1>31 DEF PeerDrops
<1>32. CASE UNCHANGED vars
  BY <1>32 DEF vars
<1>33. QED
  BY <1>0, <1>1, <1>2, <1>3, <1>4, <1>5, <1>6, <1>7, <1>8, <1>9, <1>10, <1>11, <1>12,
     <1>13, <1>14, <1>15, <1>16, <1>17, <1>18, <1>19, <1>20, <1>21, <1>22,
     <1>23, <1>24, <1>25, <1>26, <1>27, <1>28, <1>29, <1>30, <1>31, <1>32
     DEF Next, RunStep, CallerStep, Returned

\* Every step keeps the trace of who may close a connection.
LEMMA ClosersStep == TypeOK /\ PublishedIsServed /\ ClosersInv /\ [Next]_vars => ClosersInv'
<1> SUFFICES ASSUME TypeOK, PublishedIsServed, ClosersInv, [Next]_vars
             PROVE  ClosersInv'
  OBVIOUS
<1> USE DEF TypeOK, PublishedIsServed, ClosersInv, sessionVars, ctxVars,
            runVars, netVars, readVars, callVars
<1>0. CASE AskClosed
  BY <1>0 DEF AskClosed, ClosedError, Return, CtxPoints
<1>1. CASE Start
  BY <1>1 DEF Start
<1>2. CASE Connecting
  BY <1>2 DEF Connecting, Return
<1>3. CASE ResolveRequest
  BY <1>3 DEF ResolveRequest
<1>4. CASE Connect
  BY <1>4 DEF Connect
<1>5. CASE ConnectFails
  BY <1>5 DEF ConnectFails
<1>6. CASE InstallRefused
  BY <1>6 DEF InstallRefused, Return
<1>7. CASE Install
  BY <1>7 DEF Install, Publish
<1>8. CASE ObserveConnected
  BY <1>8 DEF ObserveConnected
<1>9. CASE HookSucceeds
  BY <1>9 DEF HookSucceeds
<1>10. CASE HookFails
  BY <1>10 DEF HookFails, HookFailed, RemoveConn
<1>11. CASE ConsumeStops
  BY <1>11 DEF ConsumeStops, LeaveConsume
<1>12. CASE ConsumeError
  BY <1>12 DEF ConsumeError, LeaveConsume
<1>13. CASE ConsumeMessage
  BY <1>13 DEF ConsumeMessage
<1>14. CASE PingFails
  BY <1>14 DEF PingFails, LeaveConsume
<1>15. CASE Handle
  BY <1>15 DEF Handle, LeaveConsume
<1>16. CASE HandlerClosesConn
  BY <1>16 DEF HandlerClosesConn, LeaveConsume
<1>17. CASE ReconnectCause
  BY <1>17 DEF ReconnectCause
<1>18. CASE Remove
  BY <1>18 DEF Remove, RemoveConn, Return
<1>19. CASE AfterConsume
  BY <1>19 DEF AfterConsume, Return
<1>20. CASE WaitToReconnect
  BY <1>20 DEF WaitToReconnect, Return
<1>21. CASE WakeUp
  BY <1>21 DEF WakeUp, Return
<1>22. CASE Finish
  BY <1>22 DEF Finish
<1>23. CASE Read
  BY <1>23 DEF Read
<1>24. CASE Send
  BY <1>24 DEF Send
<1>25. CASE Reconnect
  BY <1>25 DEF Reconnect
<1>26. CASE \E c \in closing : ReconnectCloses(c)
  BY <1>26 DEF ReconnectCloses
<1>27. CASE Close
  BY <1>27 DEF Close, AfterUnlock
<1>28. CASE CloseCancels
  BY <1>28 DEF CloseCancels
<1>29. CASE CloseClosesConn
  BY <1>29 DEF CloseClosesConn
<1>30. CASE CancelContext
  BY <1>30 DEF CancelContext
<1>31. CASE PeerDrops
  BY <1>31 DEF PeerDrops
<1>32. CASE UNCHANGED vars
  BY <1>32 DEF vars
<1>33. QED
  BY <1>0, <1>1, <1>2, <1>3, <1>4, <1>5, <1>6, <1>7, <1>8, <1>9, <1>10, <1>11, <1>12,
     <1>13, <1>14, <1>15, <1>16, <1>17, <1>18, <1>19, <1>20, <1>21, <1>22,
     <1>23, <1>24, <1>25, <1>26, <1>27, <1>28, <1>29, <1>30, <1>31, <1>32
     DEF Next, RunStep, CallerStep, Returned

\* Every step keeps the Observer's last news in line with Run's control point.
LEMMA ObserverStep == TypeOK /\ ObserverInv /\ [Next]_vars => ObserverInv'
<1> SUFFICES ASSUME TypeOK, ObserverInv, [Next]_vars
             PROVE  ObserverInv'
  OBVIOUS
<1> USE DEF TypeOK, ObserverInv, States, sessionVars, ctxVars, runVars, netVars,
            readVars, callVars
<1>0. CASE AskClosed
  BY <1>0 DEF AskClosed, ClosedError, Return, CtxPoints
<1>1. CASE Start
  BY <1>1 DEF Start
<1>2. CASE Connecting
  BY <1>2 DEF Connecting, Return, Observe
<1>3. CASE ResolveRequest
  BY <1>3 DEF ResolveRequest
<1>4. CASE Connect
  BY <1>4 DEF Connect
<1>5. CASE ConnectFails
  BY <1>5 DEF ConnectFails, Observe
<1>6. CASE InstallRefused
  BY <1>6 DEF InstallRefused, Return
<1>7. CASE Install
  BY <1>7 DEF Install, Publish
<1>8. CASE ObserveConnected
  BY <1>8 DEF ObserveConnected, Observe
<1>9. CASE HookSucceeds
  BY <1>9 DEF HookSucceeds
<1>10. CASE HookFails
  BY <1>10 DEF HookFails, HookFailed, Observe
<1>11. CASE ConsumeStops
  BY <1>11 DEF ConsumeStops, LeaveConsume
<1>12. CASE ConsumeError
  BY <1>12 DEF ConsumeError, LeaveConsume
<1>13. CASE ConsumeMessage
  BY <1>13 DEF ConsumeMessage
<1>14. CASE PingFails
  BY <1>14 DEF PingFails, LeaveConsume
<1>15. CASE Handle
  BY <1>15 DEF Handle, LeaveConsume
<1>16. CASE HandlerClosesConn
  BY <1>16 DEF HandlerClosesConn, LeaveConsume
<1>17. CASE ReconnectCause
  BY <1>17 DEF ReconnectCause
<1>18. CASE Remove
  BY <1>18 DEF Remove, Return
<1>19. CASE AfterConsume
  BY <1>19 DEF AfterConsume, Return, Observe
<1>20. CASE WaitToReconnect
  BY <1>20 DEF WaitToReconnect, Return
<1>21. CASE WakeUp
  BY <1>21 DEF WakeUp, Return
<1>22. CASE Finish
  BY <1>22 DEF Finish, Observe
<1>23. CASE Read
  BY <1>23 DEF Read
<1>24. CASE Send
  BY <1>24 DEF Send
<1>25. CASE Reconnect
  BY <1>25 DEF Reconnect
<1>26. CASE \E c \in closing : ReconnectCloses(c)
  BY <1>26 DEF ReconnectCloses
<1>27. CASE Close
  BY <1>27 DEF Close
<1>28. CASE CloseCancels
  BY <1>28 DEF CloseCancels
<1>29. CASE CloseClosesConn
  BY <1>29 DEF CloseClosesConn
<1>30. CASE CancelContext
  BY <1>30 DEF CancelContext
<1>31. CASE PeerDrops
  BY <1>31 DEF PeerDrops
<1>32. CASE UNCHANGED vars
  BY <1>32 DEF vars
<1>33. QED
  BY <1>0, <1>1, <1>2, <1>3, <1>4, <1>5, <1>6, <1>7, <1>8, <1>9, <1>10, <1>11, <1>12,
     <1>13, <1>14, <1>15, <1>16, <1>17, <1>18, <1>19, <1>20, <1>21, <1>22,
     <1>23, <1>24, <1>25, <1>26, <1>27, <1>28, <1>29, <1>30, <1>31, <1>32
     DEF Next, RunStep, CallerStep, Returned

\* A call under the Run context never fails with "session closed", and fails with
\* "canceled" only if that context is done.
LEMMA CallErrorKinds ==
  ASSUME NEW S \in SUBSET NetErrors, NEW e \in CallErrors(S)
  PROVE  e # "closed" /\ (e = "canceled" => ctxDone \/ canceled)
  BY DEF CallErrors, NetErrors

\* Every step keeps the reasons Run may give for stopping true.
LEMMA StopStep == TypeOK /\ ClosersInv /\ StopInv /\ [Next]_vars => StopInv'
<1> SUFFICES ASSUME TypeOK, ClosersInv, StopInv, [Next]_vars
             PROVE  StopInv'
  OBVIOUS
<1> USE DEF TypeOK, ClosersInv, StopInv, sessionVars, ctxVars, runVars, netVars,
            readVars, callVars
<1>0. CASE AskClosed
  BY <1>0 DEF AskClosed, ClosedError, Return, CtxPoints
<1>1. CASE Start
  BY <1>1 DEF Start
<1>2. CASE Connecting
  BY <1>2 DEF Connecting, Return, ContextError
<1>3. CASE ResolveRequest
  BY <1>3, CallErrorKinds, SessionAssumption DEF ResolveRequest
<1>4. CASE Connect
  BY <1>4 DEF Connect
<1>5. CASE ConnectFails
  BY <1>5, CallErrorKinds, SessionAssumption DEF ConnectFails
<1>6. CASE InstallRefused
  BY <1>6 DEF InstallRefused, Return
<1>7. CASE Install
  BY <1>7 DEF Install, Publish
<1>8. CASE ObserveConnected
  BY <1>8 DEF ObserveConnected
<1>9. CASE HookSucceeds
  BY <1>9 DEF HookSucceeds
<1>10. CASE HookFails
  BY <1>10, CallErrorKinds, SessionAssumption DEF HookFails, HookFailed
<1>11. CASE ConsumeStops
  BY <1>11 DEF ConsumeStops, LeaveConsume, ContextError
<1>12. CASE ConsumeError
  BY <1>12 DEF ConsumeError, LeaveConsume
<1>13. CASE ConsumeMessage
  BY <1>13 DEF ConsumeMessage
<1>14. CASE PingFails
  BY <1>14, CallErrorKinds, SessionAssumption DEF PingFails, LeaveConsume
<1>15. CASE Handle
  BY <1>15 DEF Handle, LeaveConsume
<1>16. CASE HandlerClosesConn
  BY <1>16 DEF HandlerClosesConn, LeaveConsume
<1>17. CASE ReconnectCause
  BY <1>17 DEF ReconnectCause
<1>18. CASE Remove
  BY <1>18 DEF Remove, Return
<1>19. CASE AfterConsume
  BY <1>19 DEF AfterConsume, Return, ContextError
<1>20. CASE WaitToReconnect
  BY <1>20 DEF WaitToReconnect, Return, ContextError
<1>21. CASE WakeUp
  BY <1>21 DEF WakeUp, Return, ContextError
<1>22. CASE Finish
  BY <1>22 DEF Finish
<1>23. CASE Read
  BY <1>23 DEF Read
<1>24. CASE Send
  BY <1>24 DEF Send
<1>25. CASE Reconnect
  BY <1>25 DEF Reconnect
<1>26. CASE \E c \in closing : ReconnectCloses(c)
  BY <1>26 DEF ReconnectCloses
<1>27. CASE Close
  BY <1>27 DEF Close, AfterUnlock
<1>28. CASE CloseCancels
  BY <1>28 DEF CloseCancels
<1>29. CASE CloseClosesConn
  BY <1>29 DEF CloseClosesConn
<1>30. CASE CancelContext
  BY <1>30 DEF CancelContext
<1>31. CASE PeerDrops
  BY <1>31 DEF PeerDrops
<1>32. CASE UNCHANGED vars
  BY <1>32 DEF vars
<1>33. QED
  BY <1>0, <1>1, <1>2, <1>3, <1>4, <1>5, <1>6, <1>7, <1>8, <1>9, <1>10, <1>11, <1>12,
     <1>13, <1>14, <1>15, <1>16, <1>17, <1>18, <1>19, <1>20, <1>21, <1>22,
     <1>23, <1>24, <1>25, <1>26, <1>27, <1>28, <1>29, <1>30, <1>31, <1>32
     DEF Next, RunStep, CallerStep, Returned

\* No step publishes or removes a connection, or counts one, after Close.
LEMMA FinalStep == TypeOK /\ PublishedIsServed /\ [Next]_vars
                  => (closed => connection' = connection /\ generation' = generation)
<1> SUFFICES ASSUME TypeOK, PublishedIsServed, [Next]_vars
             PROVE  (closed => connection' = connection /\ generation' = generation)
  OBVIOUS
<1> USE DEF TypeOK, PublishedIsServed, sessionVars, ctxVars, runVars, netVars,
            readVars, callVars
<1>0. CASE AskClosed
  BY <1>0 DEF AskClosed, ClosedError, Return, CtxPoints
<1>1. CASE Start
  BY <1>1 DEF Start
<1>2. CASE Connecting
  BY <1>2 DEF Connecting, Return
<1>3. CASE ResolveRequest
  BY <1>3 DEF ResolveRequest
<1>4. CASE Connect
  BY <1>4 DEF Connect
<1>5. CASE ConnectFails
  BY <1>5 DEF ConnectFails
<1>6. CASE InstallRefused
  BY <1>6 DEF InstallRefused, Return
<1>7. CASE Install
  BY <1>7 DEF Install, Publish
<1>8. CASE ObserveConnected
  BY <1>8 DEF ObserveConnected
<1>9. CASE HookSucceeds
  BY <1>9 DEF HookSucceeds
<1>10. CASE HookFails
  BY <1>10 DEF HookFails, HookFailed, RemoveConn
<1>11. CASE ConsumeStops
  BY <1>11 DEF ConsumeStops, LeaveConsume
<1>12. CASE ConsumeError
  BY <1>12 DEF ConsumeError, LeaveConsume
<1>13. CASE ConsumeMessage
  BY <1>13 DEF ConsumeMessage
<1>14. CASE PingFails
  BY <1>14 DEF PingFails, LeaveConsume
<1>15. CASE Handle
  BY <1>15 DEF Handle, LeaveConsume
<1>16. CASE HandlerClosesConn
  BY <1>16 DEF HandlerClosesConn, LeaveConsume
<1>17. CASE ReconnectCause
  BY <1>17 DEF ReconnectCause
<1>18. CASE Remove
  BY <1>18 DEF Remove, RemoveConn, Return
<1>19. CASE AfterConsume
  BY <1>19 DEF AfterConsume, Return
<1>20. CASE WaitToReconnect
  BY <1>20 DEF WaitToReconnect, Return
<1>21. CASE WakeUp
  BY <1>21 DEF WakeUp, Return
<1>22. CASE Finish
  BY <1>22 DEF Finish
<1>23. CASE Read
  BY <1>23 DEF Read
<1>24. CASE Send
  BY <1>24 DEF Send
<1>25. CASE Reconnect
  BY <1>25 DEF Reconnect
<1>26. CASE \E c \in closing : ReconnectCloses(c)
  BY <1>26 DEF ReconnectCloses
<1>27. CASE Close
  BY <1>27 DEF Close
<1>28. CASE CloseCancels
  BY <1>28 DEF CloseCancels
<1>29. CASE CloseClosesConn
  BY <1>29 DEF CloseClosesConn
<1>30. CASE CancelContext
  BY <1>30 DEF CancelContext
<1>31. CASE PeerDrops
  BY <1>31 DEF PeerDrops
<1>32. CASE UNCHANGED vars
  BY <1>32 DEF vars
<1>33. QED
  BY <1>0, <1>1, <1>2, <1>3, <1>4, <1>5, <1>6, <1>7, <1>8, <1>9, <1>10, <1>11, <1>12,
     <1>13, <1>14, <1>15, <1>16, <1>17, <1>18, <1>19, <1>20, <1>21, <1>22,
     <1>23, <1>24, <1>25, <1>26, <1>27, <1>28, <1>29, <1>30, <1>31, <1>32
     DEF Next, RunStep, CallerStep, Returned

\* No step closes a connection in service without a reason that concerns it.
LEMMA InnocentStep == TypeOK /\ PublishedIsServed /\ ClosersInv /\ [Next]_vars
                  => ((connection \in (open \ open') /\ connection' = connection)
                     => (reconnect \/ ctxDone \/ canceled \/ pc = "remove"))
<1> SUFFICES ASSUME TypeOK, PublishedIsServed, ClosersInv, [Next]_vars
             PROVE  ((connection \in (open \ open') /\ connection' = connection)
                     => (reconnect \/ ctxDone \/ canceled \/ pc = "remove"))
  OBVIOUS
<1> USE DEF TypeOK, PublishedIsServed, ClosersInv, sessionVars, ctxVars,
            runVars, netVars, readVars, callVars
<1>0. CASE AskClosed
  BY <1>0 DEF AskClosed, ClosedError, Return, CtxPoints
<1>1. CASE Start
  BY <1>1 DEF Start
<1>2. CASE Connecting
  BY <1>2 DEF Connecting, Return
<1>3. CASE ResolveRequest
  BY <1>3 DEF ResolveRequest
<1>4. CASE Connect
  BY <1>4 DEF Connect
<1>5. CASE ConnectFails
  BY <1>5 DEF ConnectFails
<1>6. CASE InstallRefused
  BY <1>6 DEF InstallRefused, CloseConn, Return
<1>7. CASE Install
  BY <1>7 DEF Install, Publish
<1>8. CASE ObserveConnected
  BY <1>8 DEF ObserveConnected
<1>9. CASE HookSucceeds
  BY <1>9 DEF HookSucceeds
<1>10. CASE HookFails
  BY <1>10 DEF HookFails, HookFailed, RemoveConn, CloseConn
<1>11. CASE ConsumeStops
  BY <1>11 DEF ConsumeStops, CloseConn, LeaveConsume
<1>12. CASE ConsumeError
  BY <1>12 DEF ConsumeError, LeaveConsume
<1>13. CASE ConsumeMessage
  BY <1>13 DEF ConsumeMessage
<1>14. CASE PingFails
  BY <1>14 DEF PingFails, LeaveConsume
<1>15. CASE Handle
  BY <1>15 DEF Handle, LeaveConsume
<1>16. CASE HandlerClosesConn
  BY <1>16 DEF HandlerClosesConn, CloseConn, LeaveConsume
<1>17. CASE ReconnectCause
  BY <1>17 DEF ReconnectCause
<1>18. CASE Remove
  BY <1>18 DEF Remove, RemoveConn, CloseConn, Return
<1>19. CASE AfterConsume
  BY <1>19 DEF AfterConsume, Return
<1>20. CASE WaitToReconnect
  BY <1>20 DEF WaitToReconnect, Return
<1>21. CASE WakeUp
  BY <1>21 DEF WakeUp, Return
<1>22. CASE Finish
  BY <1>22 DEF Finish, CloseConn
<1>23. CASE Read
  BY <1>23 DEF Read
<1>24. CASE Send
  BY <1>24 DEF Send
<1>25. CASE Reconnect
  BY <1>25 DEF Reconnect
<1>26. CASE \E c \in closing : ReconnectCloses(c)
  BY <1>26 DEF ReconnectCloses, CloseConn
<1>27. CASE Close
  BY <1>27 DEF Close
<1>28. CASE CloseCancels
  BY <1>28 DEF CloseCancels
<1>29. CASE CloseClosesConn
  BY <1>29 DEF CloseClosesConn, CloseConn
<1>30. CASE CancelContext
  BY <1>30 DEF CancelContext
<1>31. CASE PeerDrops
  BY <1>31 DEF PeerDrops
<1>32. CASE UNCHANGED vars
  BY <1>32 DEF vars
<1>33. QED
  BY <1>0, <1>1, <1>2, <1>3, <1>4, <1>5, <1>6, <1>7, <1>8, <1>9, <1>10, <1>11, <1>12,
     <1>13, <1>14, <1>15, <1>16, <1>17, <1>18, <1>19, <1>20, <1>21, <1>22,
     <1>23, <1>24, <1>25, <1>26, <1>27, <1>28, <1>29, <1>30, <1>31, <1>32
     DEF Next, RunStep, CallerStep, Returned

\* Every step is one the contract allows, or one the Observer does not see.
LEMMA ContractStep == TypeOK /\ ObserverInv /\ [Next]_vars
                  => [Contract!Next]_<<observed.state, observed.generation>>
<1> SUFFICES ASSUME TypeOK, ObserverInv, [Next]_vars
             PROVE  [Contract!Next]_<<observed.state, observed.generation>>
  OBVIOUS
<1> USE DEF TypeOK, ObserverInv, States, Contract!Next, Contract!BeginDial,
            Contract!Establish, Contract!Lose, Contract!Shut, sessionVars,
            ctxVars, runVars, netVars, readVars, callVars
<1>0. CASE AskClosed
  BY <1>0 DEF AskClosed, ClosedError, Return, CtxPoints
<1>1. CASE Start
  BY <1>1 DEF Start
<1>2. CASE Connecting
  BY <1>2 DEF Connecting, Return, Observe
<1>3. CASE ResolveRequest
  BY <1>3 DEF ResolveRequest
<1>4. CASE Connect
  BY <1>4 DEF Connect
<1>5. CASE ConnectFails
  BY <1>5 DEF ConnectFails, Observe
<1>6. CASE InstallRefused
  BY <1>6 DEF InstallRefused, Return
<1>7. CASE Install
  BY <1>7 DEF Install, Publish
<1>8. CASE ObserveConnected
  BY <1>8 DEF ObserveConnected, Observe
<1>9. CASE HookSucceeds
  BY <1>9 DEF HookSucceeds
<1>10. CASE HookFails
  BY <1>10 DEF HookFails, HookFailed, Observe
<1>11. CASE ConsumeStops
  BY <1>11 DEF ConsumeStops, LeaveConsume
<1>12. CASE ConsumeError
  BY <1>12 DEF ConsumeError, LeaveConsume
<1>13. CASE ConsumeMessage
  BY <1>13 DEF ConsumeMessage
<1>14. CASE PingFails
  BY <1>14 DEF PingFails, LeaveConsume
<1>15. CASE Handle
  BY <1>15 DEF Handle, LeaveConsume
<1>16. CASE HandlerClosesConn
  BY <1>16 DEF HandlerClosesConn, LeaveConsume
<1>17. CASE ReconnectCause
  BY <1>17 DEF ReconnectCause
<1>18. CASE Remove
  BY <1>18 DEF Remove, Return
<1>19. CASE AfterConsume
  BY <1>19 DEF AfterConsume, Return, Observe
<1>20. CASE WaitToReconnect
  BY <1>20 DEF WaitToReconnect, Return
<1>21. CASE WakeUp
  BY <1>21 DEF WakeUp, Return
<1>22. CASE Finish
  BY <1>22 DEF Finish, Observe
<1>23. CASE Read
  BY <1>23 DEF Read
<1>24. CASE Send
  BY <1>24 DEF Send
<1>25. CASE Reconnect
  BY <1>25 DEF Reconnect
<1>26. CASE \E c \in closing : ReconnectCloses(c)
  BY <1>26 DEF ReconnectCloses
<1>27. CASE Close
  BY <1>27 DEF Close
<1>28. CASE CloseCancels
  BY <1>28 DEF CloseCancels
<1>29. CASE CloseClosesConn
  BY <1>29 DEF CloseClosesConn
<1>30. CASE CancelContext
  BY <1>30 DEF CancelContext
<1>31. CASE PeerDrops
  BY <1>31 DEF PeerDrops
<1>32. CASE UNCHANGED vars
  BY <1>32 DEF vars
<1>33. QED
  BY <1>0, <1>1, <1>2, <1>3, <1>4, <1>5, <1>6, <1>7, <1>8, <1>9, <1>10, <1>11, <1>12,
     <1>13, <1>14, <1>15, <1>16, <1>17, <1>18, <1>19, <1>20, <1>21, <1>22,
     <1>23, <1>24, <1>25, <1>26, <1>27, <1>28, <1>29, <1>30, <1>31, <1>32
     DEF Next, RunStep, CallerStep, Returned

\* Every step keeps the count of consecutive reconnections within the limit.
LEMMA AttemptStep == TypeOK /\ AttemptInv /\ [Next]_vars => AttemptInv'
<1> SUFFICES ASSUME TypeOK, AttemptInv, [Next]_vars
             PROVE  AttemptInv'
  OBVIOUS
<1> USE SessionAssumption DEF TypeOK, AttemptInv, Retryable, RunPoints, CtxPoints, runVars
<1>0. CASE AskClosed
  BY <1>0 DEF AskClosed, ClosedError, Return, CtxPoints
<1>1. CASE Start
  BY <1>1 DEF Start
<1>2. CASE Connecting
  BY <1>2 DEF Connecting, Return, ContextError
<1>3. CASE ResolveRequest
  BY <1>3 DEF ResolveRequest
<1>4. CASE Connect
  BY <1>4 DEF Connect
<1>5. CASE ConnectFails
  BY <1>5 DEF ConnectFails
<1>6. CASE InstallRefused
  BY <1>6 DEF InstallRefused, Return
<1>7. CASE Install
  BY <1>7 DEF Install, Publish
<1>8. CASE ObserveConnected
  BY <1>8 DEF ObserveConnected
<1>9. CASE HookSucceeds
  BY <1>9 DEF HookSucceeds
<1>10. CASE HookFails
  BY <1>10 DEF HookFails, HookFailed
<1>11. CASE ConsumeStops
  BY <1>11 DEF ConsumeStops, LeaveConsume
<1>12. CASE ConsumeError
  BY <1>12 DEF ConsumeError, LeaveConsume
<1>13. CASE ConsumeMessage
  BY <1>13 DEF ConsumeMessage
<1>14. CASE PingFails
  BY <1>14 DEF PingFails, LeaveConsume
<1>15. CASE Handle
  BY <1>15 DEF Handle, LeaveConsume
<1>16. CASE HandlerClosesConn
  BY <1>16 DEF HandlerClosesConn, LeaveConsume
<1>17. CASE ReconnectCause
  BY <1>17 DEF ReconnectCause
<1>18. CASE Remove
  BY <1>18 DEF Remove, Return
<1>19. CASE AfterConsume
  BY <1>19 DEF AfterConsume, Return, ContextError
<1>20. CASE WaitToReconnect
  BY <1>20 DEF WaitToReconnect, Return, ContextError, DefaultReconnectPolicy, Exhausted
<1>21. CASE WakeUp
  BY <1>21 DEF WakeUp, Return, ContextError
<1>22. CASE Finish
  BY <1>22 DEF Finish
<1>23. CASE UNCHANGED runVars
  BY <1>23
<1>24. ASSUME Read \/ Send \/ Reconnect \/ (\E c \in closing : ReconnectCloses(c))
              \/ Close \/ CloseCancels \/ CloseClosesConn \/ CancelContext
              \/ PeerDrops \/ UNCHANGED vars
       PROVE  UNCHANGED runVars
  BY <1>24, Zenon
     DEF Read, Send, Reconnect, ReconnectCloses, Close, CloseCancels,
         CloseClosesConn, CancelContext, PeerDrops, vars
<1> QED
  BY <1>0, <1>1, <1>2, <1>3, <1>4, <1>5, <1>6, <1>7, <1>8, <1>9, <1>10, <1>11, <1>12, <1>13, <1>14, <1>15, <1>16, <1>17, <1>18, <1>19, <1>20, <1>21, <1>22, <1>23, <1>24 DEF Next, RunStep, CallerStep, Returned

\* The inductive invariant about sockets and published connections.
THEOREM Service == Spec => []ServiceInv
<1>1. Init => SocketInv /\ PublishedIsServed /\ ClosersInv
  BY DEF Init, SocketInv, Unconnected, CtxPoints, PublishedIsServed, ClosersInv
<1>2. TypeOK /\ SocketInv /\ PublishedIsServed /\ ClosersInv /\ [Next]_vars
        => (SocketInv /\ PublishedIsServed /\ ClosersInv)'
  BY SocketStep, PublishedStep, ClosersStep
<1>3. QED
  BY <1>1, <1>2, Typing, PTL DEF Spec, ServiceInv

\* Run, Close and Reconnect together keep at most one socket open, at any number of
\* dials.
THEOREM SingleSocket == Spec => []OneSocket
<1>1. ServiceInv => OneSocket
  BY DEF ServiceInv, SocketInv, OneSocket
<1>2. QED
  BY <1>1, Service, PTL

\* When Run has returned, every socket it ever dialed is closed.
THEOREM NothingLeaks == Spec => []NoSocketLeak
<1>1. ServiceInv => NoSocketLeak
  BY DEF ServiceInv, SocketInv, NoSocketLeak, Unconnected
<1>2. QED
  BY <1>1, Service, PTL

\* Write and Reconnect only ever reach the connection Run is serving.
THEOREM PublishedServed == Spec => []PublishedIsServed
<1>1. ServiceInv => PublishedIsServed
  BY DEF ServiceInv
<1>2. QED
  BY <1>1, Service, PTL

\* After Close no dial that was in flight is published or counted.
THEOREM FinalClose == Spec => CloseIsFinal
<1>1. ServiceInv /\ [Next]_vars
        => [closed => connection' = connection /\ generation' = generation]_vars
  BY FinalStep DEF ServiceInv
<1>2. QED
  BY <1>1, Service, PTL DEF Spec, CloseIsFinal

\* A late Connection.Close of an earlier Reconnect never breaks the successor.
THEOREM InnocentClose == Spec => NoInnocentClose
<1>1. ServiceInv /\ [Next]_vars
        => [(connection \in (open \ open') /\ connection' = connection)
              => (reconnect \/ ctxDone \/ canceled \/ pc = "remove")]_vars
  BY InnocentStep DEF ServiceInv
<1>2. QED
  BY <1>1, Service, PTL DEF Spec, NoInnocentClose

\* One socket at a time, the published one is the served one, and none is left
\* open: all that is said of a session's sockets, in every reachable state.
THEOREM SocketsKept == Spec => []SocketsAreKept
<1>1. TypeOK /\ OneSocket /\ PublishedIsServed /\ NoSocketLeak => SocketsAreKept
  BY DEF SocketsAreKept
<1>2. QED
  BY <1>1, Typing, SingleSocket, PublishedServed, NothingLeaks, PTL

\* No Connection.Close comes after its time: neither what Close and a dial in flight
\* do to each other, nor a late close by Reconnect, touches another connection.
THEOREM ClosesRight == Spec => ClosesAreRight
  BY FinalClose, InnocentClose DEF ClosesAreRight

\* Why Run says what it says about stopping, in every reachable state.
THEOREM StopReasons == Spec => []StopInv
<1>1. Init => StopInv
  BY DEF Init, StopInv
<1>2. ServiceInv /\ StopInv /\ [Next]_vars => StopInv'
  BY StopStep DEF ServiceInv
<1>3. QED
  BY <1>1, <1>2, Service, PTL DEF Spec

\* Run says that it was closed only after Close, and that its context is done only
\* if somebody called Close or canceled it.
THEOREM TruthfulRun == Spec => []TruthfulStop
<1>1. StopInv => TruthfulStop
  BY DEF StopInv, TruthfulStop
<1>2. QED
  BY <1>1, StopReasons, PTL

\* After Close a Run that has not passed stopError's first read finds closed there:
\* it can no longer blame the context alone.
NamedInv ==
  /\ closed
  /\ pc \in CtxPoints => ctxDone
  /\ pc \in {"finish", "done"} /\ result = "canceled" => ctxDone

\* Once Run must find closed, no step makes it blame a live context.
LEMMA NamedStep == TypeOK /\ ServiceInv /\ StopInv /\ NamedInv /\ [Next]_vars => NamedInv'
<1> SUFFICES ASSUME TypeOK, ServiceInv, StopInv, NamedInv, [Next]_vars
             PROVE  NamedInv'
  OBVIOUS
<1> USE DEF NamedInv, CtxPoints, sessionVars, ctxVars, runVars
<1>1. CASE Start
  BY <1>1 DEF Start
<1>2. CASE AskClosed
  BY <1>2 DEF AskClosed, ClosedError, Return
<1>3. CASE Connecting
  BY <1>3 DEF Connecting, Return, ContextError
<1>4. CASE InstallRefused
  BY <1>4 DEF InstallRefused, Return
<1>5. CASE Install
  BY <1>5 DEF Install, Publish
<1>6. CASE Remove
  BY <1>6 DEF Remove, Return, StopInv
<1>7. CASE AfterConsume
  BY <1>7 DEF AfterConsume, Return
<1>8. CASE WaitToReconnect
  BY <1>8 DEF WaitToReconnect, Return
<1>9. CASE WakeUp
  BY <1>9 DEF WakeUp, Return
<1>10. CASE Finish
  BY <1>10 DEF Finish
<1>11. CASE Close
  BY <1>11 DEF Close
<1>12. CASE CancelContext
  BY <1>12 DEF CancelContext
<1>13. CASE ResolveRequest
  BY <1>13 DEF ResolveRequest
<1>14. CASE Connect
  BY <1>14 DEF Connect
<1>15. CASE ConnectFails
  BY <1>15 DEF ConnectFails
<1>16. CASE ObserveConnected
  BY <1>16 DEF ObserveConnected
<1>17. CASE HookSucceeds
  BY <1>17 DEF HookSucceeds
<1>18. CASE HookFails
  BY <1>18 DEF HookFails, HookFailed
<1>19. CASE ConsumeStops
  BY <1>19 DEF ConsumeStops, LeaveConsume
<1>20. CASE ConsumeError
  BY <1>20 DEF ConsumeError, LeaveConsume
<1>21. CASE ConsumeMessage
  BY <1>21 DEF ConsumeMessage
<1>22. CASE PingFails
  BY <1>22 DEF PingFails, LeaveConsume
<1>23. CASE Handle
  BY <1>23 DEF Handle, LeaveConsume
<1>24. CASE HandlerClosesConn
  BY <1>24 DEF HandlerClosesConn, LeaveConsume
<1>25. CASE ReconnectCause
  BY <1>25 DEF ReconnectCause
<1>26. CASE Read \/ Send \/ Reconnect \/ (\E c \in closing : ReconnectCloses(c))
            \/ CloseCancels \/ CloseClosesConn \/ PeerDrops \/ UNCHANGED vars
  BY <1>26 DEF Read, Send, Reconnect, ReconnectCloses, CloseCancels, CloseClosesConn,
              PeerDrops, vars
<1>27. QED
  BY <1>1, <1>2, <1>3, <1>4, <1>5, <1>6, <1>7, <1>8, <1>9, <1>10, <1>11, <1>12, <1>13, <1>14,
     <1>15, <1>16, <1>17, <1>18, <1>19, <1>20, <1>21, <1>22, <1>23, <1>24, <1>25, <1>26 DEF Next, RunStep, CallerStep, Returned

\* Close names itself, wherever Run is when it comes, except between two reads.
THEOREM CloseNamed == Spec => CloseIsNamed
<1>1. ServiceInv /\ closed /\ ~ctxDone /\ pc \notin CtxPoints \cup {"finish", "done"} => NamedInv
  BY DEF NamedInv
<1>2. TypeOK /\ ServiceInv /\ StopInv /\ NamedInv /\ [Next]_vars => NamedInv'
  BY NamedStep
<1>3. NamedInv => (pc = "done" /\ ~ctxDone => result # "canceled")
  BY DEF NamedInv
<1>4. QED
  BY <1>1, <1>2, <1>3, Typing, Service, StopReasons, PTL DEF Spec, CloseIsNamed

\* A retryable error ends Run after exactly MaxReconnectAttempts reconnections in a
\* row, whatever the limit, and never when it is 0; only a handler's own error
\* ends it earlier.
THEOREM GivesUp == Spec => []GivesUpAtLimit
<1>1. Init => AttemptInv
  BY SessionAssumption DEF Init, AttemptInv, Retryable
<1>2. AttemptInv => GivesUpAtLimit
  BY DEF AttemptInv, Retryable, GivesUpAtLimit
<1>3. QED
  BY <1>1, <1>2, AttemptStep, Typing, PTL DEF Spec

\* Run ends only for the reason it names, for any limit on the attempts; Close is
\* not named only if it came between the two reads of stopError.
THEOREM EndsRight == Spec => EndsForAReason
  BY TruthfulRun, GivesUp, CloseNamed, PTL DEF EndsForAReason

\* The session implements the contract of its Observer.
THEOREM ImplementsContract == Spec => ObserverContract
<1>1. Init => ObserverInv /\ Contract!Init
  BY DEF Init, ObserverInv, Contract!Init
<1>2. TypeOK /\ ObserverInv /\ [Next]_vars => ObserverInv'
  BY ObserverStep
<1>3. TypeOK /\ ObserverInv /\ [Next]_vars
        => [Contract!Next]_<<observed.state, observed.generation>>
  BY ContractStep
<1>4. QED
  BY <1>1, <1>2, <1>3, Typing, PTL DEF Spec, ObserverContract, Contract!Spec

(* The rate limiter. *)

(* Sums of units. *)

\* A sequence of events that carry units.
Measured(s) == Len(s) \in Nat /\ \A i \in 1..Len(s) : s[i].units \in Nat

\* f[i] is the sum of the first i units of s.
Sums(f, s) ==
  /\ f \in [0..Len(s) -> Nat]
  /\ f[0] = 0
  /\ \A i \in 1..Len(s) : f[i] = f[i - 1] + s[i].units

\* The recursion that defines Units has a solution, and Units is its last value.
LEMMA UnitsSum ==
  ASSUME NEW s, Measured(s)
  PROVE  \E f : Sums(f, s) /\ Units(s) = f[Len(s)]
<1> DEFINE Rec(f, n) == f = [i \in 0..n |-> IF i = 0 THEN 0 ELSE f[i - 1] + s[i].units]
           T == {n \in 0..Len(s) : ~ \E f \in [0..n -> Nat] : Rec(f, n)}
<1> USE DEF Measured
<1>1. \A n \in 0..Len(s) : n \in T <=> ~ \E f \in [0..n -> Nat] : Rec(f, n)
  OBVIOUS
<1>2. T \subseteq 0..Len(s) /\ T \subseteq Nat
  OBVIOUS
<1> HIDE DEF T
<1>3. T = {}
  <2>1. SUFFICES ASSUME T # {} PROVE FALSE
    OBVIOUS
  <2>2. PICK n \in T : \A m \in T : n <= m
    BY <1>2, <2>1, LeastNumber
  <2>3. n # 0
    <3> DEFINE z == [i \in 0..0 |-> 0]
    <3>1. Rec(z, 0) /\ z \in [0..0 -> Nat]
      OBVIOUS
    <3>2. QED
      BY <1>1, <1>2, <3>1
  <2>4. n \in 1..Len(s) /\ n - 1 \in 0..Len(s) /\ n - 1 \notin T
    BY <1>2, <2>2, <2>3
  <2>5. PICK f \in [0..(n - 1) -> Nat] : Rec(f, n - 1)
    BY <1>1, <2>4
  <2> DEFINE g == [i \in 0..n |-> IF i = n THEN f[n - 1] + s[n].units ELSE f[i]]
  <2>6. g \in [0..n -> Nat]
    BY <2>4
  <2>7. \A i \in 0..n : g[i] = IF i = 0 THEN 0 ELSE g[i - 1] + s[i].units
    <3>1. \A i \in 0..(n - 1) : f[i] = IF i = 0 THEN 0 ELSE f[i - 1] + s[i].units
      BY <2>5, Zenon
    <3>2. QED
      BY <2>4, <3>1
  <2>8. Rec(g, n)
    BY <2>7
  <2> HIDE DEF g, Rec
  <2>9. \E e \in [0..n -> Nat] : Rec(e, n)
    BY <2>6, <2>8
  <2>10. QED
    BY <1>1, <1>2, <2>9
<1>4. \E f \in [0..Len(s) -> Nat] : Rec(f, Len(s))
  <2> HIDE DEF Rec
  <2>1. Len(s) \in 0..Len(s) /\ ~ Len(s) \in T
    BY <1>3
  <2>2. QED
    BY <1>1, <2>1, Zenon
<1>5. PICK f \in [0..Len(s) -> Nat] : Rec(f, Len(s))
  BY <1>4, Zenon
<1> DEFINE h == CHOOSE h : Rec(h, Len(s))
<1>6. Rec(h, Len(s))
  BY <1>5, Zenon
<1>7. Units(s) = h[Len(s)]
  BY Zenon DEF Units
<1> HIDE DEF h
<1>8. \A i \in 0..Len(s) : h[i] = IF i = 0 THEN 0 ELSE h[i - 1] + s[i].units
  BY <1>6, Zenon
<1>9. \A i \in 0..Len(s) : f[i] = IF i = 0 THEN 0 ELSE f[i - 1] + s[i].units
  BY <1>5, Zenon
<1>10. \A i \in 0..Len(s) : h[i] = f[i]
  <2> DEFINE U == {i \in 0..Len(s) : h[i] # f[i]}
  <2>1. SUFFICES ASSUME U # {} PROVE FALSE
    OBVIOUS
  <2>2. PICK n \in U : \A m \in U : n <= m
    <3>1. U \subseteq Nat
      OBVIOUS
    <3> HIDE DEF U
    <3>2. QED
      BY <2>1, <3>1, LeastNumber
  <2>3. n = 0 \/ (n - 1 \in 0..Len(s) /\ h[n - 1] = f[n - 1])
    BY <2>2
  <2>4. QED
    BY <1>8, <1>9, <2>2, <2>3
<1>11. Sums(f, s)
  BY <1>9 DEF Sums
<1>12. Units(s) = f[Len(s)]
  BY <1>7, <1>10
<1> QED
  BY <1>11, <1>12

\* A sum of units never falls as more events are counted.
LEMMA SumsRise ==
  ASSUME NEW s, Measured(s), NEW f, Sums(f, s),
         NEW i \in 0..Len(s), NEW j \in 0..Len(s), i <= j
  PROVE  f[i] <= f[j]
<1> USE DEF Measured, Sums
<1> DEFINE T == {n \in 0..Len(s) : i <= n /\ ~(f[i] <= f[n])}
<1>1. SUFFICES ASSUME T # {} PROVE FALSE
  OBVIOUS
<1>2. T \subseteq Nat
  OBVIOUS
<1>3. PICK n \in T : \A m \in T : n <= m
  <2> HIDE DEF T
  <2>1. QED
    BY <1>1, <1>2, LeastNumber
<1>4. n \in 1..Len(s) /\ i <= n - 1 /\ n - 1 \in 0..Len(s)
  BY <1>3
<1>5. f[i] <= f[n - 1]
  BY <1>3, <1>4
<1>6. f[n] = f[n - 1] + s[n].units /\ s[n].units \in Nat
      /\ f[n - 1] \in Nat /\ f[i] \in Nat
  BY <1>4
<1>7. ~(f[i] <= f[n])
  BY <1>3
<1> HIDE DEF Measured, Sums, T
<1>8. QED
  BY <1>5, <1>6, <1>7

\* The units of a stretch of s are the difference of two sums of s.
LEMMA UnitsOfStretch ==
  ASSUME NEW s, Measured(s), NEW f, Sums(f, s), NEW t, Measured(t),
         NEW d \in Nat, d + Len(t) <= Len(s),
         \A i \in 1..Len(t) : t[i].units = s[d + i].units
  PROVE  Units(t) = f[d + Len(t)] - f[d]
<1>1. PICK g : Sums(g, t) /\ Units(t) = g[Len(t)]
  BY UnitsSum
<1>2. Len(s) \in Nat /\ Len(t) \in Nat /\ \A i \in 1..Len(t) : t[i].units \in Nat
  BY DEF Measured
<1>3. /\ \A i \in 0..Len(s) : f[i] \in Nat
      /\ \A i \in 1..Len(s) : f[i] = f[i - 1] + s[i].units
  BY DEF Sums
<1>4. g[0] = 0 /\ \A i \in 1..Len(t) : g[i] = g[i - 1] + t[i].units
  BY <1>1 DEF Sums
<1> DEFINE T == {n \in 0..Len(t) : g[n] # f[d + n] - f[d]}
<1>5. T \subseteq 0..Len(t) /\ \A m \in 0..Len(t) : m \in T <=> g[m] # f[d + m] - f[d]
  OBVIOUS
<1> HIDE DEF T
<1>6. T = {}
  <2>1. SUFFICES ASSUME T # {} PROVE FALSE
    OBVIOUS
  <2>2. T \subseteq Nat
    BY <1>2, <1>5
  <2>3. PICK n \in T : \A m \in T : n <= m
    BY <2>1, <2>2, LeastNumber
  <2>4. d \in 0..Len(s) /\ f[d] \in Nat
    BY <1>2, <1>3
  <2>5. n # 0
    BY <1>2, <1>4, <1>5, <2>3, <2>4
  <2>6. n \in 1..Len(t) /\ n - 1 \in 0..Len(t) /\ n - 1 \notin T
    BY <1>2, <1>5, <2>3, <2>5
  <2>7. g[n - 1] = f[d + (n - 1)] - f[d]
    BY <1>5, <2>6
  <2>8. g[n] = g[n - 1] + t[n].units
    BY <1>4, <2>6
  <2>9. d + n \in 1..Len(s) /\ d + (n - 1) \in 0..Len(s) /\ (d + n) - 1 = d + (n - 1)
    BY <1>2, <2>6
  <2>10. f[d + n] = f[(d + n) - 1] + s[d + n].units
    BY <1>3, <2>9
  <2>11. t[n].units = s[d + n].units
    BY <2>6
  <2>12. f[d + (n - 1)] \in Nat /\ t[n].units \in Nat
    BY <1>2, <1>3, <2>6, <2>9
  <2>13. g[n] = f[d + n] - f[d]
    BY <2>4, <2>7, <2>8, <2>9, <2>10, <2>11, <2>12
  <2>14. QED
    BY <1>5, <2>3, <2>13
<1>7. g[Len(t)] = f[d + Len(t)] - f[d]
  BY <1>2, <1>5, <1>6
<1>8. QED
  BY <1>1, <1>7

\* Sequences of usage events and of logged charges carry units.
LEMMA EventsMeasured ==
  ASSUME NEW S, \A e \in S : e.units \in Nat, NEW s \in Seq(S)
  PROVE  Measured(s)
  BY DEF Measured

\* Nothing was charged in an empty bucket.
LEMMA UnitsOfNone == Units(<<>>) = 0
<1>1. Measured(<<>>)
  BY DEF Measured
<1>2. PICK f : Sums(f, <<>>) /\ Units(<<>>) = f[Len(<<>>)]
  BY <1>1, UnitsSum
<1>3. QED
  BY <1>2 DEF Sums

\* One more event adds its units.
LEMMA UnitsOfAppend ==
  ASSUME NEW S, \A e \in S : e.units \in Nat, NEW s \in Seq(S), NEW e \in S
  PROVE  Units(Append(s, e)) = Units(s) + e.units
<1> DEFINE t == Append(s, e)
<1>1. t \in Seq(S) /\ Len(t) = Len(s) + 1 /\ t[Len(s) + 1] = e
      /\ \A i \in 1..Len(s) : t[i] = s[i]
  OBVIOUS
<1> HIDE DEF t
<1>2. Measured(s) /\ Measured(t)
  BY <1>1, EventsMeasured
<1>3. PICK f : Sums(f, t) /\ Units(t) = f[Len(t)]
  BY <1>2, UnitsSum
<1>4. Len(s) \in Nat
  OBVIOUS
<1>5. Units(s) = f[0 + Len(s)] - f[0]
  <2>1. \A i \in 1..Len(s) : s[i].units = t[0 + i].units
    BY <1>1
  <2>2. 0 + Len(s) <= Len(t)
    BY <1>1, <1>4
  <2>3. QED
    BY <1>2, <1>3, <2>1, <2>2, UnitsOfStretch
<1>6. f[Len(t)] = f[Len(s)] + t[Len(s) + 1].units /\ f[0] = 0 /\ f[Len(s)] \in Nat
  BY <1>1, <1>3, <1>4 DEF Sums
<1>7. QED
  BY <1>1, <1>3, <1>4, <1>5, <1>6 DEF t

\* A sequence has the units of its first n elements and those of the others.
LEMMA UnitsOfSplit ==
  ASSUME NEW S, \A e \in S : e.units \in Nat, NEW s \in Seq(S), NEW n \in 0..Len(s)
  PROVE  /\ Units(s) = Units(SubSeq(s, 1, n)) + Units(SubSeq(s, n + 1, Len(s)))
         /\ Units(SubSeq(s, 1, n)) \in Nat
         /\ Units(SubSeq(s, n + 1, Len(s))) \in Nat
<1> DEFINE t == SubSeq(s, 1, n)
           u == SubSeq(s, n + 1, Len(s))
<1>1. Len(s) \in Nat
  OBVIOUS
<1>2. t \in Seq(S) /\ Len(t) = n /\ \A i \in 1..n : t[i] = s[i]
  BY <1>1
<1>3. u \in Seq(S) /\ Len(u) = Len(s) - n /\ \A i \in 1..(Len(s) - n) : u[i] = s[n + i]
  BY <1>1
<1> HIDE DEF t, u
<1>4. Measured(s) /\ Measured(t) /\ Measured(u)
  BY <1>2, <1>3, EventsMeasured
<1>5. PICK f : Sums(f, s) /\ Units(s) = f[Len(s)]
  BY <1>4, UnitsSum
<1>6. Units(t) = f[0 + n] - f[0]
  <2>1. \A i \in 1..Len(t) : t[i].units = s[0 + i].units
    BY <1>2
  <2>2. QED
    BY <1>2, <1>4, <1>5, <2>1, UnitsOfStretch
<1>7. Units(u) = f[Len(s)] - f[n]
  <2>1. \A i \in 1..Len(u) : u[i].units = s[n + i].units
    BY <1>3
  <2>2. n \in Nat /\ n + Len(u) <= Len(s) /\ n + Len(u) = Len(s)
    BY <1>1, <1>3
  <2>3. Units(u) = f[n + Len(u)] - f[n]
    BY <1>4, <1>5, <2>1, <2>2, UnitsOfStretch
  <2>4. QED
    BY <2>2, <2>3
<1>8. f[0] = 0 /\ f[n] \in Nat /\ f[Len(s)] \in Nat /\ f[n] <= f[Len(s)]
  <2>1. f[n] <= f[Len(s)]
    BY <1>1, <1>4, <1>5, SumsRise
  <2>2. QED
    BY <1>1, <1>5, <2>1 DEF Sums
<1>9. QED
  BY <1>1, <1>5, <1>6, <1>7, <1>8 DEF t, u
-----------------------------------------------------------------------------
(* One bucket and its log. *)

Buckets == [events : Seq(UsageEvents), used : Nat, blockedUntil : Nat]

\* The bucket's events are the last charges of the log; the charges that were let go
\* had expired, and each was booked at most MaxLag after its caller read the clock.
Recorded(events, entries, window, t) ==
  LET gone == Len(entries) - Len(events)
  IN /\ gone >= 0
     /\ \A i \in 1..Len(events) : /\ events[i].at = entries[gone + i].at
                                  /\ events[i].units = entries[gone + i].units
     /\ \A i \in 1..gone : entries[i].at + window <= t
     /\ \A i \in 1..Len(entries) : /\ entries[i].clock <= t
                                   /\ entries[i].clock <= entries[i].at + MaxLag

\* WindowLimit for the log of one rule.
Within(entries, rule) ==
  \A i, j \in DOMAIN entries :
    (/\ i <= j
     /\ entries[j].granted
     /\ entries[j].clock - entries[i].clock < rule.window - MaxLag)
      => Units(SubSeq(entries, i, j)) <= rule.limit

\* bucketFor lets go exactly the events before the first that is inside the window,
\* and keeps the counter equal to the sum of what is left.
LEMMA Pruning ==
  ASSUME NEW b \in Buckets, NEW rule, rule.window \in Nat, NEW t \in Nat,
         b.used = Units(b.events)
  PROVE  \E n \in 0..Len(b.events) :
           LET p == BucketFor(b, rule, t)
           IN /\ p \in Buckets
              /\ p.events = SubSeq(b.events, n + 1, Len(b.events))
              /\ p.used = Units(p.events)
              /\ p.blockedUntil = b.blockedUntil
              /\ \A i \in 1..n : b.events[i].at + rule.window <= t
              /\ n < Len(b.events) => b.events[n + 1].at + rule.window > t
<1> DEFINE events == b.events
           live == {i \in DOMAIN events : events[i].at + rule.window > t}
           n == IF live = {} THEN Len(events) ELSE Min(live) - 1
           rest == SubSeq(events, n + 1, Len(events))
<1>1. events \in Seq(UsageEvents) /\ b.used \in Nat /\ b.blockedUntil \in Nat
  BY DEF Buckets
<1> HIDE DEF events
<1>2. events \in Seq(UsageEvents) /\ Len(events) \in Nat /\ b.used \in Nat
      /\ DOMAIN events = 1..Len(events)
      /\ \A i \in 1..Len(events) : events[i].at \in Nat
  <2>1. \A e \in UsageEvents : e.at \in Nat
    BY DEF UsageEvents
  <2>2. \A i \in 1..Len(events) : events[i] \in UsageEvents
    BY <1>1
  <2>3. QED
    BY <1>1, <2>1, <2>2
<1>3. live \subseteq 1..Len(events)
      /\ \A i \in 1..Len(events) : i \in live <=> events[i].at + rule.window > t
  BY <1>2
<1> HIDE DEF live
<1>4. /\ n \in 0..Len(events)
      /\ \A i \in 1..n : events[i].at + rule.window <= t
      /\ n < Len(events) => events[n + 1].at + rule.window > t
  <2>1. CASE live = {}
    BY <1>2, <1>3, <2>1
  <2>2. CASE live # {}
    <3>1. Min(live) \in live /\ \A y \in live : Min(live) <= y
      <4>1. live \subseteq Nat
        BY <1>3
      <4>2. QED
        BY <2>2, <4>1, MinIsLeast
    <3>2. Min(live) \in 1..Len(events)
      BY <1>3, <3>1
    <3> DEFINE m == Min(live)
    <3>3. n = m - 1 /\ m \in 1..Len(events) /\ m \in live /\ \A y \in live : m <= y
      BY <2>2, <3>1, <3>2
    <3> HIDE DEF m, n
    <3>4. \A i \in 1..n : i \in 1..Len(events) /\ i \notin live
      BY <1>2, <3>3
    <3>5. n \in 0..Len(events) /\ n + 1 = m
      BY <1>2, <3>3
    <3>6. QED
      BY <1>2, <1>3, <3>3, <3>4, <3>5
  <2>3. QED
    BY <2>1, <2>2
<1>5. BucketFor(b, rule, t) = [events |-> rest, used |-> b.used - Units(SubSeq(events, 1, n)),
                               blockedUntil |-> b.blockedUntil]
  BY Zenon DEF BucketFor, live, events
<1> HIDE DEF n
<1>6. rest \in Seq(UsageEvents)
  BY <1>2, <1>4
<1>7. b.used = Units(SubSeq(events, 1, n)) + Units(rest)
      /\ Units(SubSeq(events, 1, n)) \in Nat /\ Units(rest) \in Nat
  <2>1. \A e \in UsageEvents : e.units \in Nat
    BY DEF UsageEvents
  <2>2. QED
    BY <1>2, <1>4, <2>1, UnitsOfSplit DEF events
<1> HIDE DEF rest
<1>8. BucketFor(b, rule, t) = [events |-> rest, used |-> Units(rest), blockedUntil |-> b.blockedUntil]
  <2>1. b.used - Units(SubSeq(events, 1, n)) = Units(rest)
    BY <1>7
  <2>2. QED
    BY <1>5, <2>1
<1>9. BucketFor(b, rule, t) \in Buckets
  BY <1>1, <1>6, <1>7, <1>8 DEF Buckets
<1> DEFINE p == BucketFor(b, rule, t)
<1>10. p.events = rest /\ p.used = Units(rest) /\ p.blockedUntil = b.blockedUntil
  BY <1>8
<1> HIDE DEF p
<1>11. /\ p \in Buckets
       /\ p.events = SubSeq(b.events, n + 1, Len(b.events))
       /\ p.used = Units(p.events)
       /\ p.blockedUntil = b.blockedUntil
       /\ \A i \in 1..n : b.events[i].at + rule.window <= t
       /\ n < Len(b.events) => b.events[n + 1].at + rule.window > t
  BY <1>4, <1>9, <1>10 DEF rest, events, p
<1>12. n \in 0..Len(b.events)
  BY <1>4 DEF events
<1>13. QED
  BY <1>11, <1>12, Zenon DEF p

\* Charging a bucket appends the event and counts it.
LEMMA Charging ==
  ASSUME NEW b \in Buckets, b.used = Units(b.events),
         NEW t \in Nat, NEW units \in Nat \ {0}
  PROVE  LET c == ChargeBucket(b, t, units)
         IN /\ c \in Buckets
            /\ c.events = Append(b.events, [at |-> t, units |-> units])
            /\ c.used = b.used + units /\ c.used = Units(c.events)
            /\ c.blockedUntil = b.blockedUntil
<1> DEFINE e == [at |-> t, units |-> units]
           c == ChargeBucket(b, t, units)
<1>1. e \in UsageEvents /\ e.units = units /\ \A u \in UsageEvents : u.units \in Nat
  BY DEF UsageEvents
<1>2. b.events \in Seq(UsageEvents) /\ b.used \in Nat /\ b.blockedUntil \in Nat
  BY DEF Buckets
<1>3. c = [events |-> Append(b.events, e), used |-> b.used + units,
           blockedUntil |-> b.blockedUntil]
  BY DEF ChargeBucket
<1> HIDE DEF e, c
<1>4. c.events = Append(b.events, e) /\ c.used = b.used + units
      /\ c.blockedUntil = b.blockedUntil
  BY <1>3
<1>5. Append(b.events, e) \in Seq(UsageEvents)
  BY <1>1, <1>2
<1>6. c \in Buckets
  BY <1>2, <1>3, <1>5 DEF Buckets
<1>7. Units(Append(b.events, e)) = Units(b.events) + e.units
  BY <1>1, <1>2, UnitsOfAppend
<1>8. QED
  BY <1>1, <1>4, <1>6, <1>7 DEF e, c

\* A caller that nothing blocks has room: the usage and its charge are within the
\* limit, and no ban is in force at the time it reads.
LEMMA RoomAtGrant ==
  ASSUME NEW c, NEW k, NEW b \in Buckets, b.used = Units(b.events),
         charges[c][k] \in Nat \ {0}, now[c] \in Nat,
         rules[k].limit \in Nat, rules[k].window \in Nat \ {0},
         charges[c][k] <= rules[k].limit, Blocks(c, k, b) = 0
  PROVE  b.used + charges[c][k] <= rules[k].limit /\ b.blockedUntil <= now[c]
<1> DEFINE blocked == IF b.blockedUntil > now[c] THEN b.blockedUntil ELSE 0
           excess == b.used + charges[c][k] - rules[k].limit
           enough == {i \in DOMAIN b.events : Units(SubSeq(b.events, 1, i)) >= excess}
           expires == EventExpiration(b.events, excess, rules[k].window)
           full == IF excess > 0 THEN expires ELSE 0
<1>1. b.events \in Seq(UsageEvents) /\ b.used \in Nat /\ b.blockedUntil \in Nat
  BY DEF Buckets
<1>2. Max({blocked, full}) = 0
  BY DEF Blocks
<1>3. expires = IF enough = {} THEN 0 ELSE b.events[Min(enough)].at + rules[k].window
  BY DEF EventExpiration
<1> DEFINE n == Len(b.events)
<1>4. enough \subseteq 1..n
  BY <1>1
<1>5. n \in Nat /\ \A i \in 1..n : b.events[i].at \in Nat
  <2>1. \A i \in 1..n : b.events[i] \in UsageEvents
    BY <1>1
  <2>2. QED
    BY <1>1, <2>1 DEF UsageEvents
<1>6. excess > 0 => enough # {}
  <2>1. SUFFICES ASSUME excess > 0 PROVE n \in enough
    OBVIOUS
  <2>2. n # 0
    <3>1. n = 0 => b.events = <<>>
      BY <1>1
    <3>2. n = 0 => b.used = 0
      BY <3>1, UnitsOfNone
    <3>3. QED
      BY <2>1, <3>2
  <2>3. SubSeq(b.events, 1, n) = b.events
    BY <1>1
  <2>4. b.used >= excess
    BY <1>1
  <2>5. n \in DOMAIN b.events
    BY <1>1, <2>2
  <2> HIDE DEF n, excess
  <2>6. Units(SubSeq(b.events, 1, n)) >= excess
    BY <2>3, <2>4
  <2>7. QED
    BY <2>5, <2>6
<1> HIDE DEF enough, n
<1>7. excess > 0 => expires \in Nat \ {0}
  <2>1. SUFFICES ASSUME excess > 0 PROVE expires \in Nat \ {0}
    OBVIOUS
  <2>2. enough # {} /\ enough \subseteq Nat
    BY <1>4, <1>6, <2>1
  <2>3. Min(enough) \in enough
    BY <2>2, MinIsLeast
  <2>4. Min(enough) \in 1..n
    BY <1>4, <2>3
  <2>5. b.events[Min(enough)].at \in Nat
    BY <1>5, <2>4
  <2> HIDE DEF excess, expires
  <2>6. expires = b.events[Min(enough)].at + rules[k].window
    BY <1>3, <2>2
  <2>7. rules[k].window \in Nat /\ rules[k].window > 0
    OBVIOUS
  <2> DEFINE a == b.events[Min(enough)].at
             w == rules[k].window
  <2>8. a \in Nat /\ w \in Nat /\ w > 0 /\ expires = a + w
    BY <2>5, <2>6, <2>7
  <2> HIDE DEF a, w
  <2>9. QED
    BY <2>8
<1> HIDE DEF expires
<1>8. blocked \in Nat /\ full \in Nat
  BY <1>1, <1>7
<1>9. blocked = 0 /\ full = 0
  <2> HIDE DEF blocked, full
  <2>1. Max({blocked, full}) >= blocked /\ Max({blocked, full}) >= full
    BY <1>8, MaxOfTwo
  <2>2. QED
    BY <1>2, <1>8, <2>1
<1>10. QED
  BY <1>1, <1>7, <1>9

\* A fresh bucket has an empty log.
LEMMA RecordedEmpty ==
  ASSUME NEW window, NEW t
  PROVE  Recorded(<<>>, <<>>, window, t)
  BY DEF Recorded

\* What is recorded stays recorded as time passes.
LEMMA RecordedLater ==
  ASSUME NEW events \in Seq(UsageEvents), NEW entries \in Seq(LoggedCharges),
         NEW window \in Nat, NEW t \in Nat, NEW u \in Nat, t <= u,
         Recorded(events, entries, window, t)
  PROVE  Recorded(events, entries, window, u)
<1> DEFINE gone == Len(entries) - Len(events)
<1>1. Len(entries) \in Nat /\ Len(events) \in Nat
      /\ \A i \in 1..Len(entries) : entries[i].clock \in Nat /\ entries[i].at \in Nat
  <2>1. \A i \in 1..Len(entries) : entries[i] \in LoggedCharges
    OBVIOUS
  <2>2. QED
    BY <2>1 DEF LoggedCharges
<1>2. gone \in 0..Len(entries)
  BY <1>1 DEF Recorded
<1>3. \A i \in 1..gone : i \in 1..Len(entries) /\ entries[i].at + window <= u
  BY <1>1, <1>2 DEF Recorded
<1>4. \A i \in 1..Len(entries) : entries[i].clock <= u
  BY <1>1 DEF Recorded
<1>5. QED
  BY <1>3, <1>4 DEF Recorded

\* Letting expired events go keeps the bucket in step with its log.
LEMMA RecordedPruned ==
  ASSUME NEW events \in Seq(UsageEvents), NEW entries \in Seq(LoggedCharges),
         NEW window \in Nat, NEW t \in Nat, Recorded(events, entries, window, t),
         NEW n \in 0..Len(events), \A i \in 1..n : events[i].at + window <= t
  PROVE  Recorded(SubSeq(events, n + 1, Len(events)), entries, window, t)
<1> DEFINE gone == Len(entries) - Len(events)
           rest == SubSeq(events, n + 1, Len(events))
<1>1. Len(entries) \in Nat /\ Len(events) \in Nat /\ gone \in Nat
  BY DEF Recorded
<1>2. Len(rest) = Len(events) - n /\ \A i \in 1..Len(rest) : rest[i] = events[n + i]
  BY <1>1
<1> HIDE DEF rest
<1>3. Len(entries) - Len(rest) = gone + n
  BY <1>1, <1>2
<1>4. \A i \in 1..Len(rest) : /\ rest[i].at = entries[(gone + n) + i].at
                              /\ rest[i].units = entries[(gone + n) + i].units
  <2> TAKE i \in 1..Len(rest)
  <2>1. n + i \in 1..Len(events) /\ gone + (n + i) = (gone + n) + i
    BY <1>1, <1>2
  <2>2. QED
    BY <1>2, <2>1 DEF Recorded
<1>5. \A i \in 1..(gone + n) : entries[i].at + window <= t
  <2> TAKE i \in 1..(gone + n)
  <2>1. CASE i <= gone
    BY <1>1, <2>1 DEF Recorded
  <2>2. CASE i > gone
    <3>1. i - gone \in 1..n /\ i - gone \in 1..Len(events) /\ gone + (i - gone) = i
      BY <1>1, <2>2
    <3>2. events[i - gone].at = entries[i].at
      BY <3>1 DEF Recorded
    <3>3. QED
      BY <3>1, <3>2
  <2>3. QED
    BY <1>1, <2>1, <2>2
<1>6. \A i \in 1..Len(entries) : /\ entries[i].clock <= t
                                 /\ entries[i].clock <= entries[i].at + MaxLag
  BY DEF Recorded
<1>7. Recorded(rest, entries, window, t)
  <2> DEFINE g == Len(entries) - Len(rest)
  <2>1. g = gone + n /\ g >= 0
    BY <1>1, <1>3
  <2>2. \A i \in 1..Len(rest) : /\ rest[i].at = entries[g + i].at
                                /\ rest[i].units = entries[g + i].units
    BY <1>4, <2>1
  <2>3. \A i \in 1..g : entries[i].at + window <= t
    BY <1>5, <2>1
  <2>4. QED
    BY <1>6, <2>1, <2>2, <2>3, Zenon DEF Recorded
<1>8. QED
  BY <1>7 DEF rest

\* So does a charge that is booked in both, at a time not older than MaxLag.
LEMMA RecordedCharged ==
  ASSUME NEW events \in Seq(UsageEvents), NEW entries \in Seq(LoggedCharges),
         NEW window \in Nat, NEW t \in Nat, Recorded(events, entries, window, t),
         NEW e \in UsageEvents, NEW l \in LoggedCharges,
         l.at = e.at, l.units = e.units, l.clock = t, t <= l.at + MaxLag
  PROVE  Recorded(Append(events, e), Append(entries, l), window, t)
<1> DEFINE gone == Len(entries) - Len(events)
           more == Append(events, e)
           longer == Append(entries, l)
<1>1. Len(entries) \in Nat /\ Len(events) \in Nat /\ gone \in 0..Len(entries)
  BY DEF Recorded
<1>2. Len(more) = Len(events) + 1 /\ more[Len(events) + 1] = e
      /\ \A i \in 1..Len(events) : more[i] = events[i]
  OBVIOUS
<1>3. Len(longer) = Len(entries) + 1 /\ longer[Len(entries) + 1] = l
      /\ \A i \in 1..Len(entries) : longer[i] = entries[i]
  OBVIOUS
<1> HIDE DEF more, longer
<1>4. Len(longer) - Len(more) = gone
  BY <1>1, <1>2, <1>3
<1>5. \A i \in 1..Len(more) : /\ more[i].at = longer[gone + i].at
                              /\ more[i].units = longer[gone + i].units
  <2> TAKE i \in 1..Len(more)
  <2>1. CASE i = Len(events) + 1
    <3>1. gone + i = Len(entries) + 1
      BY <1>1, <2>1
    <3>2. QED
      BY <1>2, <1>3, <2>1, <3>1
  <2>2. CASE i # Len(events) + 1
    <3>1. i \in 1..Len(events) /\ gone + i \in 1..Len(entries)
      BY <1>1, <1>2, <2>2
    <3>2. QED
      BY <1>2, <1>3, <3>1 DEF Recorded
  <2>3. QED
    BY <2>1, <2>2
<1>6. \A i \in 1..gone : longer[i].at + window <= t
  <2> TAKE i \in 1..gone
  <2>1. i \in 1..Len(entries) /\ entries[i].at + window <= t
    BY <1>1 DEF Recorded
  <2>2. QED
    BY <1>3, <2>1
<1>7. \A i \in 1..Len(longer) : /\ longer[i].clock <= t
                                /\ longer[i].clock <= longer[i].at + MaxLag
  <2>1. \A i \in 1..Len(entries) : /\ entries[i].clock <= t
                                   /\ entries[i].clock <= entries[i].at + MaxLag
    BY DEF Recorded
  <2>2. QED
    BY <1>1, <1>3, <2>1
<1>8. QED
  BY <1>1, <1>4, <1>5, <1>6, <1>7 DEF Recorded, more, longer

\* A stretch of a log is not affected by what is added later.
LEMMA StretchOfAppend ==
  ASSUME NEW S, NEW s \in Seq(S), NEW x \in S, NEW i \in 1..Len(s), NEW j \in 1..Len(s)
  PROVE  SubSeq(Append(s, x), i, j) = SubSeq(s, i, j)
  OBVIOUS

\* A charge that is not granted to a caller ends no window that counts, and one that
\* is granted, with the bucket within its limit, keeps every window within it:
\* whatever is inside the shortened window is still in the bucket.
LEMMA WithinCharged ==
  ASSUME NEW events \in Seq(UsageEvents), NEW entries \in Seq(LoggedCharges),
         NEW rule, rule.window \in Nat, rule.limit \in Nat,
         NEW t \in Nat, Within(entries, rule), NEW l \in LoggedCharges, l.clock = t,
         Recorded(events, Append(entries, l), rule.window, t),
         l.granted => Units(events) <= rule.limit
  PROVE  Within(Append(entries, l), rule)
<1> DEFINE longer == Append(entries, l)
           n == Len(entries) + 1
           gone == Len(longer) - Len(events)
<1>1. MaxLag \in Nat
  BY LimiterAssumption
<1>2. Len(entries) \in Nat /\ Len(events) \in Nat /\ longer \in Seq(LoggedCharges)
  OBVIOUS
<1>3. Len(longer) = n /\ longer[n] = l /\ \A i \in 1..Len(entries) : longer[i] = entries[i]
  OBVIOUS
<1>4. \A i \in 1..n : longer[i].clock \in Nat /\ longer[i].at \in Nat
  <2>1. \A i \in 1..n : longer[i] \in LoggedCharges
    BY <1>2, <1>3
  <2>2. QED
    BY <2>1 DEF LoggedCharges
<1>5. DOMAIN longer = 1..n /\ DOMAIN entries = 1..Len(entries) /\ n \in Nat
  BY <1>2, <1>3
<1>6. SUFFICES ASSUME NEW i \in 1..n, NEW j \in 1..n, i <= j, longer[j].granted,
                      longer[j].clock - longer[i].clock < rule.window - MaxLag
               PROVE  Units(SubSeq(longer, i, j)) <= rule.limit
  BY <1>5 DEF Within
<1> HIDE DEF longer
<1>7. CASE j # n
  <2>1. i \in 1..Len(entries) /\ j \in 1..Len(entries)
    BY <1>2, <1>6, <1>7, SMTT(30)
  <2>2. i \in DOMAIN entries /\ j \in DOMAIN entries
    BY <1>5, <2>1
  <2>3. SubSeq(longer, i, j) = SubSeq(entries, i, j)
    BY <2>1, StretchOfAppend DEF longer
  <2>4. longer[i] = entries[i] /\ longer[j] = entries[j]
    BY <1>3, <1>5, <2>2
  <2>5. QED
    BY <1>6, <2>2, <2>3, <2>4 DEF Within
<1>8. CASE j = n
  <2>1. Units(events) <= rule.limit
    BY <1>3, <1>6, <1>8
  <2>2. gone \in 0..n /\ \A m \in 1..gone : longer[m].at + rule.window <= t
    <3>1. gone >= 0 /\ \A m \in 1..gone : longer[m].at + rule.window <= t
      BY Zenon DEF Recorded, longer
    <3>2. QED
      BY <1>2, <1>3, <3>1
  <2>3. longer[i].clock <= longer[i].at + MaxLag
    <3>1. \A m \in 1..Len(longer) : longer[m].clock <= longer[m].at + MaxLag
      BY Zenon DEF Recorded, longer
    <3>2. QED
      BY <1>3, <3>1
  <2>4. longer[i].at + rule.window > t
    BY <1>1, <1>3, <1>4, <1>6, <1>8, <2>3, SMTT(30)
  <2>5. i > gone
    <3>1. SUFFICES ASSUME i <= gone PROVE FALSE
      BY <1>5, <2>2
    <3>2. longer[i].at + rule.window <= t
      BY <1>5, <2>2, <3>1
    <3>3. QED
      BY <1>4, <2>4, <3>2
  <2> DEFINE d == i - gone - 1
             tail == SubSeq(longer, i, n)
  <2>6. d \in Nat /\ Len(tail) = n - i + 1 /\ d + Len(tail) = Len(events)
        /\ tail \in Seq(LoggedCharges)
        /\ \A m \in 1..Len(tail) : tail[m] = longer[i + m - 1]
    BY <1>2, <1>3, <1>5, <2>2, <2>5
  <2>7. \A m \in 1..Len(tail) : tail[m].units = events[d + m].units
    <3> TAKE m \in 1..Len(tail)
    <3>1. gone \in Nat /\ Len(events) \in Nat /\ Len(tail) = n - i + 1 /\ n \in Nat
          /\ d + Len(tail) = Len(events)
      BY <1>2, <1>5, <2>2, <2>6
    <3>2. d + m \in 1..Len(events) /\ gone + (d + m) = i + m - 1
      <4> HIDE DEF gone, tail, n
      <4>1. m \in Nat \ {0} /\ m <= Len(tail) /\ i \in Nat
        BY <3>1
      <4>2. QED
        BY <2>6, <3>1, <4>1
    <3>3. events[d + m].units = longer[gone + (d + m)].units
      BY <3>2 DEF Recorded, longer
    <3>4. QED
      BY <2>6, <3>2, <3>3
  <2> HIDE DEF d, tail
  <2>8. Measured(events) /\ Measured(tail)
    <3>1. \A e \in UsageEvents \cup LoggedCharges : e.units \in Nat
      BY DEF UsageEvents, LoggedCharges
    <3>2. QED
      BY <2>6, <3>1, EventsMeasured
  <2>9. PICK f : Sums(f, events) /\ Units(events) = f[Len(events)]
    BY <2>8, UnitsSum
  <2>10. Units(tail) = f[d + Len(tail)] - f[d]
    <3>1. d \in Nat /\ d + Len(tail) <= Len(events)
      BY <1>2, <2>6
    <3>2. QED
      BY <2>7, <2>8, <2>9, <3>1, UnitsOfStretch
  <2>11. f[d] \in Nat /\ f[Len(events)] \in Nat
    <3>1. Len(tail) \in Nat
      BY <2>6
    <3>2. d \in 0..Len(events) /\ Len(events) \in 0..Len(events)
      BY <1>2, <2>6, <3>1
    <3>3. QED
      BY <2>9, <3>2 DEF Sums
  <2>12. Units(tail) <= rule.limit
    <3>1. Units(tail) = Units(events) - f[d]
      BY <2>6, <2>9, <2>10
    <3>2. Units(events) \in Nat
      BY <2>9, <2>11
    <3>3. QED
      BY <2>1, <2>11, <3>1, <3>2
  <2>13. QED
    BY <1>8, <2>12 DEF tail
<1>9. QED
  BY <1>7, <1>8

\* What holds of one rule's bucket and log at time t.
KeyInv(b, entries, rule, t) ==
  /\ b \in Buckets
  /\ entries \in Seq(LoggedCharges)
  /\ b.used = Units(b.events)
  /\ Recorded(b.events, entries, rule.window, t)
  /\ Within(entries, rule)

\* The inductive invariant of the limiter: every bucket is in step with its log, and
\* no caller at the lock holds a time older than MaxLag.
LimiterInv ==
  /\ LimiterTypeOK
  /\ \A k \in Keys : KeyInv(buckets[k], log[k], rules[k], clock)
  /\ \A c \in Callers : wait[c] = "acquire" => clock <= now[c] + MaxLag

\* A bucket is blocked at least as long as any ban of its rule lasts.
BanInv == \A k \in Keys : standing[k] <= buckets[k].blockedUntil

\* A new or replaced rule starts with a bucket and a log that are in step.
LEMMA KeyFresh ==
  ASSUME NEW rule, NEW t
  PROVE  KeyInv(EmptyBucket, <<>>, rule, t)
<1> DEFINE b == EmptyBucket
<1>1. b.events = <<>> /\ b.used = 0 /\ b \in Buckets
  BY DEF EmptyBucket, Buckets
<1>2. Within(<<>>, rule)
  BY DEF Within
<1> HIDE DEF b
<1>3. b.used = Units(b.events)
  BY <1>1, UnitsOfNone
<1>4. Recorded(b.events, <<>>, rule.window, t)
  BY <1>1, RecordedEmpty
<1>5. QED
  BY <1>1, <1>2, <1>3, <1>4 DEF KeyInv, b

\* bucketFor at a time that is not in the future keeps them in step.
LEMMA KeyPruned ==
  ASSUME NEW b, NEW entries, NEW rule, rule.window \in Nat, NEW t \in Nat,
         KeyInv(b, entries, rule, t), NEW u \in Nat, u <= t
  PROVE  /\ KeyInv(BucketFor(b, rule, u), entries, rule, t)
         /\ BucketFor(b, rule, u).blockedUntil = b.blockedUntil
<1> USE DEF KeyInv
<1> DEFINE p == BucketFor(b, rule, u)
<1>1. PICK n \in 0..Len(b.events) :
        /\ p \in Buckets
        /\ p.events = SubSeq(b.events, n + 1, Len(b.events))
        /\ p.used = Units(p.events)
        /\ p.blockedUntil = b.blockedUntil
        /\ \A i \in 1..n : b.events[i].at + rule.window <= u
  BY Pruning
<1> HIDE DEF p
<1>2. b.events \in Seq(UsageEvents) /\ \A i \in 1..n : b.events[i].at \in Nat
  <2>1. b.events \in Seq(UsageEvents)
    BY DEF Buckets
  <2>2. \A i \in 1..n : b.events[i] \in UsageEvents
    BY <2>1
  <2>3. QED
    BY <2>1, <2>2 DEF UsageEvents
<1>3. \A i \in 1..n : b.events[i].at + rule.window <= t
  BY <1>1, <1>2
<1>4. Recorded(p.events, entries, rule.window, t)
  BY <1>1, <1>2, <1>3, RecordedPruned
<1>5. QED
  BY <1>1, <1>4 DEF p

\* A charge keeps them in step, and the windows within the limit, if a charge that
\* is granted finds room.
LEMMA KeyCharged ==
  ASSUME NEW b, NEW entries, NEW rule, rule.window \in Nat, rule.limit \in Nat,
         NEW t \in Nat, KeyInv(b, entries, rule, t),
         NEW at \in Nat, t <= at + MaxLag, NEW units \in Nat \ {0},
         NEW granted \in BOOLEAN, granted => b.used + units <= rule.limit
  PROVE  /\ KeyInv(ChargeBucket(b, at, units),
                   Append(entries, [at |-> at, units |-> units, clock |-> t, granted |-> granted]),
                   rule, t)
         /\ ChargeBucket(b, at, units).blockedUntil = b.blockedUntil
<1> USE DEF KeyInv
<1> DEFINE e == [at |-> at, units |-> units]
           l == [at |-> at, units |-> units, clock |-> t, granted |-> granted]
           c == ChargeBucket(b, at, units)
<1>1. e \in UsageEvents /\ l \in LoggedCharges /\ l.at = e.at /\ l.units = e.units
      /\ l.at = at /\ l.clock = t /\ l.granted = granted
  BY DEF UsageEvents, LoggedCharges
<1>2. c \in Buckets /\ c.events = Append(b.events, e) /\ c.used = b.used + units
      /\ c.used = Units(c.events) /\ c.blockedUntil = b.blockedUntil
  BY Charging
<1> HIDE DEF e, l, c
<1>3. b.events \in Seq(UsageEvents) /\ c.events \in Seq(UsageEvents)
  BY <1>2 DEF Buckets
<1>4. Recorded(c.events, Append(entries, l), rule.window, t)
  BY <1>1, <1>2, <1>3, RecordedCharged
<1>5. l.granted => Units(c.events) <= rule.limit
  BY <1>1, <1>2
<1>6. Within(Append(entries, l), rule)
  BY <1>1, <1>3, <1>4, <1>5, WithinCharged
<1>7. Append(entries, l) \in Seq(LoggedCharges)
  BY <1>1
<1>8. QED
  BY <1>2, <1>4, <1>6, <1>7 DEF l, c

\* BlockFor does not touch the events, and never shortens a block.
LEMMA KeyBlocked ==
  ASSUME NEW b, NEW entries, NEW rule, NEW t, KeyInv(b, entries, rule, t),
         NEW until \in Nat
  PROVE  /\ KeyInv(Block(b, until), entries, rule, t)
         /\ Block(b, until).blockedUntil >= until
         /\ Block(b, until).blockedUntil >= b.blockedUntil
<1> DEFINE m == Max({b.blockedUntil, until})
           p == Block(b, until)
<1>1. b \in Buckets /\ b.blockedUntil \in Nat
  BY DEF KeyInv, Buckets
<1>2. m \in Nat /\ m >= until /\ m >= b.blockedUntil
  BY <1>1, MaxOfTwo
<1>3. p = [b EXCEPT !.blockedUntil = m]
  BY DEF Block
<1> HIDE DEF m, p
<1>4. p \in Buckets /\ p.events = b.events /\ p.used = b.used /\ p.blockedUntil = m
  BY <1>1, <1>2, <1>3 DEF Buckets
<1>5. QED
  BY <1>2, <1>4 DEF KeyInv, p

\* Time passes.
LEMMA KeyLater ==
  ASSUME NEW b, NEW entries, NEW rule, rule.window \in Nat,
         NEW t \in Nat, NEW u \in Nat, t <= u, KeyInv(b, entries, rule, t)
  PROVE  KeyInv(b, entries, rule, u)
<1>1. b.events \in Seq(UsageEvents)
  BY DEF KeyInv, Buckets
<1>2. QED
  BY <1>1, RecordedLater DEF KeyInv
-----------------------------------------------------------------------------
(* The steps of the limiter. *)

\* A rule, or the absence of one, has a limit and a window.
LEMMA RuleTypes ==
  ASSUME NEW r \in Rules \cup {NoRule}
  PROVE  r.limit \in Nat /\ r.window \in Nat
  BY LimiterAssumption DEF NoRule

\* The buckets after bucketFor ran for some keys at a caller's time.
LEMMA PrunedKeys ==
  ASSUME LimiterInv, NEW c \in Callers, NEW ks
  PROVE  /\ DOMAIN Pruned(c, ks) = Keys
         /\ \A k \in Keys : /\ KeyInv(Pruned(c, ks)[k], log[k], rules[k], clock)
                            /\ Pruned(c, ks)[k].blockedUntil = buckets[k].blockedUntil
<1>1. now[c] \in Nat /\ now[c] <= clock /\ clock \in Nat
  BY LimiterAssumption DEF LimiterInv, LimiterTypeOK
<1>2. \A k \in Keys : /\ KeyInv(BucketFor(buckets[k], rules[k], now[c]), log[k], rules[k], clock)
                      /\ BucketFor(buckets[k], rules[k], now[c]).blockedUntil
                           = buckets[k].blockedUntil
  <2> TAKE k \in Keys
  <2>1. rules[k].window \in Nat
    BY RuleTypes DEF LimiterInv, LimiterTypeOK
  <2>2. KeyInv(buckets[k], log[k], rules[k], clock)
    BY DEF LimiterInv
  <2>3. QED
    BY <1>1, <2>1, <2>2, KeyPruned
<1>3. QED
  BY <1>2 DEF Pruned, LimiterInv

\* What a caller that is granted its charges finds: room on every rule, and no ban.
LEMMA GrantFinds ==
  ASSUME LimiterInv, NEW c \in Callers, AcquireGrants(c), NEW k \in DOMAIN charges[c]
  PROVE  LET b == Pruned(c, DOMAIN charges[c])[k]
         IN /\ k \in Keys /\ charges[c][k] \in Nat \ {0}
            /\ b.used + charges[c][k] <= rules[k].limit
            /\ b.blockedUntil <= now[c]
<1> DEFINE b == Pruned(c, DOMAIN charges[c])[k]
<1>1. charges[c] \in ChargeSets
  BY DEF LimiterInv, LimiterTypeOK
<1>2. k \in Keys /\ charges[c][k] \in Nat \ {0}
  BY <1>1, LimiterAssumption
<1>3. KeyInv(b, log[k], rules[k], clock)
  BY <1>2, PrunedKeys
<1>4. b \in Buckets /\ b.used = Units(b.events)
  BY <1>3 DEF KeyInv
<1>5. ~Refused(c, k)
  BY <1>1, <1>2, LimiterAssumption DEF AcquireGrants, Visited
<1>6. Blocks(c, k, b) = 0
  BY DEF AcquireGrants, ChargeAll
<1>7. rules[k] \in Rules
  BY <1>2, <1>5 DEF Refused, LimiterInv, LimiterTypeOK
<1>8. rules[k].limit \in Nat /\ rules[k].window \in Nat \ {0}
  BY <1>7, LimiterAssumption
<1>9. now[c] \in Nat
  BY LimiterAssumption DEF LimiterInv, LimiterTypeOK
<1>10. charges[c][k] <= rules[k].limit
  BY <1>2, <1>5, <1>8 DEF Refused
<1> HIDE DEF b
<1>11. QED
  BY <1>2, <1>4, <1>6, <1>8, <1>9, <1>10, RoomAtGrant DEF b

\* The caller that tryAcquire sends away or to sleep leaves the buckets pruned.
LEMMA PrunedStep ==
  ASSUME LimiterInv, NEW c \in Callers, NEW ks, buckets' = Pruned(c, ks),
         UNCHANGED <<clock, rules, log>>
  PROVE  /\ buckets' \in [Keys -> Buckets]
         /\ \A k \in Keys : KeyInv(buckets'[k], log'[k], rules'[k], clock')
<1>1. \A k \in Keys : KeyInv(Pruned(c, ks)[k], log[k], rules[k], clock)
  BY PrunedKeys
<1>2. \A k \in Keys : Pruned(c, ks)[k] \in Buckets
  BY <1>1 DEF KeyInv
<1>3. Pruned(c, ks) = [k \in Keys |-> Pruned(c, ks)[k]]
  BY DEF Pruned
<1>4. QED
  BY <1>1, <1>2, <1>3

\* How long a caller is told to wait is a time.
LEMMA BlocksType ==
  ASSUME LimiterInv, NEW c \in Callers, NEW k \in DOMAIN charges[c], NEW b \in Buckets
  PROVE  k \in Keys /\ Blocks(c, k, b) \in Nat
<1> DEFINE blocked == IF b.blockedUntil > now[c] THEN b.blockedUntil ELSE 0
           excess == b.used + charges[c][k] - rules[k].limit
           enough == {i \in DOMAIN b.events : Units(SubSeq(b.events, 1, i)) >= excess}
           expires == EventExpiration(b.events, excess, rules[k].window)
           full == IF excess > 0 THEN expires ELSE 0
<1>1. b.events \in Seq(UsageEvents) /\ b.blockedUntil \in Nat
  BY DEF Buckets
<1>2. charges[c] \in ChargeSets
  BY DEF LimiterInv, LimiterTypeOK
<1>3. k \in Keys
  BY <1>2, LimiterAssumption
<1>4. rules[k].window \in Nat
  BY <1>3, RuleTypes DEF LimiterInv, LimiterTypeOK
<1>5. enough \subseteq 1..Len(b.events)
  BY <1>1
<1>6. \A i \in 1..Len(b.events) : b.events[i].at \in Nat
  <2>1. \A i \in 1..Len(b.events) : b.events[i] \in UsageEvents
    BY <1>1
  <2>2. QED
    BY <2>1 DEF UsageEvents
<1>7. expires = IF enough = {} THEN 0 ELSE b.events[Min(enough)].at + rules[k].window
  BY DEF EventExpiration
<1> HIDE DEF enough, excess
<1>8. expires \in Nat
  <2>1. CASE enough = {}
    BY <1>7, <2>1
  <2>2. CASE enough # {}
    <3>1. enough \subseteq Nat
      BY <1>5
    <3>2. Min(enough) \in enough
      BY <2>2, <3>1, MinIsLeast
    <3>3. b.events[Min(enough)].at \in Nat
      BY <1>5, <1>6, <3>2
    <3> HIDE DEF expires
    <3>4. expires = b.events[Min(enough)].at + rules[k].window
      BY <1>7, <2>2
    <3>5. QED
      BY <1>4, <3>3, <3>4
  <2>3. QED
    BY <2>1, <2>2
<1> HIDE DEF expires
<1>9. blocked \in Nat /\ full \in Nat
  BY <1>1, <1>8
<1>10. Blocks(c, k, b) = Max({blocked, full})
  BY DEF Blocks, excess, expires
<1> HIDE DEF blocked, full
<1>11. QED
  BY <1>3, <1>9, <1>10, MaxOfTwo

\* The time tryAcquire returns is the longest wait of one of the rules, and of none less.
LEMMA UntilIsLongest ==
  ASSUME LimiterInv, NEW c \in Callers
  PROVE  LET ks == DOMAIN charges[c]
             until == Max({Blocks(c, k, Pruned(c, ks)[k]) : k \in ks})
         IN /\ until \in Nat
            /\ \A k \in ks : Blocks(c, k, Pruned(c, ks)[k]) <= until
            /\ \E k \in ks : Blocks(c, k, Pruned(c, ks)[k]) = until
<1> DEFINE ks == DOMAIN charges[c]
           S == {Blocks(c, k, Pruned(c, ks)[k]) : k \in ks}
<1>1. ks # {} /\ IsFiniteSet(ks) /\ ks \subseteq Keys
  BY LimiterAssumption DEF LimiterInv, LimiterTypeOK
<1>2. \A k \in ks : Blocks(c, k, Pruned(c, ks)[k]) \in Nat
  <2> TAKE k \in ks
  <2>1. KeyInv(Pruned(c, ks)[k], log[k], rules[k], clock)
    BY <1>1, PrunedKeys
  <2>2. Pruned(c, ks)[k] \in Buckets
    BY <2>1 DEF KeyInv
  <2>3. QED
    BY <2>2, BlocksType
<1>3. S \subseteq Nat /\ S # {}
  BY <1>1, <1>2
<1>4. IsFiniteSet(S)
  <2>1. PICK s \in Seq(ks) : \A k \in ks : \E n \in 1..Len(s) : s[n] = k
    BY <1>1 DEF IsFiniteSet
  <2> DEFINE t == [n \in 1..Len(s) |-> Blocks(c, s[n], Pruned(c, ks)[s[n]])]
  <2>2. Len(s) \in Nat /\ \A n \in 1..Len(s) : s[n] \in ks
    OBVIOUS
  <2>3. \A n \in 1..Len(s) : t[n] \in S
    BY <2>2
  <2>4. t \in Seq(S) /\ Len(t) = Len(s)
    <3> HIDE DEF S
    <3>1. QED
      BY <2>2, <2>3
  <2>5. \A x \in S : \E n \in 1..Len(s) : t[n] = x
    BY <2>1
  <2> HIDE DEF S, t
  <2>6. QED
    BY <2>4, <2>5 DEF IsFiniteSet
<1>5. \A k \in ks : Blocks(c, k, Pruned(c, ks)[k]) \in S
  OBVIOUS
<1>6. \A x \in S : \E k \in ks : Blocks(c, k, Pruned(c, ks)[k]) = x
  OBVIOUS
<1> HIDE DEF S
<1>7. Max(S) \in S /\ \A y \in S : Max(S) >= y
  BY <1>3, <1>4, MaxIsGreatest
<1>8. /\ Max(S) \in Nat
      /\ \A k \in ks : Blocks(c, k, Pruned(c, ks)[k]) <= Max(S)
      /\ \E k \in ks : Blocks(c, k, Pruned(c, ks)[k]) = Max(S)
  BY <1>2, <1>3, <1>5, <1>6, <1>7
<1>9. QED
  BY <1>8 DEF S

\* Every step keeps the inductive invariant.
LEMMA LimiterStep == LimiterInv /\ [LimiterNext]_limiterVars => LimiterInv'
<1> SUFFICES ASSUME LimiterInv, [LimiterNext]_limiterVars
             PROVE  LimiterInv'
  OBVIOUS
<1> USE DEF backendVars, callerVars, historyVars
<1>1. /\ clock \in 1..MaxClock /\ clock \in Nat /\ MaxClock \in Nat /\ MaxLag \in Nat
      /\ rules \in [Keys -> Rules \cup {NoRule}]
      /\ buckets \in [Keys -> Buckets]
      /\ wait \in [Callers -> WaitPoints]
      /\ charges \in [Callers -> ChargeSets]
      /\ now \in [Callers -> 0..clock]
      /\ waitUntil \in [Callers -> Nat]
      /\ log \in [Keys -> Seq(LoggedCharges)]
      /\ banned \in [Keys -> Nat] /\ standing \in [Keys -> Nat]
      /\ admin \in Nat
  BY LimiterAssumption DEF LimiterInv, LimiterTypeOK, Buckets
<1>2. \A k \in Keys : KeyInv(buckets[k], log[k], rules[k], clock)
  BY DEF LimiterInv
<1>3. \A c \in Callers : wait[c] = "acquire" => clock <= now[c] + MaxLag
  BY DEF LimiterInv
<1>4. \A k \in Keys : rules[k].limit \in Nat /\ rules[k].window \in Nat
  BY <1>1, RuleTypes
<1>5. ASSUME NEW c \in Callers, CallWait(c) \/ TimerFires(c) \/ WaitCanceled(c)
      PROVE  LimiterInv'
  <2>1. UNCHANGED <<clock, rules, buckets, charges, now, waitUntil, log, banned, standing, admin>>
        /\ \E w \in WaitPoints \ {"acquire"} : wait' = [wait EXCEPT ![c] = w]
    BY <1>5 DEF CallWait, TimerFires, WaitCanceled, WaitPoints
  <2>2. LimiterTypeOK'
    BY <1>1, <2>1 DEF LimiterTypeOK, Buckets
  <2>3. \A d \in Callers : wait'[d] = "acquire" => clock' <= now'[d] + MaxLag
    BY <1>1, <1>3, <2>1
  <2>4. QED
    BY <1>2, <2>1, <2>2, <2>3 DEF LimiterInv
<1>6. ASSUME NEW c \in Callers, ReadClock(c)
      PROVE  LimiterInv'
  <2>1. LimiterTypeOK'
    BY <1>1, <1>6 DEF ReadClock, LimiterTypeOK, Buckets, WaitPoints
  <2>2. \A d \in Callers : wait'[d] = "acquire" => clock' <= now'[d] + MaxLag
    BY <1>1, <1>3, <1>6 DEF ReadClock
  <2>3. \A k \in Keys : KeyInv(buckets'[k], log'[k], rules'[k], clock')
    BY <1>2, <1>6 DEF ReadClock
  <2>4. QED
    BY <2>1, <2>2, <2>3 DEF LimiterInv
<1>7. ASSUME NEW c \in Callers, AcquireFails(c)
      PROVE  LimiterInv'
  <2>1. UNCHANGED <<clock, rules, charges, now, waitUntil, log, banned, standing, admin>>
        /\ wait' = [wait EXCEPT ![c] = "failed"]
        /\ buckets' = Pruned(c, Visited(c))
    BY <1>7 DEF AcquireFails
  <2>2. /\ buckets' \in [Keys -> Buckets]
        /\ \A k \in Keys : KeyInv(buckets'[k], log'[k], rules'[k], clock')
    BY <2>1, PrunedStep
  <2>3. LimiterTypeOK'
    BY <1>1, <2>1, <2>2 DEF LimiterTypeOK, Buckets, WaitPoints
  <2>4. \A d \in Callers : wait'[d] = "acquire" => clock' <= now'[d] + MaxLag
    BY <1>1, <1>3, <2>1
  <2>5. QED
    BY <2>2, <2>3, <2>4 DEF LimiterInv
<1>8. ASSUME NEW c \in Callers, AcquireWaits(c)
      PROVE  LimiterInv'
  <2> DEFINE ks == DOMAIN charges[c]
             until == Max({Blocks(c, k, Pruned(c, ks)[k]) : k \in ks})
  <2>1. /\ UNCHANGED <<clock, rules, charges, now, log, banned, standing, admin>>
        /\ wait' = [wait EXCEPT ![c] = IF until <= clock THEN "clock" ELSE "sleep"]
        /\ waitUntil' = [waitUntil EXCEPT ![c] = until]
        /\ buckets' = Pruned(c, ks)
    BY <1>8 DEF AcquireWaits
  <2>2. until \in Nat
    BY UntilIsLongest
  <2> HIDE DEF until, ks
  <2>3. /\ buckets' \in [Keys -> Buckets]
        /\ \A k \in Keys : KeyInv(buckets'[k], log'[k], rules'[k], clock')
    BY <2>1, PrunedStep
  <2>4. wait' \in [Callers -> WaitPoints] /\ waitUntil' \in [Callers -> Nat]
    BY <1>1, <2>1, <2>2 DEF WaitPoints
  <2>5. LimiterTypeOK'
    BY <1>1, <2>1, <2>3, <2>4 DEF LimiterTypeOK, Buckets
  <2>6. \A d \in Callers : wait'[d] = "acquire" => clock' <= now'[d] + MaxLag
    BY <1>1, <1>3, <2>1
  <2>7. QED
    BY <2>3, <2>5, <2>6 DEF LimiterInv
<1>9. ASSUME NEW c \in Callers, AcquireGrants(c)
       PROVE  LimiterInv'
  <2> DEFINE ks == DOMAIN charges[c]
             pruned == Pruned(c, ks)
  <2>1. /\ UNCHANGED <<clock, rules, charges, now, waitUntil, banned, standing, admin>>
        /\ wait[c] = "acquire"
        /\ wait' = [wait EXCEPT ![c] = "granted"]
        /\ buckets' = [k \in Keys |-> IF k \in ks
                                      THEN ChargeBucket(pruned[k], now[c], charges[c][k])
                                      ELSE pruned[k]]
        /\ log' = [k \in Keys |-> IF k \in ks
                                  THEN Append(log[k], Logged(now[c], charges[c][k], TRUE))
                                  ELSE log[k]]
    BY <1>9 DEF AcquireGrants, ChargeAll
  <2>2. \A k \in ks : /\ charges[c][k] \in Nat \ {0}
                      /\ pruned[k].used + charges[c][k] <= rules[k].limit
    BY <1>9, GrantFinds
  <2>3. \A k \in Keys : KeyInv(pruned[k], log[k], rules[k], clock)
    BY PrunedKeys
  <2>4. now[c] \in Nat /\ clock <= now[c] + MaxLag
    BY <1>1, <1>3, <2>1
  <2> HIDE DEF ks, pruned
  <2>5. \A k \in Keys : KeyInv(buckets'[k], log'[k], rules'[k], clock')
    <3> TAKE k \in Keys
    <3>1. CASE k \in ks
      <4>1. KeyInv(ChargeBucket(pruned[k], now[c], charges[c][k]),
                   Append(log[k], Logged(now[c], charges[c][k], TRUE)), rules[k], clock)
        BY <1>1, <1>4, <2>2, <2>3, <2>4, <3>1, KeyCharged DEF Logged
      <4>2. QED
        BY <2>1, <3>1, <4>1
    <3>2. CASE k \notin ks
      BY <2>1, <2>3, <3>2
    <3>3. QED
      BY <3>1, <3>2
  <2>6. buckets' \in [Keys -> Buckets] /\ log' \in [Keys -> Seq(LoggedCharges)]
    <3>1. \A k \in Keys : buckets'[k] \in Buckets /\ log'[k] \in Seq(LoggedCharges)
      BY <2>5 DEF KeyInv
    <3>2. DOMAIN buckets' = Keys /\ DOMAIN log' = Keys
          /\ buckets' = [k \in Keys |-> buckets'[k]] /\ log' = [k \in Keys |-> log'[k]]
      BY <2>1
    <3>3. QED
      BY <3>1, <3>2
  <2>7. LimiterTypeOK'
    BY <1>1, <2>1, <2>6 DEF LimiterTypeOK, Buckets, WaitPoints
  <2>8. \A d \in Callers : wait'[d] = "acquire" => clock' <= now'[d] + MaxLag
    BY <1>1, <1>3, <2>1
  <2>9. QED
    BY <2>5, <2>7, <2>8 DEF LimiterInv
<1>10. ASSUME NEW k \in Keys, Snapshot(k)
       PROVE  LimiterInv'
  <2> DEFINE p == BucketFor(buckets[k], rules[k], clock)
  <2>1. UNCHANGED <<clock, rules, wait, charges, now, waitUntil, log, banned, standing, admin>>
        /\ buckets' = [buckets EXCEPT ![k] = p]
    BY <1>10 DEF Snapshot
  <2>2. KeyInv(p, log[k], rules[k], clock)
    BY <1>1, <1>2, <1>4, KeyPruned
  <2>3. p \in Buckets
    BY <2>2 DEF KeyInv
  <2> HIDE DEF p
  <2>4. \A j \in Keys : KeyInv(buckets'[j], log'[j], rules'[j], clock')
    BY <1>1, <1>2, <2>1, <2>2
  <2>5. buckets' \in [Keys -> Buckets]
    BY <1>1, <2>1, <2>3
  <2>6. LimiterTypeOK'
    BY <1>1, <2>1, <2>5 DEF LimiterTypeOK, Buckets
  <2>7. QED
    BY <1>3, <2>1, <2>4, <2>6 DEF LimiterInv
<1>11. ASSUME NEW k \in Keys, NEW r \in Rules, SetRule(k, r)
       PROVE  LimiterInv'
  <2>1. UNCHANGED <<clock, wait, charges, now, waitUntil, banned>>
        /\ rules' = [rules EXCEPT ![k] = r] /\ admin' = admin + 1
    BY <1>11 DEF SetRule, Admin
  <2>2. CASE rules[k] # r
    <3>1. buckets' = [buckets EXCEPT ![k] = EmptyBucket] /\ log' = [log EXCEPT ![k] = <<>>]
          /\ standing' = [standing EXCEPT ![k] = 0]
      BY <1>11, <2>2 DEF SetRule
    <3>2. KeyInv(EmptyBucket, <<>>, r, clock)
      BY KeyFresh
    <3>3. EmptyBucket \in Buckets
      BY <3>2 DEF KeyInv
    <3>4. \A j \in Keys : KeyInv(buckets'[j], log'[j], rules'[j], clock')
      BY <1>1, <1>2, <2>1, <3>1, <3>2
    <3>5. buckets' \in [Keys -> Buckets] /\ log' \in [Keys -> Seq(LoggedCharges)]
          /\ rules' \in [Keys -> Rules \cup {NoRule}]
      BY <1>1, <2>1, <3>1, <3>3
    <3>6. LimiterTypeOK'
      BY <1>1, <2>1, <3>1, <3>5 DEF LimiterTypeOK, Buckets
    <3>7. QED
      BY <1>3, <2>1, <3>4, <3>6 DEF LimiterInv
  <2>3. CASE rules[k] = r
    <3>1. UNCHANGED <<buckets, log, standing, rules>>
      BY <1>1, <1>11, <2>1, <2>3 DEF SetRule
    <3>2. LimiterTypeOK'
      BY <1>1, <2>1, <3>1 DEF LimiterTypeOK, Buckets
    <3>3. QED
      BY <1>2, <1>3, <2>1, <3>1, <3>2 DEF LimiterInv
  <2>4. QED
    BY <2>2, <2>3
<1>12. ASSUME NEW k \in Keys, NEW used \in Observations, ObserveUsed(k, used)
       PROVE  LimiterInv'
  <2> DEFINE p == BucketFor(buckets[k], rules[k], clock)
             l == Logged(clock, used - p.used, FALSE)
  <2>1. /\ UNCHANGED <<clock, rules, wait, charges, now, waitUntil, banned, standing>>
        /\ admin' = admin + 1
        /\ buckets' = [buckets EXCEPT ![k] = Raise(p, used, clock)]
        /\ log' = IF used > p.used THEN [log EXCEPT ![k] = Append(@, l)] ELSE log
    BY <1>12 DEF ObserveUsed, Admin
  <2>2. KeyInv(p, log[k], rules[k], clock)
    BY <1>1, <1>2, <1>4, KeyPruned
  <2>3. p.used \in Nat /\ used \in Nat
    BY <2>2, LimiterAssumption DEF KeyInv, Buckets
  <2> DEFINE b == Raise(p, used, clock)
             e == IF used > p.used THEN Append(log[k], l) ELSE log[k]
  <2>4. KeyInv(b, e, rules[k], clock)
    <3>1. CASE used > p.used
      <4>1. used - p.used \in Nat \ {0} /\ clock <= clock + MaxLag
        BY <1>1, <2>3, <3>1
      <4>2. KeyInv(ChargeBucket(p, clock, used - p.used), Append(log[k], l), rules[k], clock)
        <5> HIDE DEF p
        <5>1. QED
          BY <1>1, <1>4, <2>2, <4>1, KeyCharged DEF Logged
      <4>3. QED
        BY <3>1, <4>2 DEF Raise
    <3>2. CASE ~(used > p.used)
      BY <2>2, <3>2 DEF Raise
    <3>3. QED
      BY <3>1, <3>2
  <2>5. b \in Buckets /\ e \in Seq(LoggedCharges)
    BY <2>4 DEF KeyInv
  <2>6. log' = [log EXCEPT ![k] = e]
    BY <1>1, <2>1
  <2> HIDE DEF p, l, b, e
  <2>7. \A j \in Keys : KeyInv(buckets'[j], log'[j], rules'[j], clock')
    BY <1>1, <1>2, <2>1, <2>4, <2>6 DEF b
  <2>8. buckets' \in [Keys -> Buckets] /\ log' \in [Keys -> Seq(LoggedCharges)]
    BY <1>1, <2>1, <2>5, <2>6 DEF b
  <2>9. LimiterTypeOK'
    BY <1>1, <2>1, <2>8 DEF LimiterTypeOK, Buckets
  <2>10. QED
    BY <1>3, <2>1, <2>7, <2>9 DEF LimiterInv
<1>13. ASSUME NEW ks \in SUBSET Keys, NEW d \in Durations, BlockFor(ks, d)
       PROVE  LimiterInv'
  <2>1. /\ UNCHANGED <<clock, rules, wait, charges, now, waitUntil, log>>
        /\ admin' = admin + 1
        /\ buckets' = [k \in Keys |-> IF k \in ks THEN Block(buckets[k], clock + d) ELSE buckets[k]]
        /\ banned' = [k \in Keys |-> IF k \in ks THEN Max({banned[k], clock + d}) ELSE banned[k]]
        /\ standing' = [k \in Keys |-> IF k \in ks THEN Max({standing[k], clock + d}) ELSE standing[k]]
    BY <1>13 DEF BlockFor, Admin
  <2>2. clock + d \in Nat
    BY <1>1, LimiterAssumption
  <2>3. \A k \in Keys : KeyInv(Block(buckets[k], clock + d), log[k], rules[k], clock)
    BY <1>2, <2>2, KeyBlocked
  <2>4. \A k \in Keys : KeyInv(buckets'[k], log'[k], rules'[k], clock')
    BY <1>2, <2>1, <2>3
  <2>5. buckets' \in [Keys -> Buckets]
    <3>1. \A k \in Keys : buckets'[k] \in Buckets
      BY <2>4 DEF KeyInv
    <3>2. buckets' = [k \in Keys |-> buckets'[k]]
      BY <2>1
    <3>3. QED
      BY <3>1, <3>2
  <2>6. banned' \in [Keys -> Nat] /\ standing' \in [Keys -> Nat]
    <3>1. \A k \in Keys : Max({banned[k], clock + d}) \in Nat /\ Max({standing[k], clock + d}) \in Nat
      <4> TAKE k \in Keys
      <4>1. banned[k] \in Nat /\ standing[k] \in Nat
        BY <1>1
      <4>2. \A n \in Nat : Max({n, clock + d}) \in {n, clock + d}
        BY <2>2, MaxOfTwo
      <4>3. \A n \in Nat : Max({n, clock + d}) \in Nat
        BY <2>2, <4>2
      <4>4. QED
        BY <4>1, <4>3
    <3>2. QED
      BY <1>1, <2>1, <3>1
  <2>7. LimiterTypeOK'
    BY <1>1, <2>1, <2>5, <2>6 DEF LimiterTypeOK, Buckets
  <2>8. QED
    BY <1>3, <2>1, <2>4, <2>7 DEF LimiterInv
<1>14. ASSUME Tick
       PROVE  LimiterInv'
  <2>1. /\ UNCHANGED <<rules, buckets, wait, charges, now, waitUntil, log, banned, standing, admin>>
        /\ clock' = clock + 1 /\ clock < MaxClock
        /\ \A c \in Callers : wait[c] = "acquire" => clock - now[c] < MaxLag
    BY <1>14 DEF Tick
  <2>2. \A k \in Keys : KeyInv(buckets'[k], log'[k], rules'[k], clock')
    <3>1. \A k \in Keys : KeyInv(buckets[k], log[k], rules[k], clock + 1)
      BY <1>1, <1>2, <1>4, KeyLater
    <3>2. QED
      BY <2>1, <3>1
  <2>3. now \in [Callers -> 0..(clock + 1)]
    BY <1>1
  <2>4. LimiterTypeOK'
    BY <1>1, <2>1, <2>3 DEF LimiterTypeOK, Buckets
  <2>5. \A c \in Callers : wait'[c] = "acquire" => clock' <= now'[c] + MaxLag
    BY <1>1, <2>1
  <2>6. QED
    BY <2>2, <2>4, <2>5 DEF LimiterInv
<1>15. ASSUME UNCHANGED limiterVars
       PROVE  LimiterInv'
  <2>1. LimiterTypeOK'
    BY <1>1, <1>15 DEF limiterVars, LimiterTypeOK, Buckets
  <2>2. QED
    BY <1>2, <1>3, <1>15, <2>1 DEF LimiterInv, limiterVars
<1>16. QED
  BY <1>5, <1>6, <1>7, <1>8, <1>9, <1>10, <1>11, <1>12, <1>13, <1>14, <1>15
     DEF LimiterNext, WaitStep, LimiterAdmin, TimeIsUp

\* The limiter's inductive invariant.
THEOREM LimiterInvariant == LimiterSpec => []LimiterInv
<1>1. LimiterInit => LimiterInv
  <2> SUFFICES ASSUME LimiterInit PROVE LimiterInv
    OBVIOUS
  <2>1. \A k \in Keys : KeyInv(buckets[k], log[k], rules[k], clock)
    <3>1. \A k \in Keys : buckets[k] = EmptyBucket /\ log[k] = <<>>
      BY DEF LimiterInit
    <3>2. QED
      BY <3>1, KeyFresh
  <2>2. LimiterTypeOK
    BY LimiterAssumption DEF LimiterInit, LimiterTypeOK, EmptyBucket, WaitPoints
  <2>3. \A c \in Callers : wait[c] # "acquire"
    BY DEF LimiterInit
  <2>4. QED
    BY <2>1, <2>2, <2>3 DEF LimiterInv
<1>2. QED
  BY <1>1, LimiterStep, PTL DEF LimiterSpec

\* For any rules, callers, charges, observations and bans: the counter every decision
\* is taken on is the sum of the live events, and no rolling window ends with a grant
\* and holds more than the limit.
THEOREM LimitsAreKept == LimiterSpec => []LimitsHold
<1>1. LimiterInv => LimitsHold
  BY DEF LimiterInv, KeyInv, Within, LimitsHold, UsedIsTheEvents, WindowLimit
<1>2. QED
  BY <1>1, LimiterInvariant, PTL
-----------------------------------------------------------------------------
(* Bans. *)

\* Every step keeps the blocks at least as long as the bans.
LEMMA BanStep ==
  LimiterInv /\ BanInv /\ [LimiterNext]_limiterVars => BanInv'
<1> SUFFICES ASSUME LimiterInv, BanInv, [LimiterNext]_limiterVars
             PROVE  BanInv'
  OBVIOUS
<1> USE DEF backendVars, callerVars, historyVars
<1>1. /\ clock \in Nat /\ MaxLag \in Nat
      /\ rules \in [Keys -> Rules \cup {NoRule}]
      /\ buckets \in [Keys -> Buckets]
      /\ standing \in [Keys -> Nat]
      /\ \A c \in Callers : charges[c] \in ChargeSets /\ now[c] \in Nat
  BY LimiterAssumption DEF LimiterInv, LimiterTypeOK, Buckets
<1>2. \A k \in Keys : /\ KeyInv(buckets[k], log[k], rules[k], clock)
                      /\ rules[k].window \in Nat
  BY <1>1, RuleTypes DEF LimiterInv
<1>3. ASSUME UNCHANGED standing,
             \A k \in Keys : buckets'[k].blockedUntil = buckets[k].blockedUntil
      PROVE  BanInv'
  BY <1>3 DEF BanInv
<1>4. ASSUME NEW c \in Callers,
             CallWait(c) \/ ReadClock(c) \/ TimerFires(c) \/ WaitCanceled(c)
      PROVE  BanInv'
  BY <1>4 DEF CallWait, ReadClock, TimerFires, WaitCanceled, BanInv
<1>5. ASSUME NEW c \in Callers, AcquireFails(c) \/ AcquireWaits(c)
      PROVE  BanInv'
  <2>1. UNCHANGED standing /\ \E ks : buckets' = Pruned(c, ks)
    BY <1>5 DEF AcquireFails, AcquireWaits
  <2>2. \A k \in Keys : buckets'[k].blockedUntil = buckets[k].blockedUntil
    BY <2>1, PrunedKeys
  <2>3. QED
    BY <1>3, <2>1, <2>2
<1>6. ASSUME NEW c \in Callers, AcquireGrants(c)
      PROVE  BanInv'
  <2> DEFINE ks == DOMAIN charges[c]
             pruned == Pruned(c, ks)
  <2>1. /\ UNCHANGED standing
        /\ buckets' = [k \in Keys |-> IF k \in ks
                                      THEN ChargeBucket(pruned[k], now[c], charges[c][k])
                                      ELSE pruned[k]]
    BY <1>6 DEF AcquireGrants, ChargeAll
  <2>2. \A k \in Keys : pruned[k].blockedUntil = buckets[k].blockedUntil
    BY PrunedKeys
  <2>3. \A k \in Keys :
          ChargeBucket(pruned[k], now[c], charges[c][k]).blockedUntil = pruned[k].blockedUntil
    BY DEF ChargeBucket
  <2> HIDE DEF ks, pruned
  <2>4. \A k \in Keys : buckets'[k].blockedUntil = buckets[k].blockedUntil
    BY <2>1, <2>2, <2>3
  <2>5. QED
    BY <1>3, <2>1, <2>4
<1>7. ASSUME NEW k \in Keys, NEW used, ObserveUsed(k, used) \/ Snapshot(k)
      PROVE  BanInv'
  <2> DEFINE p == BucketFor(buckets[k], rules[k], clock)
  <2>1. UNCHANGED standing
        /\ \E b \in {p, Raise(p, used, clock)} : buckets' = [buckets EXCEPT ![k] = b]
    BY <1>7 DEF ObserveUsed, Snapshot
  <2>2. p.blockedUntil = buckets[k].blockedUntil
    BY DEF BucketFor
  <2> HIDE DEF p
  <2>3. Raise(p, used, clock).blockedUntil = p.blockedUntil
    BY DEF Raise, ChargeBucket
  <2>4. \A j \in Keys : buckets'[j].blockedUntil = buckets[j].blockedUntil
    BY <1>1, <2>1, <2>2, <2>3
  <2>5. QED
    BY <1>3, <2>1, <2>4
<1>8. ASSUME NEW k \in Keys, NEW r \in Rules, SetRule(k, r)
      PROVE  BanInv'
  <2>1. CASE rules[k] # r
    <3>1. buckets' = [buckets EXCEPT ![k] = EmptyBucket] /\ standing' = [standing EXCEPT ![k] = 0]
      BY <1>8, <2>1 DEF SetRule
    <3>2. EmptyBucket.blockedUntil = 0
      BY DEF EmptyBucket
    <3>3. QED
      BY <1>1, <3>1, <3>2 DEF BanInv
  <2>2. CASE rules[k] = r
    BY <1>8, <2>2 DEF SetRule, BanInv
  <2>3. QED
    BY <2>1, <2>2
<1>9. ASSUME NEW ks \in SUBSET Keys, NEW d \in Durations, BlockFor(ks, d)
      PROVE  BanInv'
  <2>1. /\ buckets' = [k \in Keys |-> IF k \in ks THEN Block(buckets[k], clock + d) ELSE buckets[k]]
        /\ standing' = [k \in Keys |-> IF k \in ks THEN Max({standing[k], clock + d}) ELSE standing[k]]
    BY <1>9 DEF BlockFor
  <2>2. clock + d \in Nat
    BY <1>1, LimiterAssumption
  <2> SUFFICES ASSUME NEW k \in Keys
               PROVE  standing'[k] <= buckets'[k].blockedUntil
    BY DEF BanInv
  <2>3. standing[k] \in Nat /\ buckets[k] \in Buckets /\ standing[k] <= buckets[k].blockedUntil
    BY <1>1 DEF BanInv
  <2>4. CASE k \in ks
    <3> DEFINE u == Block(buckets[k], clock + d).blockedUntil
    <3>1. u >= clock + d /\ u >= buckets[k].blockedUntil /\ u \in Nat
      <4>1. KeyInv(Block(buckets[k], clock + d), log[k], rules[k], clock)
            /\ u >= clock + d /\ u >= buckets[k].blockedUntil
        BY <1>2, <2>2, KeyBlocked
      <4>2. QED
        BY <4>1 DEF KeyInv, Buckets
    <3>2. Max({standing[k], clock + d}) \in {standing[k], clock + d}
      BY <2>2, <2>3, MaxOfTwo
    <3>3. buckets[k].blockedUntil \in Nat
      BY <2>3 DEF Buckets
    <3>4. buckets'[k].blockedUntil = u /\ standing'[k] = Max({standing[k], clock + d})
      BY <2>1, <2>4
    <3> HIDE DEF u
    <3>5. QED
      BY <2>2, <2>3, <3>1, <3>2, <3>3, <3>4
  <2>5. CASE k \notin ks
    BY <2>1, <2>3, <2>5
  <2>6. QED
    BY <2>4, <2>5
<1>10. ASSUME Tick \/ UNCHANGED limiterVars
       PROVE  BanInv'
  BY <1>10 DEF Tick, limiterVars, BanInv
<1>11. QED
  BY <1>4, <1>5, <1>6, <1>7, <1>8, <1>9, <1>10
     DEF LimiterNext, WaitStep, LimiterAdmin, TimeIsUp

\* No charge is granted while a ban lasts: the caller's time is not after the clock, and
\* nothing blocks the bucket at that time.
THEOREM BansAreHeld == LimiterSpec => BanHolds
<1>1. LimiterInit => BanInv
  BY DEF LimiterInit, BanInv, EmptyBucket
<1>2. LimiterInv /\ BanInv /\ [LimiterNext]_limiterVars
        => [\A k \in NewGrants : clock >= standing[k]]_limiterVars
  <2> SUFFICES ASSUME LimiterInv, BanInv, LimiterNext, NEW k \in NewGrants
               PROVE  clock >= standing[k]
    OBVIOUS
  <2>1. k \in Keys /\ Len(log'[k]) > Len(log[k]) /\ log'[k][Len(log'[k])].granted
    BY DEF NewGrants
  <2>2. /\ log \in [Keys -> Seq(LoggedCharges)] /\ clock \in Nat
        /\ standing \in [Keys -> Nat] /\ \A c \in Callers : now[c] \in 0..clock
    BY LimiterAssumption DEF LimiterInv, LimiterTypeOK
  <2>3. Len(log[k]) \in Nat
    BY <2>1, <2>2
  <2> USE DEF historyVars
  <2>4. ASSUME log' = log PROVE FALSE
    BY <2>1, <2>3, <2>4
  <2>5. ASSUME NEW c \in Callers, AcquireGrants(c)
        PROVE  clock >= standing[k]
    <3>1. log' = [j \in Keys |-> IF j \in DOMAIN charges[c]
                                 THEN Append(log[j], Logged(now[c], charges[c][j], TRUE))
                                 ELSE log[j]]
      BY <2>5 DEF AcquireGrants
    <3>2. k \in DOMAIN charges[c]
      BY <2>1, <2>3, <3>1
    <3>3. Pruned(c, DOMAIN charges[c])[k].blockedUntil <= now[c]
      BY <2>5, <3>2, GrantFinds
    <3>4. Pruned(c, DOMAIN charges[c])[k].blockedUntil = buckets[k].blockedUntil
      BY <2>1, PrunedKeys
    <3>5. standing[k] <= buckets[k].blockedUntil
      BY <2>1 DEF BanInv
    <3>6. buckets[k].blockedUntil \in Nat
      BY <2>1 DEF LimiterInv, LimiterTypeOK
    <3>7. QED
      BY <2>1, <2>2, <3>3, <3>4, <3>5, <3>6
  <2>6. ASSUME NEW j \in Keys, NEW used \in Observations, ObserveUsed(j, used)
        PROVE  FALSE
    <3> DEFINE l == Logged(clock, used - BucketFor(buckets[j], rules[j], clock).used, FALSE)
    <3>1. log' # log => log' = [log EXCEPT ![j] = Append(@, l)]
      BY <2>6 DEF ObserveUsed
    <3>2. l.granted = FALSE
      BY DEF Logged
    <3> HIDE DEF l
    <3>3. log' = [log EXCEPT ![j] = Append(@, l)]
      BY <2>4, <3>1
    <3>4. k = j /\ log'[k] = Append(log[k], l)
      BY <2>1, <2>2, <2>3, <3>3
    <3>5. log'[k][Len(log'[k])] = l
      BY <2>1, <2>2, <3>4
    <3>6. QED
      BY <2>1, <3>2, <3>5
  <2>7. ASSUME NEW j \in Keys, NEW r \in Rules, SetRule(j, r)
        PROVE  FALSE
    <3>1. log' # log => log' = [log EXCEPT ![j] = <<>>]
      BY <2>7 DEF SetRule
    <3>2. QED
      BY <2>1, <2>2, <2>3, <2>4, <3>1
  <2>8. ASSUME \/ \E c \in Callers : \/ CallWait(c) \/ ReadClock(c) \/ TimerFires(c)
                                     \/ WaitCanceled(c) \/ AcquireFails(c) \/ AcquireWaits(c)
               \/ \E j \in Keys : Snapshot(j)
               \/ \E ks \in SUBSET Keys \ {{}}, d \in Durations : BlockFor(ks, d)
               \/ Tick \/ TimeIsUp
        PROVE  FALSE
    BY <2>4, <2>8 DEF CallWait, ReadClock, TimerFires, WaitCanceled, AcquireFails,
       AcquireWaits, Snapshot, BlockFor, Tick, TimeIsUp, limiterVars
  <2>9. QED
    BY <2>5, <2>6, <2>7, <2>8 DEF LimiterNext, WaitStep, LimiterAdmin
<1>3. QED
  BY <1>1, <1>2, BanStep, LimiterInvariant, PTL DEF LimiterSpec, BanHolds
-----------------------------------------------------------------------------
(* Charging several rules at once. *)

\* bucketFor only takes events away at the front.
LEMMA PrunedIsRest ==
  ASSUME NEW b \in Buckets, b.used = Units(b.events),
         NEW rule, rule.window \in Nat, NEW t \in Nat
  PROVE  IsRest(BucketFor(b, rule, t).events, b.events)
<1> DEFINE p == BucketFor(b, rule, t)
<1>1. PICK n \in 0..Len(b.events) :
        /\ p.events = SubSeq(b.events, n + 1, Len(b.events))
        /\ \A i \in 1..n : b.events[i].at + rule.window <= t
  BY Pruning
<1>2. QED
  BY <1>1, Zenon DEF IsRest

\* A charged bucket is never what is left of the bucket before: the new event is live,
\* and so is the first that bucketFor kept, while the last it let go had expired.
LEMMA ChargedIsNotRest ==
  ASSUME NEW b \in Buckets, b.used = Units(b.events),
         NEW rule, rule.window \in Nat \ {0}, NEW t \in Nat, NEW units \in Nat \ {0}
  PROVE  ~IsRest(ChargeBucket(BucketFor(b, rule, t), t, units).events, b.events)
<1> DEFINE p == BucketFor(b, rule, t)
           e == [at |-> t, units |-> units]
           s == b.events
           more == ChargeBucket(p, t, units).events
<1>1. s \in Seq(UsageEvents) /\ Len(s) \in Nat /\ rule.window \in Nat /\ rule.window > 0
  BY DEF Buckets
<1>2. PICK n \in 0..Len(s) :
        /\ p.events = SubSeq(s, n + 1, Len(s))
        /\ \A i \in 1..n : s[i].at + rule.window <= t
        /\ n < Len(s) => s[n + 1].at + rule.window > t
  BY <1>1, Pruning
<1>3. more = Append(SubSeq(s, n + 1, Len(s)), e) /\ e.at = t
  BY <1>2 DEF ChargeBucket
<1>4. \A i \in 1..Len(s) : s[i].at \in Nat
  <2>1. \A i \in 1..Len(s) : s[i] \in UsageEvents
    BY <1>1
  <2>2. QED
    BY <2>1 DEF UsageEvents
<1> HIDE DEF p, e, s, more
<1>5. SUFFICES ASSUME NEW m \in 0..Len(s), more = SubSeq(s, m + 1, Len(s))
               PROVE  FALSE
  BY DEF IsRest, more, s, p
<1>6. SubSeq(s, n + 1, Len(s)) \in Seq(UsageEvents)
      /\ Len(SubSeq(s, n + 1, Len(s))) = Len(s) - n
      /\ (n < Len(s) => SubSeq(s, n + 1, Len(s))[1] = s[n + 1])
  BY <1>1
<1>7. Len(more) = Len(s) - n + 1
      /\ more[1] = IF n < Len(s) THEN s[n + 1] ELSE e
  BY <1>1, <1>3, <1>6
<1>8. Len(more) = Len(s) - m
  BY <1>1, <1>5
<1>9. n \in 1..Len(s) /\ m = n - 1
  BY <1>1, <1>7, <1>8
<1>10. more[1] = s[n]
  BY <1>1, <1>5, <1>9
<1>11. s[n].at + rule.window <= t
  BY <1>2, <1>9
<1>12. CASE n < Len(s)
  <2>1. s[n] = s[n + 1]
    BY <1>7, <1>10, <1>12
  <2>2. s[n].at + rule.window > t
    BY <1>2, <1>12, <2>1
  <2>3. QED
    BY <1>1, <1>4, <1>9, <1>11, <2>2
<1>13. CASE n = Len(s)
  <2>1. s[n].at = t
    BY <1>3, <1>7, <1>9, <1>10, <1>13
  <2>2. QED
    BY <1>1, <1>11, <2>1
<1>14. QED
  BY <1>9, <1>12, <1>13

\* Under the invariant, the buckets tryAcquire leaves behind hold what was left of
\* their events, and the rules it charges do not.
LEMMA PrunedRests ==
  ASSUME LimiterInv, NEW c \in Callers, NEW ks, NEW k \in Keys
  PROVE  IsRest(Pruned(c, ks)[k].events, buckets[k].events)
<1>1. KeyInv(buckets[k], log[k], rules[k], clock)
  BY DEF LimiterInv
<1>2. buckets[k] \in Buckets /\ buckets[k].used = Units(buckets[k].events)
      /\ buckets[k].events \in Seq(UsageEvents)
  BY <1>1 DEF KeyInv, Buckets
<1>3. rules[k].window \in Nat /\ now[c] \in Nat
  BY RuleTypes, LimiterAssumption DEF LimiterInv, LimiterTypeOK
<1>4. CASE k \in ks
  <2>1. Pruned(c, ks)[k] = BucketFor(buckets[k], rules[k], now[c])
    BY <1>4 DEF Pruned
  <2>2. QED
    BY <1>2, <1>3, <2>1, PrunedIsRest
<1>5. CASE k \notin ks
  <2>1. Pruned(c, ks)[k] = buckets[k]
    BY <1>5 DEF Pruned
  <2> DEFINE s == buckets[k].events
  <2>2. 0 \in 0..Len(s) /\ s = SubSeq(s, 0 + 1, Len(s))
    BY <1>2
  <2> HIDE DEF s
  <2>3. IsRest(s, s)
    BY <2>2 DEF IsRest
  <2>4. QED
    BY <2>1, <2>3 DEF s
<1>6. QED
  BY <1>4, <1>5

\* A request on several rules is charged on all of them or on none, whatever other
\* callers and administrators do between its tries.
THEOREM ChargesAllOrNothing == LimiterSpec => AllOrNothing
<1> DEFINE Charged == {k \in Keys : ~IsRest(buckets'[k].events, buckets[k].events)}
<1>1. ASSUME LimiterInv, NEW c \in Callers,
             AcquireFails(c) \/ AcquireWaits(c)
      PROVE  Charged = {} /\ wait'[c] # "granted"
  <2>1. PICK ks : buckets' = Pruned(c, ks)
    BY <1>1 DEF AcquireFails, AcquireWaits
  <2>2. \A k \in Keys : IsRest(buckets'[k].events, buckets[k].events)
    BY <1>1, <2>1, PrunedRests
  <2>3. wait \in [Callers -> WaitPoints]
    BY <1>1 DEF LimiterInv, LimiterTypeOK
  <2>4. wait'[c] # "granted"
    BY <1>1, <2>3 DEF AcquireFails, AcquireWaits
  <2>5. QED
    BY <2>2, <2>4
<1>2. ASSUME LimiterInv, NEW c \in Callers, AcquireGrants(c)
      PROVE  Charged = DOMAIN charges[c] /\ wait'[c] = "granted"
  <2> DEFINE ks == DOMAIN charges[c]
             pruned == Pruned(c, ks)
  <2>1. buckets' = [k \in Keys |-> IF k \in ks
                                   THEN ChargeBucket(pruned[k], now[c], charges[c][k])
                                   ELSE pruned[k]]
    BY <1>2 DEF AcquireGrants, ChargeAll
  <2>2. wait'[c] = "granted"
    BY <1>2 DEF AcquireGrants, LimiterInv, LimiterTypeOK
  <2>3. ASSUME NEW k \in ks
        PROVE  k \in Keys /\ ~IsRest(buckets'[k].events, buckets[k].events)
    <3>1. k \in Keys /\ charges[c][k] \in Nat \ {0}
      BY <1>2, <2>3, GrantFinds
    <3>2. ~Refused(c, k)
      BY <1>2, <2>3, <3>1, LimiterAssumption DEF AcquireGrants, Visited
    <3>3. rules[k].window \in Nat \ {0} /\ now[c] \in Nat
      BY <1>2, <3>1, <3>2, LimiterAssumption DEF Refused, LimiterInv, LimiterTypeOK
    <3>4. buckets[k] \in Buckets /\ buckets[k].used = Units(buckets[k].events)
      BY <1>2, <3>1 DEF LimiterInv, KeyInv
    <3>5. pruned[k] = BucketFor(buckets[k], rules[k], now[c])
      BY <2>3, <3>1 DEF Pruned
    <3> HIDE DEF pruned
    <3>6. buckets'[k] = ChargeBucket(BucketFor(buckets[k], rules[k], now[c]), now[c], charges[c][k])
      BY <2>1, <2>3, <3>1, <3>5
    <3>7. QED
      BY <3>1, <3>3, <3>4, <3>6, ChargedIsNotRest
  <2>4. ASSUME NEW k \in Keys, k \notin ks
        PROVE  IsRest(buckets'[k].events, buckets[k].events)
    <3>1. buckets'[k] = pruned[k]
      BY <2>1, <2>4
    <3>2. QED
      BY <1>2, <3>1, PrunedRests
  <2>5. QED
    BY <2>2, <2>3, <2>4
<1>3. ASSUME LimiterInv, LimiterNext, NEW c \in Callers, wait[c] = "acquire",
             wait'[c] # "acquire"
      PROVE  AcquireFails(c) \/ AcquireWaits(c) \/ AcquireGrants(c)
  <2>1. wait \in [Callers -> WaitPoints]
    BY <1>3 DEF LimiterInv, LimiterTypeOK
  <2>2. \A d \in Callers : CallWait(d) \/ ReadClock(d) \/ TimerFires(d) \/ WaitCanceled(d)
          => wait'[c] = wait[c] \/ wait[c] # "acquire"
    BY <2>1 DEF CallWait, ReadClock, TimerFires, WaitCanceled
  <2>3. \A d \in Callers : AcquireFails(d) \/ AcquireWaits(d) \/ AcquireGrants(d)
          => wait'[c] = wait[c] \/ d = c
    BY <2>1 DEF AcquireFails, AcquireWaits, AcquireGrants
  <2>4. (\/ \E k \in Keys : Snapshot(k)
         \/ LimiterAdmin \/ Tick \/ TimeIsUp) => wait' = wait
    BY DEF Snapshot, LimiterAdmin, SetRule, ObserveUsed, BlockFor, Tick, TimeIsUp,
           callerVars, limiterVars
  <2>5. QED
    BY <1>3, <2>2, <2>3, <2>4 DEF LimiterNext, WaitStep
<1>4. LimiterInv /\ [LimiterNext]_limiterVars
        => [\A c \in Callers : wait[c] = "acquire" /\ wait'[c] # "acquire" =>
              Charged = IF wait'[c] = "granted" THEN DOMAIN charges[c] ELSE {}]_limiterVars
  <2> HIDE DEF Charged
  <2> QED
    BY <1>1, <1>2, <1>3
<1>5. QED
  BY <1>4, LimiterInvariant, PTL DEF LimiterSpec, AllOrNothing
-----------------------------------------------------------------------------
(* Waking up in time. *)

\* Fewer units in every place make a sum that is not larger.
LEMMA UnitsCompare ==
  ASSUME NEW s, Measured(s), NEW t, Measured(t), Len(s) = Len(t),
         \A i \in 1..Len(s) : s[i].units <= t[i].units
  PROVE  Units(s) <= Units(t)
<1>1. PICK f : Sums(f, s) /\ Units(s) = f[Len(s)]
  BY UnitsSum
<1>2. PICK g : Sums(g, t) /\ Units(t) = g[Len(t)]
  BY UnitsSum
<1>3. Len(s) \in Nat /\ \A i \in 1..Len(s) : s[i].units \in Nat /\ t[i].units \in Nat
  BY DEF Measured
<1>4. /\ \A i \in 0..Len(s) : f[i] \in Nat /\ g[i] \in Nat
      /\ f[0] = 0 /\ g[0] = 0
      /\ \A i \in 1..Len(s) : f[i] = f[i - 1] + s[i].units /\ g[i] = g[i - 1] + t[i].units
  BY <1>1, <1>2 DEF Sums
<1> DEFINE T == {n \in 0..Len(s) : ~(f[n] <= g[n])}
<1>5. T \subseteq Nat /\ \A n \in 0..Len(s) : n \in T <=> ~(f[n] <= g[n])
  OBVIOUS
<1> HIDE DEF T
<1>6. T = {}
  <2>1. SUFFICES ASSUME T # {} PROVE FALSE
    OBVIOUS
  <2>2. PICK n \in T : \A m \in T : n <= m
    BY <1>5, <2>1, LeastNumber
  <2>3. n \in 0..Len(s) /\ ~(f[n] <= g[n])
    BY <2>2 DEF T
  <2>4. n # 0
    BY <1>4, <2>3
  <2>5. n \in 1..Len(s) /\ n - 1 \in 0..Len(s) /\ n - 1 \notin T
    BY <1>3, <2>2, <2>3, <2>4
  <2>6. f[n - 1] <= g[n - 1]
    BY <1>5, <2>5
  <2>7. f[n] = f[n - 1] + s[n].units /\ g[n] = g[n - 1] + t[n].units /\ s[n].units <= t[n].units
    BY <1>4, <2>5
  <2>8. f[n - 1] \in Nat /\ g[n - 1] \in Nat /\ s[n].units \in Nat /\ t[n].units \in Nat
    BY <1>3, <1>4, <2>5
  <2>9. QED
    BY <2>3, <2>6, <2>7, <2>8
<1>7. QED
  BY <1>1, <1>2, <1>3, <1>5, <1>6

\* Places without units make no sum.
LEMMA UnitsOfEmpties ==
  ASSUME NEW s, Measured(s), \A i \in 1..Len(s) : s[i].units = 0
  PROVE  Units(s) = 0
<1>1. PICK f : Sums(f, s) /\ Units(s) = f[Len(s)]
  BY UnitsSum
<1>2. Len(s) \in Nat
  BY DEF Measured
<1>3. f[0] = 0 /\ \A i \in 1..Len(s) : f[i] = f[i - 1] + 0
  BY <1>1 DEF Sums
<1>4. \A i \in 0..Len(s) : f[i] \in Nat
  BY <1>1 DEF Sums
<1> DEFINE T == {n \in 0..Len(s) : f[n] # 0}
<1>5. T \subseteq Nat /\ \A n \in 0..Len(s) : n \in T <=> f[n] # 0
  OBVIOUS
<1> HIDE DEF T
<1>6. T = {}
  <2>1. SUFFICES ASSUME T # {} PROVE FALSE
    OBVIOUS
  <2>2. PICK n \in T : \A m \in T : n <= m
    BY <1>5, <2>1, LeastNumber
  <2>3. n \in 0..Len(s) /\ f[n] # 0
    BY <2>2 DEF T
  <2>4. n \in 1..Len(s) /\ n - 1 \in 0..Len(s) /\ n - 1 \notin T
    BY <1>2, <1>3, <2>2, <2>3
  <2>5. QED
    BY <1>3, <1>4, <1>5, <2>3, <2>4
<1>7. QED
  BY <1>1, <1>2, <1>5, <1>6

\* What is left of a sequence without its first n elements.
LEMMA WithoutFirst ==
  ASSUME NEW S, NEW s \in Seq(S), NEW n \in 0..Len(s)
  PROVE  LET u == SubSeq(s, n + 1, Len(s))
         IN u \in Seq(S) /\ Len(u) = Len(s) - n /\ \A i \in 1..(Len(s) - n) : u[i] = s[n + i]
<1>1. Len(s) \in Nat
  OBVIOUS
<1>2. QED
  BY <1>1

\* What a window still holds, when the first n events have left it, and when all later
\* ones are in it.
LEMMA HeldOfSplit ==
  ASSUME NEW s \in Seq(UsageEvents), NEW window \in Nat, NEW t \in Nat, NEW n \in 0..Len(s)
  PROVE  LET rest == Units(SubSeq(s, n + 1, Len(s)))
         IN /\ HeldUnits(s, window, t) \in Nat
            /\ (\A i \in 1..n : s[i].at + window <= t) => HeldUnits(s, window, t) <= rest
            /\ (\A i \in (n + 1)..Len(s) : s[i].at + window > t)
                 => HeldUnits(s, window, t) >= rest
<1> DEFINE S == [at : Nat, units : Nat]
           h == [i \in DOMAIN s |-> [at |-> s[i].at,
                                     units |-> IF s[i].at + window > t THEN s[i].units ELSE 0]]
           u == SubSeq(s, n + 1, Len(s))
           front == SubSeq(h, 1, n)
           back == SubSeq(h, n + 1, Len(h))
<1>1. Len(s) \in Nat /\ DOMAIN s = 1..Len(s)
      /\ \A i \in 1..Len(s) : s[i].at \in Nat /\ s[i].units \in Nat
  <2>1. \A i \in 1..Len(s) : s[i] \in UsageEvents
    OBVIOUS
  <2>2. \A e \in UsageEvents : e.at \in Nat /\ e.units \in Nat
    BY DEF UsageEvents
  <2>3. Len(s) \in Nat /\ DOMAIN s = 1..Len(s)
    OBVIOUS
  <2>4. QED
    BY <2>1, <2>2, <2>3
<1>2. h \in Seq(S) /\ Len(h) = Len(s)
      /\ \A i \in 1..Len(s) : h[i].units = IF s[i].at + window > t THEN s[i].units ELSE 0
  <2>1. \A i \in 1..Len(s) : h[i] \in S
    BY <1>1
  <2>2. h = [i \in 1..Len(s) |-> h[i]]
    BY <1>1
  <2>3. \A i \in 1..Len(s) : h[i].units = IF s[i].at + window > t THEN s[i].units ELSE 0
    BY <1>1
  <2> HIDE DEF h, S
  <2>4. QED
    BY <1>1, <2>1, <2>2, <2>3
<1>3. HeldUnits(s, window, t) = Units(h)
  BY DEF HeldUnits
<1> HIDE DEF h
<1>4. \A e \in S : e.units \in Nat
  OBVIOUS
<1> HIDE DEF S
<1>5. Units(h) = Units(front) + Units(back) /\ Units(front) \in Nat /\ Units(back) \in Nat
  BY <1>2, <1>4, UnitsOfSplit
<1>6. front \in Seq(S) /\ Len(front) = n /\ \A i \in 1..n : front[i] = h[i]
  BY <1>1, <1>2
<1>7. back \in Seq(S) /\ Len(back) = Len(s) - n /\ \A i \in 1..(Len(s) - n) : back[i] = h[n + i]
  BY <1>2, WithoutFirst
<1>8. u \in Seq(UsageEvents) /\ Len(u) = Len(s) - n /\ \A i \in 1..(Len(s) - n) : u[i] = s[n + i]
  BY WithoutFirst
<1> HIDE DEF front, back, u
<1>9. Measured(front) /\ Measured(back) /\ Measured(u)
  <2>1. \A e \in UsageEvents : e.units \in Nat
    BY DEF UsageEvents
  <2>2. QED
    BY <1>4, <1>6, <1>7, <1>8, <2>1, EventsMeasured
<1>10. Units(u) \in Nat
  <2>1. PICK f : Sums(f, u) /\ Units(u) = f[Len(u)]
    BY <1>9, UnitsSum
  <2>2. QED
    BY <1>9, <2>1 DEF Sums, Measured
<1>11. ASSUME \A i \in 1..n : s[i].at + window <= t
       PROVE  Units(h) <= Units(u)
  <2>1. \A i \in 1..Len(front) : front[i].units = 0
    <3> TAKE i \in 1..Len(front)
    <3>1. i \in 1..n /\ i \in 1..Len(s) /\ front[i] = h[i]
      BY <1>1, <1>6
    <3>2. s[i].at + window <= t /\ s[i].at \in Nat
      BY <1>1, <1>11, <3>1
    <3>3. ~(s[i].at + window > t)
      BY <3>2
    <3>4. QED
      BY <1>2, <3>1, <3>3
  <2>2. Units(front) = 0
    BY <1>9, <2>1, UnitsOfEmpties
  <2>3. \A i \in 1..Len(back) : back[i].units <= u[i].units
    <3> TAKE i \in 1..Len(back)
    <3>1. i \in 1..(Len(s) - n) /\ n + i \in 1..Len(s)
      BY <1>1, <1>7
    <3>2. back[i] = h[n + i] /\ u[i] = s[n + i]
      BY <1>7, <1>8, <3>1
    <3>3. h[n + i].units = 0 \/ h[n + i].units = s[n + i].units
      BY <1>2, <3>1
    <3>4. s[n + i].units \in Nat
      BY <1>1, <3>1
    <3>5. QED
      BY <3>2, <3>3, <3>4
  <2>4. Units(back) <= Units(u)
    BY <1>7, <1>8, <1>9, <2>3, UnitsCompare
  <2>5. QED
    BY <1>5, <1>10, <2>2, <2>4
<1>12. ASSUME \A i \in (n + 1)..Len(s) : s[i].at + window > t
       PROVE  Units(h) >= Units(u)
  <2>1. \A i \in 1..Len(u) : u[i].units <= back[i].units
    <3> TAKE i \in 1..Len(u)
    <3>1. i \in 1..(Len(s) - n) /\ n + i \in 1..Len(s) /\ n + i \in (n + 1)..Len(s)
      BY <1>1, <1>8
    <3>2. back[i] = h[n + i] /\ u[i] = s[n + i]
      BY <1>7, <1>8, <3>1
    <3>3. QED
      BY <1>1, <1>2, <1>12, <3>1, <3>2
  <2>2. Units(u) <= Units(back)
    BY <1>7, <1>8, <1>9, <2>1, UnitsCompare
  <2>3. QED
    BY <1>5, <1>10, <2>2
<1>13. QED
  BY <1>3, <1>5, <1>11, <1>12 DEF u

\* The event whose expiration is waited for is the first with which enough leaves.
LEMMA ExpirationFrees ==
  ASSUME NEW s \in Seq(UsageEvents), NEW excess \in Nat \ {0}, excess <= Units(s), NEW window
  PROVE  \E m \in 1..Len(s) :
           /\ EventExpiration(s, excess, window) = s[m].at + window
           /\ Units(SubSeq(s, 1, m)) >= excess
           /\ ~(Units(SubSeq(s, 1, m - 1)) >= excess)
<1> DEFINE enough == {i \in DOMAIN s : Units(SubSeq(s, 1, i)) >= excess}
           m == Min(enough)
<1>1. Len(s) \in Nat /\ DOMAIN s = 1..Len(s)
  OBVIOUS
<1>2. enough \subseteq 1..Len(s) /\ \A i \in 1..Len(s) : i \in enough <=> Units(SubSeq(s, 1, i)) >= excess
  BY <1>1
<1>3. EventExpiration(s, excess, window) = IF enough = {} THEN 0 ELSE s[m].at + window
  BY Zenon DEF EventExpiration
<1> HIDE DEF enough
<1>4. SubSeq(s, 1, Len(s)) = s /\ SubSeq(s, 1, 0) = <<>>
  BY <1>1
<1>5. Len(s) # 0
  <2>1. SUFFICES ASSUME Len(s) = 0 PROVE FALSE
    OBVIOUS
  <2>2. Units(s) = 0
    BY <1>4, <2>1, UnitsOfNone
  <2>3. QED
    BY <2>2
<1>6. Len(s) \in enough
  <2>1. Units(SubSeq(s, 1, Len(s))) = Units(s)
    BY <1>4, Zenon
  <2>2. Units(SubSeq(s, 1, Len(s))) >= excess
    BY <2>1
  <2>3. Len(s) \in 1..Len(s)
    BY <1>1, <1>5
  <2>4. QED
    BY <1>2, <2>2, <2>3
<1>7. m \in enough /\ \A y \in enough : m <= y
  <2>1. enough \subseteq Nat /\ enough # {}
    BY <1>2, <1>6
  <2>2. QED
    BY <2>1, MinIsLeast
<1> HIDE DEF m
<1>8. m \in 1..Len(s) /\ Units(SubSeq(s, 1, m)) >= excess
  BY <1>2, <1>7
<1>9. ~(Units(SubSeq(s, 1, m - 1)) >= excess)
  <2>1. CASE m = 1
    <3>1. SubSeq(s, 1, m - 1) = <<>>
      BY <1>4, <2>1
    <3>2. Units(SubSeq(s, 1, m - 1)) = 0
      BY <3>1, UnitsOfNone, Zenon
    <3>3. ~(0 >= excess)
      OBVIOUS
    <3>4. QED
      BY <3>2, <3>3
  <2>2. CASE m # 1
    <3>1. m - 1 \in 1..Len(s) /\ m - 1 \notin enough
      BY <1>1, <1>7, <1>8, <2>2
    <3>2. QED
      BY <1>2, <3>1
  <2>3. QED
    BY <2>1, <2>2
<1>10. QED
  BY <1>3, <1>6, <1>8, <1>9

\* A rule that blocks a caller until t has room at t and had none one instant earlier,
\* if its events are in order.
LEMMA BlocksExactly ==
  ASSUME NEW c, NEW k, NEW b \in Buckets, b.used = Units(b.events),
         charges[c][k] \in Nat \ {0}, now[c] \in Nat,
         rules[k].limit \in Nat, rules[k].window \in Nat,
         charges[c][k] <= rules[k].limit,
         \A i, j \in 1..Len(b.events) : i < j => b.events[i].at <= b.events[j].at
  PROVE  LET u == Blocks(c, k, b)
             Room(t) == /\ b.blockedUntil <= t
                        /\ HeldUnits(b.events, rules[k].window, t) + charges[c][k] <= rules[k].limit
         IN /\ u \in Nat
            /\ \A t \in Nat : u <= t /\ now[c] < t => Room(t)
            /\ now[c] < u => ~Room(u - 1)
<1> DEFINE s == b.events
           w == rules[k].window
           ch == charges[c][k]
           limit == rules[k].limit
           blocked == IF b.blockedUntil > now[c] THEN b.blockedUntil ELSE 0
           excess == b.used + ch - limit
           expires == EventExpiration(s, excess, w)
           full == IF excess > 0 THEN expires ELSE 0
           u == Blocks(c, k, b)
           Room(t) == b.blockedUntil <= t /\ HeldUnits(s, w, t) + ch <= limit
<1>1. s \in Seq(UsageEvents) /\ b.used \in Nat /\ b.blockedUntil \in Nat
  BY DEF Buckets
<1>2. Len(s) \in Nat /\ \A i \in 1..Len(s) : s[i].at \in Nat
  <2>1. \A i \in 1..Len(s) : s[i] \in UsageEvents
    BY <1>1
  <2>2. QED
    BY <1>1, <2>1 DEF UsageEvents
<1>3. u = Max({blocked, full})
  BY Zenon DEF Blocks
<1>4. ch \in Nat \ {0} /\ limit \in Nat /\ ch <= limit /\ w \in Nat /\ now[c] \in Nat
      /\ b.used = Units(s)
  OBVIOUS
<1>5. \A i, j \in 1..Len(s) : i < j => s[i].at <= s[j].at
  OBVIOUS
<1> HIDE DEF s, w, ch, limit
<1>6. excess > 0 => excess \in Nat \ {0} /\ excess <= Units(s)
  BY <1>1, <1>4
<1>7. ASSUME excess > 0
      PROVE  \E m \in 1..Len(s) : /\ expires = s[m].at + w
                                  /\ Units(SubSeq(s, 1, m)) >= excess
                                  /\ ~(Units(SubSeq(s, 1, m - 1)) >= excess)
  <2> HIDE DEF excess
  <2>1. QED
    BY <1>1, <1>6, <1>7, ExpirationFrees
<1> HIDE DEF expires, u
<1>8. full \in Nat /\ blocked \in Nat
  <2>1. ASSUME excess > 0 PROVE expires \in Nat
    <3>1. PICK m \in 1..Len(s) : expires = s[m].at + w
      BY <1>7, <2>1
    <3>2. s[m].at \in Nat
      BY <1>2
    <3>3. QED
      BY <1>4, <3>1, <3>2
  <2>2. QED
    BY <1>1, <2>1
<1>9. u \in {blocked, full} /\ blocked <= u /\ full <= u /\ u \in Nat
  <2> HIDE DEF blocked, full
  <2>1. QED
    BY <1>3, <1>8, MaxOfTwo
<1>10. ASSUME NEW n \in 0..Len(s)
       PROVE  /\ Units(SubSeq(s, 1, n)) \in Nat /\ Units(SubSeq(s, n + 1, Len(s))) \in Nat
              /\ Units(s) = Units(SubSeq(s, 1, n)) + Units(SubSeq(s, n + 1, Len(s)))
  <2>1. \A e \in UsageEvents : e.units \in Nat
    BY DEF UsageEvents
  <2>2. QED
    BY <1>1, <2>1, UnitsOfSplit
<1>11. ASSUME NEW t \in Nat, NEW n \in 0..Len(s)
       PROVE  LET rest == Units(SubSeq(s, n + 1, Len(s)))
              IN /\ HeldUnits(s, w, t) \in Nat
                 /\ (\A i \in 1..n : s[i].at + w <= t) => HeldUnits(s, w, t) <= rest
                 /\ (\A i \in (n + 1)..Len(s) : s[i].at + w > t) => HeldUnits(s, w, t) >= rest
  BY <1>1, <1>4, HeldOfSplit
<1>12. ASSUME NEW t \in Nat, u <= t, now[c] < t
       PROVE  Room(t)
  <2>1. b.blockedUntil <= t
    BY <1>1, <1>4, <1>8, <1>9, <1>12
  <2>2. CASE ~(excess > 0)
    <3>1. HeldUnits(s, w, t) \in Nat /\ HeldUnits(s, w, t) <= Units(SubSeq(s, 0 + 1, Len(s)))
      <4>1. 0 \in 0..Len(s) /\ \A i \in 1..0 : s[i].at + w <= t
        BY <1>2
      <4>2. QED
        BY <1>11, <4>1
    <3>2. SubSeq(s, 0 + 1, Len(s)) = s
      BY <1>1
    <3>3. HeldUnits(s, w, t) <= b.used
      BY <1>4, <3>1, <3>2
    <3>4. b.used + ch <= limit
      BY <1>1, <1>4, <2>2
    <3>5. QED
      BY <1>1, <1>4, <2>1, <3>1, <3>3, <3>4
  <2>3. CASE excess > 0
    <3>1. PICK m \in 1..Len(s) : expires = s[m].at + w /\ Units(SubSeq(s, 1, m)) >= excess
      BY <1>7, <2>3
    <3>2. s[m].at + w <= t
      BY <1>2, <1>4, <1>8, <1>9, <1>12, <2>3, <3>1
    <3>3. \A i \in 1..m : s[i].at + w <= t
      <4> TAKE i \in 1..m
      <4>1. i \in 1..Len(s) /\ (i = m \/ i < m)
        BY <1>2
      <4>2. s[i].at <= s[m].at /\ s[i].at \in Nat /\ s[m].at \in Nat
        BY <1>2, <1>5, <4>1
      <4>3. QED
        BY <1>4, <3>2, <4>2
    <3>4. m \in 0..Len(s)
      BY <1>2
    <3>5. HeldUnits(s, w, t) \in Nat /\ HeldUnits(s, w, t) <= Units(SubSeq(s, m + 1, Len(s)))
      BY <1>11, <3>3, <3>4
    <3>6. /\ Units(SubSeq(s, 1, m)) \in Nat /\ Units(SubSeq(s, m + 1, Len(s))) \in Nat
          /\ Units(s) = Units(SubSeq(s, 1, m)) + Units(SubSeq(s, m + 1, Len(s)))
      BY <1>10, <3>4
    <3>7. HeldUnits(s, w, t) + ch <= limit
      BY <1>1, <1>4, <3>1, <3>5, <3>6
    <3>8. QED
      BY <2>1, <3>7
  <2>4. QED
    BY <2>2, <2>3
<1>13. ASSUME now[c] < u
       PROVE  ~Room(u - 1)
  <2>1. u - 1 \in Nat
    BY <1>4, <1>9, <1>13
  <2>2. CASE u = blocked
    BY <1>1, <1>4, <1>9, <1>13, <2>2
  <2>3. CASE u = full
    <3>1. excess > 0 /\ u = expires
      BY <1>4, <1>13, <2>3
    <3>2. PICK m \in 1..Len(s) : expires = s[m].at + w /\ ~(Units(SubSeq(s, 1, m - 1)) >= excess)
      BY <1>7, <3>1
    <3> DEFINE n == m - 1
    <3>3. n \in 0..Len(s) /\ n + 1 = m
      BY <1>2
    <3>4. \A i \in (n + 1)..Len(s) : s[i].at + w > u - 1
      <4> TAKE i \in (n + 1)..Len(s)
      <4>1. i \in 1..Len(s) /\ (i = m \/ m < i)
        BY <1>2, <3>3
      <4>2. s[m].at <= s[i].at /\ s[i].at \in Nat /\ s[m].at \in Nat
        BY <1>2, <1>5, <4>1
      <4>3. s[m].at + w = u
        BY <3>1, <3>2
      <4> DEFINE a == s[m].at
                 d == s[i].at
      <4>4. a \in Nat /\ d \in Nat /\ a <= d /\ a + w = u /\ w \in Nat /\ u \in Nat
        BY <1>4, <1>9, <4>2, <4>3
      <4> HIDE DEF a, d
      <4>5. d + w > u - 1
        BY <4>4
      <4>6. QED
        BY <4>5 DEF d
    <3>5. ~(Units(SubSeq(s, 1, n)) >= excess)
      BY <3>2
    <3> HIDE DEF n
    <3>6. HeldUnits(s, w, u - 1) \in Nat /\ HeldUnits(s, w, u - 1) >= Units(SubSeq(s, n + 1, Len(s)))
      BY <1>11, <2>1, <3>3, <3>4
    <3>7. /\ Units(SubSeq(s, 1, n)) \in Nat /\ Units(SubSeq(s, n + 1, Len(s))) \in Nat
          /\ Units(s) = Units(SubSeq(s, 1, n)) + Units(SubSeq(s, n + 1, Len(s)))
      BY <1>10, <3>3
    <3>8. ~(HeldUnits(s, w, u - 1) + ch <= limit)
      BY <1>1, <1>4, <3>5, <3>6, <3>7
    <3>9. QED
      BY <3>8
  <2>4. QED
    BY <1>9, <2>2, <2>3
<1>14. QED
  BY <1>9, <1>12, <1>13 DEF u, s, w, ch, limit

\* A caller that no rule refuses, and one of its rules after bucketFor.
LEMMA WaitingFinds ==
  ASSUME LimiterInv, NEW c \in Callers, Visited(c) = DOMAIN charges[c], NEW k \in DOMAIN charges[c]
  PROVE  LET b == Pruned(c, DOMAIN charges[c])[k]
         IN /\ k \in Keys /\ b \in Buckets /\ b.used = Units(b.events)
            /\ charges[c][k] \in Nat \ {0} /\ now[c] \in Nat
            /\ rules[k].limit \in Nat /\ rules[k].window \in Nat
            /\ charges[c][k] <= rules[k].limit
<1> DEFINE b == Pruned(c, DOMAIN charges[c])[k]
<1>1. charges[c] \in ChargeSets
  BY DEF LimiterInv, LimiterTypeOK
<1>2. k \in Keys /\ charges[c][k] \in Nat \ {0}
  BY <1>1, LimiterAssumption
<1>3. KeyInv(b, log[k], rules[k], clock)
  BY <1>2, PrunedKeys
<1>4. ~Refused(c, k)
  BY <1>1, <1>2, LimiterAssumption DEF Visited
<1>5. rules[k] \in Rules
  BY <1>2, <1>4 DEF Refused, LimiterInv, LimiterTypeOK
<1>6. rules[k].limit \in Nat /\ rules[k].window \in Nat
  BY <1>5, RuleTypes
<1>7. now[c] \in Nat
  BY LimiterAssumption DEF LimiterInv, LimiterTypeOK
<1>8. charges[c][k] <= rules[k].limit
  BY <1>2, <1>4, <1>6 DEF Refused
<1>9. b \in Buckets /\ b.used = Units(b.events)
  BY <1>3 DEF KeyInv
<1> HIDE DEF b
<1>10. QED
  BY <1>2, <1>6, <1>7, <1>8, <1>9 DEF b

\* Events that are in order stay so when bucketFor ran.
LEMMA PrunedInOrder ==
  ASSUME LimiterInv, NEW c \in Callers, NEW ks, NEW k \in Keys, InOrder({k})
  PROVE  LET s == Pruned(c, ks)[k].events
         IN \A i, j \in 1..Len(s) : i < j => s[i].at <= s[j].at
<1> DEFINE s == buckets[k].events
           p == BucketFor(buckets[k], rules[k], now[c])
           u == p.events
<1>1. buckets[k] \in Buckets /\ buckets[k].used = Units(buckets[k].events)
  BY DEF LimiterInv, KeyInv
<1>2. rules[k].window \in Nat /\ now[c] \in Nat
  BY RuleTypes, LimiterAssumption DEF LimiterInv, LimiterTypeOK
<1>3. PICK n \in 0..Len(s) : u = SubSeq(s, n + 1, Len(s))
  <2>1. IsRest(u, s)
    BY <1>1, <1>2, PrunedIsRest
  <2>2. QED
    BY <2>1, Zenon DEF IsRest
<1>4. s \in Seq(UsageEvents)
  BY <1>1 DEF Buckets
<1>5. \A i, j \in 1..Len(s) : i < j => s[i].at <= s[j].at
  BY <1>4 DEF InOrder
<1>6. Pruned(c, ks)[k] = IF k \in ks THEN p ELSE buckets[k]
  BY DEF Pruned
<1> HIDE DEF s, p
<1>7. Len(u) = Len(s) - n /\ \A i \in 1..(Len(s) - n) : u[i] = s[n + i]
  BY <1>3, <1>4, WithoutFirst
<1>8. Len(s) \in Nat
  BY <1>4
<1> HIDE DEF u
<1>9. \A i, j \in 1..Len(u) : i < j => u[i].at <= u[j].at
  <2> TAKE i, j \in 1..Len(u)
  <2>1. n + i \in 1..Len(s) /\ n + j \in 1..Len(s) /\ i \in 1..(Len(s) - n) /\ j \in 1..(Len(s) - n)
        /\ (i < j => n + i < n + j)
    BY <1>7, <1>8
  <2>2. u[i] = s[n + i] /\ u[j] = s[n + j]
    BY <1>7, <2>1
  <2>3. QED
    BY <1>5, <2>1, <2>2
<1>10. CASE k \in ks
  <2>1. Pruned(c, ks)[k].events = u
    BY <1>6, <1>10 DEF u
  <2>2. QED
    BY <1>9, <2>1
<1>11. CASE k \notin ks
  <2>1. Pruned(c, ks)[k].events = s
    BY <1>6, <1>11 DEF s
  <2>2. QED
    BY <1>5, <2>1
<1>12. QED
  BY <1>10, <1>11

\* A caller sleeps exactly until all its rules have room: the time tryAcquire returns is
\* neither too early, so that it would have to sleep again, nor later than needed.
THEOREM SleepsAreExact == LimiterSpec => WakesWhenRoom
<1>1. ASSUME LimiterInv, NEW c \in Callers, AcquireWaits(c),
             wait'[c] = "sleep", now[c] = clock, InOrder(DOMAIN charges[c])
      PROVE  HasRoom(c, waitUntil'[c], buckets') /\ ~HasRoom(c, waitUntil'[c] - 1, buckets')
  <2> DEFINE ks == DOMAIN charges[c]
             bs == Pruned(c, ks)
             until == Max({Blocks(c, k, bs[k]) : k \in ks})
             Room(k, t) == /\ bs[k].blockedUntil <= t
                           /\ HeldUnits(bs[k].events, rules[k].window, t) + charges[c][k] <= rules[k].limit
  <2>1. buckets' = bs /\ waitUntil' = [waitUntil EXCEPT ![c] = until] /\ Visited(c) = ks
        /\ wait' = [wait EXCEPT ![c] = IF until <= clock THEN "clock" ELSE "sleep"]
    BY <1>1 DEF AcquireWaits
  <2>2. /\ until \in Nat
        /\ \A k \in ks : Blocks(c, k, bs[k]) <= until
        /\ \E k \in ks : Blocks(c, k, bs[k]) = until
    BY <1>1, UntilIsLongest
  <2> HIDE DEF until
  <2>3. waitUntil'[c] = until /\ ~(until <= clock)
    BY <1>1, <2>1 DEF LimiterInv, LimiterTypeOK
  <2>4. clock \in Nat /\ now[c] < until
    BY <1>1, <2>2, <2>3, LimiterAssumption DEF LimiterInv, LimiterTypeOK
  <2>5. ASSUME NEW k \in ks
        PROVE  /\ Blocks(c, k, bs[k]) \in Nat
               /\ \A t \in Nat : Blocks(c, k, bs[k]) <= t /\ now[c] < t => Room(k, t)
               /\ now[c] < Blocks(c, k, bs[k]) => ~Room(k, Blocks(c, k, bs[k]) - 1)
    <3>1. /\ k \in Keys /\ bs[k] \in Buckets /\ bs[k].used = Units(bs[k].events)
          /\ charges[c][k] \in Nat \ {0} /\ now[c] \in Nat
          /\ rules[k].limit \in Nat /\ rules[k].window \in Nat
          /\ charges[c][k] <= rules[k].limit
      BY <1>1, <2>1, WaitingFinds
    <3>2. InOrder({k})
      BY <1>1 DEF InOrder
    <3>3. \A i, j \in 1..Len(bs[k].events) : i < j => bs[k].events[i].at <= bs[k].events[j].at
      BY <1>1, <3>1, <3>2, PrunedInOrder
    <3> HIDE DEF bs
    <3>4. QED
      BY <3>1, <3>3, BlocksExactly
  <2> HIDE DEF bs
  <2>6. \A k \in ks : Room(k, until)
    BY <2>2, <2>4, <2>5
  <2>7. \E k \in ks : ~Room(k, until - 1)
    BY <2>2, <2>4, <2>5
  <2>8. \A t : HasRoom(c, t, bs) <=> \A k \in ks : Room(k, t)
    BY DEF HasRoom
  <2> HIDE DEF Room
  <2>9. HasRoom(c, until, bs) /\ ~HasRoom(c, until - 1, bs)
    BY <2>6, <2>7, <2>8
  <2>10. QED
    BY <2>1, <2>3, <2>9
<1>2. ASSUME LimiterInv, LimiterNext, NEW c \in Callers, wait[c] = "acquire", wait'[c] = "sleep"
      PROVE  AcquireWaits(c)
  <2>1. wait \in [Callers -> WaitPoints]
    BY <1>2 DEF LimiterInv, LimiterTypeOK
  <2> USE DEF callerVars
  <2>2. ASSUME wait' = wait PROVE FALSE
    BY <1>2, <2>2
  <2>3. ASSUME NEW d \in Callers, NEW w \in WaitPoints, d # c \/ w # "sleep",
               wait' = [wait EXCEPT ![d] = w]
        PROVE  FALSE
    BY <1>2, <2>1, <2>3
  <2>4. ASSUME NEW d \in Callers, CallWait(d) \/ ReadClock(d) \/ AcquireFails(d)
                                    \/ AcquireGrants(d) \/ TimerFires(d) \/ WaitCanceled(d)
        PROVE  FALSE
    BY <2>3, <2>4 DEF CallWait, ReadClock, AcquireFails, AcquireGrants, TimerFires, WaitCanceled,
       WaitPoints
  <2>5. ASSUME NEW d \in Callers, AcquireWaits(d)
        PROVE  d = c
    <3>1. PICK w \in {"clock", "sleep"} : wait' = [wait EXCEPT ![d] = w]
      BY <2>5, Zenon DEF AcquireWaits
    <3>2. QED
      BY <1>2, <2>1, <3>1
  <2>6. ASSUME \/ \E k \in Keys : Snapshot(k)
               \/ LimiterAdmin \/ Tick \/ TimeIsUp
        PROVE  FALSE
    BY <2>2, <2>6 DEF Snapshot, LimiterAdmin, SetRule, ObserveUsed, BlockFor, Tick, TimeIsUp,
       limiterVars
  <2>7. QED
    BY <1>2, <2>4, <2>5, <2>6 DEF LimiterNext, WaitStep
<1>3. LimiterInv /\ [LimiterNext]_limiterVars
        => [\A c \in Callers :
              (wait[c] = "acquire" /\ wait'[c] = "sleep" /\ now[c] = clock /\ InOrder(DOMAIN charges[c])) =>
              /\ HasRoom(c, waitUntil'[c], buckets')
              /\ ~HasRoom(c, waitUntil'[c] - 1, buckets')]_limiterVars
  BY <1>1, <1>2
<1>4. QED
  BY <1>3, LimiterInvariant, PTL DEF LimiterSpec, WakesWhenRoom
=============================================================================
