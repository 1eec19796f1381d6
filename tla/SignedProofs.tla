---------------------------- MODULE SignedProofs ----------------------------
(***************************************************************************)
(* Proofs about SignedRequests, for any number of concurrent calls, any    *)
(* behaviour of the local clock and any configuration of the clients.      *)
(***************************************************************************)
EXTENDS SignedRequests, TLAPS

(* The states of a call. *)

CallOps == {"none"} \cup UNION {s.ops : s \in Scenarios}
Stages ==
  {"idle", "waiting", "building", "stamping", "adding", "loading", "swapping", "signing", "signed", "sent", "served", "done"}
CallErrors ==
  {"none", "too dear", "timeout", "authentication", "authorization", "validation", "plain", "refused"}
  \cup {ClientOf[v].signing.refusal : v \in Venues}
Instants == [clock : Int, at : Nat]
CallStates ==
  [op : CallOps, stage : Stages, error : CallErrors, tries : Nat, lone : BOOLEAN, started : Instants, builtAt : Nat,
   server : Nat, seen : Int, stamp : Int, bound : Int, verdict : {"none", "accepted", "stale"}]

Signs(call) == call.op \in PrivateOps /\ signing.stamp = "nonce"
Busy(call) == call.stage \notin {"idle", "done"}
Timed(call) == call.op = "time" /\ MeasuredFrom # "never"

\* x is at most half of b from zero.
Near(x, b) == 2 * x <= b /\ -(2 * x) <= b

\* The types of the variables the proofs are about.
TypedInv ==
  /\ scenario \in Scenarios /\ client \in {"none", "refused", "ready"}
  /\ calls \in [Calls -> CallStates]
  /\ lastNonce \in Nat /\ highest \in Nat /\ issued \subseteq Nat
  /\ clockOffset \in Int /\ now \in Nat /\ drift \in Int
  /\ wire \subseteq Calls \X Nat
  /\ sync \in [trip : Int, drift : Int, valid : BOOLEAN]

\* A nonce is drawn by private calls of clients that use them, above the one
\* that was loaded, and is never above the last one stored.
NonceOK(call) ==
  /\ IF call.stage = "idle" THEN call.op = "none" ELSE call.op \in ClientOf[venue].ops
  /\ call.stage \in {"stamping", "adding", "loading", "swapping", "signing"} => call.op \in PrivateOps
  /\ call.stage = "adding" => signing.stamp = "offset"
  /\ call.stage \in {"loading", "swapping"} => signing.stamp = "nonce"
  /\ call.stage = "swapping" => call.seen >= 0 /\ call.seen < call.stamp
  /\ call.stage \in {"signing", "signed", "sent"} /\ Signs(call) => call.stamp \in 1..lastNonce

\* The nonce of a call that is alone is above all that is on its way or has
\* arrived, until its own request arrives.
LoneOK(c, call) ==
  call.lone =>
    /\ call.verdict # "stale"
    /\ call.stage \in {"signing", "signed"} /\ Signs(call) =>
         highest < call.stamp /\ \A w \in wire : w[2] < call.stamp
    /\ call.stage = "sent" /\ Signs(call) =>
         \A w \in wire : w[2] < call.stamp \/ (w = <<c, call.stamp>> /\ highest < call.stamp)

\* A measurement that begins when the request is built and what it yields.
ClockOK(call) ==
  /\ call.bound >= 0 => call.stage \in {"signing", "signed", "sent", "served"} /\ Near(call.stamp, call.bound)
  /\ call.stage \in {"signed", "sent", "served"} /\ Timed(call) => call.started.at = call.builtAt /\ call.builtAt <= now
  /\ call.stage = "served" => Timed(call) /\ call.builtAt <= call.server /\ call.server <= now

NonceInv ==
  /\ highest <= lastNonce
  /\ \A n \in issued : n <= lastNonce
  /\ \A w \in wire : w[2] \in 1..lastNonce /\ Signs(calls[w[1]])
  /\ \A c \in Calls : NonceOK(calls[c])

LoneInv ==
  /\ \A c \in Calls : LoneOK(c, calls[c])
  /\ \A c, d \in Calls : calls[c].lone /\ Busy(calls[c]) /\ Busy(calls[d]) => c = d

ClockInv ==
  venue # "usdm" =>
    /\ sync.valid => Near(sync.drift + clockOffset, sync.trip + 1)
    /\ \A c \in Calls : ClockOK(calls[c])

SignedInv == TypedInv /\ NonceInv /\ LoneInv /\ ClockInv

\* Everything but the calls stays as it is.
Elsewhere == UNCHANGED <<scenario, client, lastNonce, clockOffset, now, drift, issued, wire, highest, sync>>

\* call may take the place of the state of c.
Follows(c, call) ==
  /\ call \in CallStates /\ call.op = calls[c].op /\ call.lone = calls[c].lone
  /\ Busy(call) => Busy(calls[c])
  /\ NonceOK(call) /\ LoneOK(c, call)
  /\ venue # "usdm" => ClockOK(call)

\* A step of one call that touches nothing else.
LEMMA CalmStep ==
  ASSUME SignedInv, Elsewhere, NEW c \in Calls, NEW call, Follows(c, call),
         calls' = [calls EXCEPT ![c] = call]
  PROVE  SignedInv'
<1>1. calls' \in [Calls -> CallStates] /\ calls'[c] = call /\ \A d \in Calls \ {c} : calls'[d] = calls[d]
  BY DEF SignedInv, TypedInv, Follows
<1>2. TypedInv'
  BY <1>1 DEF SignedInv, TypedInv, Elsewhere
<1>3. \A d \in Calls : NonceOK(calls[d])' /\ LoneOK(d, calls[d])'
  <2> SUFFICES ASSUME NEW d \in Calls PROVE NonceOK(calls[d])' /\ LoneOK(d, calls[d])'
    OBVIOUS
  <2>1. NonceOK(calls'[d]) /\ LoneOK(d, calls'[d])
    BY <1>1 DEF SignedInv, NonceInv, LoneInv, Follows
  <2> QED
    BY <2>1 DEF NonceOK, LoneOK, Signs, Elsewhere, signing, venue
<1>4. NonceInv'
  <2>1. \A w \in wire : w[1] \in Calls /\ Signs(calls[w[1]])'
    <3> SUFFICES ASSUME NEW w \in wire PROVE w[1] \in Calls /\ Signs(calls[w[1]])'
      OBVIOUS
    <3>1. w[1] \in Calls /\ Signs(calls[w[1]])
      BY DEF SignedInv, TypedInv, NonceInv
    <3>2. calls'[w[1]].op = calls[w[1]].op
      BY <1>1, <3>1 DEF Follows
    <3> QED
      BY <3>1, <3>2 DEF Signs, Elsewhere, signing, venue
  <2> QED
    BY <1>3, <2>1 DEF SignedInv, NonceInv, Elsewhere
<1>5. LoneInv'
  <2>1. \A d \in Calls : calls'[d].lone = calls[d].lone /\ (Busy(calls'[d]) => Busy(calls[d]))
    BY <1>1 DEF Follows
  <2> QED
    BY <1>3, <2>1 DEF SignedInv, LoneInv
<1>6. ClockInv'
  <2> SUFFICES ASSUME venue # "usdm"
               PROVE  /\ sync.valid => Near(sync.drift + clockOffset, sync.trip + 1)
                      /\ \A d \in Calls : ClockOK(calls[d])'
    BY DEF ClockInv, Elsewhere, venue, Near
  <2>1. \A d \in Calls : ClockOK(calls'[d])
    BY <1>1 DEF SignedInv, ClockInv, Follows
  <2>2. \A d \in Calls : ClockOK(calls[d])'
    BY <2>1 DEF ClockOK, Timed, MeasuredFrom, Elsewhere, venue
  <2> QED
    BY <2>2 DEF SignedInv, ClockInv
<1> QED
  BY <1>2, <1>4, <1>5, <1>6 DEF SignedInv

\* What the invariant says of one call.
LEMMA CallFacts ==
  ASSUME SignedInv, NEW c \in Calls
  PROVE  /\ calls[c] \in CallStates /\ calls = [calls EXCEPT ![c] = calls[c]]
         /\ NonceOK(calls[c]) /\ LoneOK(c, calls[c])
         /\ venue # "usdm" => ClockOK(calls[c])
         /\ lastNonce \in Nat /\ now \in Nat /\ drift \in Int /\ clockOffset \in Int
         /\ sync \in [trip : Int, drift : Int, valid : BOOLEAN]
  BY DEF SignedInv, TypedInv, NonceInv, LoneInv, ClockInv

\* A call that ends keeps its operation, its verdict and whether it was alone.
LEMMA EndedFacts ==
  ASSUME NEW call \in CallStates, NEW error \in CallErrors
  PROVE  /\ Ended(call, error) \in CallStates
         /\ Ended(call, error).op = call.op /\ Ended(call, error).lone = call.lone
         /\ Ended(call, error).stage = "done" /\ Ended(call, error).verdict = call.verdict
         /\ Ended(call, error).bound = -1
<1>1. Idle \in CallStates
  <2>1. "none" \in CallOps
    BY DEF CallOps
  <2>2. "none" \in CallErrors
    BY DEF CallErrors
  <2>3. "idle" \in Stages /\ NoInstant \in Instants
    BY DEF Stages, NoInstant, Instants
  <2> QED
    BY <2>1, <2>2, <2>3 DEF Idle, CallStates
<1>2. DOMAIN Idle = {"op", "stage", "error", "tries", "lone", "started", "builtAt", "server", "seen", "stamp", "bound", "verdict"}
  BY DEF Idle
<1>3. call.op \in CallOps /\ call.lone \in BOOLEAN /\ call.verdict \in {"none", "accepted", "stale"}
  BY DEF CallStates
<1> QED
  BY <1>1, <1>2, <1>3, "done" \in Stages DEF Ended, CallStates, Idle, Stages

LEMMA EndFollows ==
  ASSUME SignedInv, NEW c \in Calls, NEW error \in CallErrors, Busy(calls[c])
  PROVE  Follows(c, Ended(calls[c], error))
<1>1. calls[c] \in CallStates /\ NonceOK(calls[c]) /\ LoneOK(c, calls[c])
  BY CallFacts
<1> DEFINE call == Ended(calls[c], error)
<1>2. /\ call \in CallStates /\ call.op = calls[c].op /\ call.lone = calls[c].lone /\ call.stage = "done"
      /\ call.verdict = calls[c].verdict /\ call.bound = -1
  BY <1>1, EndedFacts
<1> HIDE DEF call
<1>3. Follows(c, call)
  BY <1>1, <1>2 DEF Follows, NonceOK, LoneOK, ClockOK, Busy
<1> QED
  BY <1>3 DEF call

\* A step that ends a call.
LEMMA EndStep ==
  ASSUME SignedInv, Elsewhere, NEW c \in Calls, NEW error \in CallErrors, Busy(calls[c]), Ends(c, error)
  PROVE  SignedInv'
<1>1. Follows(c, Ended(calls[c], error))
  BY EndFollows
<1> HIDE DEF Ended
<1> QED
  BY <1>1, CalmStep DEF Ends, Becomes

\* The steps of a call up to the nonce.
LEMMA WaitingSteps ==
  ASSUME SignedInv, NEW c \in Calls, Grant(c) \/ GiveUp(c) \/ BuildPublic(c) \/ ResolveSecret(c)
  PROVE  SignedInv'
<1>1. CASE Grant(c)
  <2> DEFINE call == [calls[c] EXCEPT !.stage = "building"]
  <2>1. Elsewhere /\ calls' = [calls EXCEPT ![c] = call] /\ calls[c].stage = "waiting"
    BY <1>1 DEF Grant, At, MovesTo, Elsewhere, clientVars, clockVars, netVars
  <2>2. Follows(c, call)
    BY <2>1, CallFacts DEF Follows, CallStates, Stages, NonceOK, LoneOK, ClockOK, Busy, Signs, Timed
  <2> QED
    BY <2>1, <2>2, CalmStep
<1>2. CASE GiveUp(c)
  <2>1. Elsewhere /\ Busy(calls[c]) /\ Ends(c, "timeout")
    BY <1>2 DEF GiveUp, At, Busy, Elsewhere, clientVars, clockVars, netVars
  <2> QED
    BY <2>1, EndStep DEF CallErrors
<1>3. CASE BuildPublic(c)
  <2> DEFINE start == IF calls[c].op = "time" /\ MeasuredFrom = "build" THEN Instant ELSE calls[c].started
             call == [calls[c] EXCEPT !.stage = "signed", !.builtAt = now, !.started = start]
  <2>1. Elsewhere /\ calls' = [calls EXCEPT ![c] = call] /\ calls[c].stage = "building" /\ calls[c].op \notin PrivateOps
    BY <1>3 DEF BuildPublic, At, Private, Becomes, Elsewhere, clientVars, clockVars, netVars
  <2>2. start \in Instants
    BY CallFacts DEF CallStates, Instants, Instant
  <2>3. venue # "usdm" /\ Timed(calls[c]) => start.at = now
    BY DEF Timed, MeasuredFrom, BinanceServerTime, OkxServerTime, BybitServerTime, Instant
  <2> HIDE DEF start
  <2>4. /\ call \in CallStates /\ call.op = calls[c].op /\ call.lone = calls[c].lone /\ call.verdict = calls[c].verdict
        /\ call.stage = "signed" /\ call.builtAt = now /\ call.started = start /\ call.bound = calls[c].bound
    BY <2>2, CallFacts DEF CallStates, Stages
  <2> HIDE DEF call
  <2>5. Follows(c, call)
    BY <2>1, <2>3, <2>4, CallFacts DEF Follows, NonceOK, LoneOK, ClockOK, Busy, Signs, Timed
  <2> QED
    BY <2>1, <2>5, CalmStep
<1>4. CASE ResolveSecret(c)
  <2>1. Elsewhere /\ calls[c].stage = "building" /\ calls[c].op \in PrivateOps
    BY <1>4 DEF ResolveSecret, At, Private, Elsewhere, clientVars, clockVars, netVars
  <2>2. CASE MovesTo(c, "stamping")
    <3> DEFINE call == [calls[c] EXCEPT !.stage = "stamping"]
    <3>1. calls' = [calls EXCEPT ![c] = call]
      BY <2>2 DEF MovesTo
    <3>2. Follows(c, call)
      BY <2>1, CallFacts DEF Follows, CallStates, Stages, NonceOK, LoneOK, ClockOK, Busy, Signs, Timed
    <3> QED
      BY <2>1, <3>1, <3>2, CalmStep
  <2>3. CASE Ends(c, "authentication")
    BY <2>1, <2>3, EndStep DEF CallErrors, Busy
  <2> QED
    BY <1>4, <2>2, <2>3 DEF ResolveSecret
<1> QED
  BY <1>1, <1>2, <1>3, <1>4

LEMMA StampSteps ==
  ASSUME SignedInv, NEW c \in Calls, StampClock(c) \/ StampRandom(c) \/ ReadClock(c) \/ AddOffset(c) \/ Sign(c)
  PROVE  SignedInv'
<1>1. CASE StampClock(c)
  <2>1. Elsewhere /\ calls[c].stage = "stamping" /\ signing.stamp = "clock"
    BY <1>1 DEF StampClock, At, Elsewhere, clientVars, clockVars, netVars
  <2>2. CASE MovesTo(c, "signing")
    <3> DEFINE call == [calls[c] EXCEPT !.stage = "signing"]
    <3>1. calls' = [calls EXCEPT ![c] = call]
      BY <2>2 DEF MovesTo
    <3>2. Follows(c, call)
      BY <2>1, CallFacts DEF Follows, CallStates, Stages, NonceOK, LoneOK, ClockOK, Busy, Signs, Timed
    <3> QED
      BY <2>1, <3>1, <3>2, CalmStep
  <2>3. CASE Ends(c, "validation")
    BY <2>1, <2>3, EndStep DEF CallErrors, Busy
  <2> QED
    BY <1>1, <2>2, <2>3 DEF StampClock
<1>2. CASE StampRandom(c)
  <2>1. Elsewhere /\ calls[c].stage = "stamping" /\ signing.stamp = "random"
    BY <1>2 DEF StampRandom, At, Elsewhere, clientVars, clockVars, netVars
  <2>2. CASE MovesTo(c, "signing")
    <3> DEFINE call == [calls[c] EXCEPT !.stage = "signing"]
    <3>1. calls' = [calls EXCEPT ![c] = call]
      BY <2>2 DEF MovesTo
    <3>2. Follows(c, call)
      BY <2>1, CallFacts DEF Follows, CallStates, Stages, NonceOK, LoneOK, ClockOK, Busy, Signs, Timed
    <3> QED
      BY <2>1, <3>1, <3>2, CalmStep
  <2>3. CASE Ends(c, "plain")
    BY <2>1, <2>3, EndStep DEF CallErrors, Busy
  <2> QED
    BY <1>2, <2>2, <2>3 DEF StampRandom
<1>3. CASE ReadClock(c)
  <2> DEFINE call == [calls[c] EXCEPT !.stage = "adding", !.seen = drift]
  <2>1. /\ Elsewhere /\ calls' = [calls EXCEPT ![c] = call]
        /\ calls[c].stage = "stamping" /\ signing.stamp = "offset"
    BY <1>3 DEF ReadClock, At, Becomes, Elsewhere, clientVars, clockVars, netVars
  <2>2. /\ call \in CallStates /\ call.op = calls[c].op /\ call.lone = calls[c].lone /\ call.stage = "adding"
        /\ call.bound = calls[c].bound /\ call.stamp = calls[c].stamp /\ call.verdict = calls[c].verdict
    BY CallFacts DEF CallStates, Stages
  <2> HIDE DEF call
  <2>3. Follows(c, call)
    BY <2>1, <2>2, CallFacts DEF Follows, NonceOK, LoneOK, ClockOK, Busy
  <2> QED
    BY <2>1, <2>3, CalmStep
<1>4. CASE AddOffset(c)
  <2> DEFINE bound == IF sync.valid /\ sync.drift = calls[c].seen THEN sync.trip + 1 ELSE -1
             stamp == calls[c].seen + clockOffset
             call == [calls[c] EXCEPT !.stage = "signing", !.stamp = stamp, !.bound = bound]
  <2>1. Elsewhere /\ calls' = [calls EXCEPT ![c] = call] /\ calls[c].stage = "adding"
    BY <1>4 DEF AddOffset, At, Becomes, Elsewhere, clientVars, clockVars, netVars
  <2>2. calls[c].op \in PrivateOps /\ signing.stamp = "offset"
    BY <2>1, CallFacts DEF NonceOK
  <2>3. bound \in Int /\ stamp \in Int
    BY CallFacts DEF CallStates
  <2>4. venue # "usdm" /\ bound >= 0 => Near(stamp, bound)
    BY CallFacts DEF SignedInv, ClockInv
  <2> HIDE DEF bound, stamp
  <2>5. /\ call \in CallStates /\ call.op = calls[c].op /\ call.lone = calls[c].lone /\ call.verdict = calls[c].verdict
        /\ call.stage = "signing" /\ call.stamp = stamp /\ call.bound = bound
    BY <2>3, CallFacts DEF CallStates, Stages
  <2> HIDE DEF call
  <2>6. Follows(c, call)
    BY <2>1, <2>2, <2>4, <2>5, CallFacts DEF Follows, NonceOK, LoneOK, ClockOK, Busy, Signs, Timed
  <2> QED
    BY <2>1, <2>6, CalmStep
<1>5. CASE Sign(c)
  <2>1. Elsewhere /\ calls[c].stage = "signing"
    BY <1>5 DEF Sign, At, Elsewhere, clientVars, clockVars, netVars
  <2>2. CASE MovesTo(c, "signed")
    <3> DEFINE call == [calls[c] EXCEPT !.stage = "signed"]
    <3>1. calls' = [calls EXCEPT ![c] = call]
      BY <2>2 DEF MovesTo
    <3>2. calls[c].op # "time"
      BY <2>1, CallFacts DEF NonceOK, PrivateOps
    <3>3. Follows(c, call)
      BY <2>1, <3>2, CallFacts DEF Follows, CallStates, Stages, NonceOK, LoneOK, ClockOK, Busy, Signs, Timed
    <3> QED
      BY <2>1, <3>1, <3>3, CalmStep
  <2>3. CASE Ends(c, signing.refusal)
    <3>1. signing.refusal \in CallErrors
      BY SignedAssumption DEF SignedInv, TypedInv, CallErrors, signing, venue
    <3> HIDE DEF signing
    <3> QED
      BY <2>1, <2>3, <3>1, EndStep DEF Busy
  <2> QED
    BY <1>5, <2>2, <2>3 DEF Sign
<1> QED
  BY <1>1, <1>2, <1>3, <1>4, <1>5

\* nextNonce, up to the exchange that stores a nonce.
LEMMA DrawingSteps ==
  ASSUME SignedInv, NEW c \in Calls, NonceClock(c) \/ NonceLoad(c)
  PROVE  SignedInv'
<1>1. CASE NonceClock(c)
  <2> DEFINE stamp == Clock
             call == [calls[c] EXCEPT !.stage = "loading", !.stamp = stamp]
  <2>1. /\ Elsewhere /\ calls' = [calls EXCEPT ![c] = call]
        /\ calls[c].stage = "stamping" /\ signing.stamp = "nonce"
    BY <1>1 DEF NonceClock, At, Becomes, Elsewhere, clientVars, clockVars, netVars
  <2>2. stamp \in Int
    BY SignedAssumption, CallFacts DEF Clock
  <2> HIDE DEF stamp
  <2>3. Follows(c, call)
    BY <2>1, <2>2, CallFacts DEF Follows, CallStates, Stages, NonceOK, LoneOK, ClockOK, Busy, Signs, Timed
  <2> QED
    BY <2>1, <2>3, CalmStep
<1>2. CASE NonceLoad(c)
  <2> DEFINE stamp == Raised(calls[c].stamp, lastNonce)
             call == [calls[c] EXCEPT !.stage = "swapping", !.seen = lastNonce, !.stamp = stamp]
  <2>1. Elsewhere /\ calls' = [calls EXCEPT ![c] = call] /\ calls[c].stage = "loading"
    BY <1>2 DEF NonceLoad, At, Becomes, Elsewhere, clientVars, clockVars, netVars
  <2>2. stamp \in Int /\ lastNonce \in Int /\ lastNonce < stamp /\ calls[c] \in CallStates
    BY CallFacts DEF Raised, CallStates
  <2> HIDE DEF stamp
  <2>3. /\ call \in CallStates /\ call.op = calls[c].op /\ call.lone = calls[c].lone /\ call.verdict = calls[c].verdict
        /\ call.stage = "swapping" /\ call.seen = lastNonce /\ call.stamp = stamp /\ call.bound = calls[c].bound
    BY <2>2 DEF CallStates, Stages
  <2> HIDE DEF call
  <2>4. Follows(c, call)
    BY <2>1, <2>2, <2>3, CallFacts DEF Follows, NonceOK, LoneOK, ClockOK, Busy, Signs, Timed
  <2> QED
    BY <2>1, <2>4, CalmStep
<1> QED
  BY <1>1, <1>2

\* A nonce that is stored is above all that were handed out before.
LEMMA SwapStep ==
  ASSUME SignedInv, NEW c \in Calls, NonceSwap(c)
  PROVE  SignedInv' /\ (calls'[c].stage = "signing" => \A n \in issued : calls[c].stamp > n)
<1>1. calls[c].stage = "swapping" /\ UNCHANGED <<scenario, client, clockOffset, now, drift, wire, highest, sync>>
  BY DEF NonceSwap, At, clientVars, clockVars, netVars
<1>2. /\ calls \in [Calls -> CallStates] /\ calls[c].op \in PrivateOps /\ signing.stamp = "nonce"
      /\ calls[c].seen >= 0 /\ calls[c].seen < calls[c].stamp /\ calls[c].seen \in Int /\ calls[c].stamp \in Int
  BY <1>1, CallFacts DEF NonceOK, SignedInv, TypedInv, CallStates
<1>3. CASE lastNonce # calls[c].seen
  <2> DEFINE call == [calls[c] EXCEPT !.stage = "loading"]
  <2>1. Elsewhere /\ calls' = [calls EXCEPT ![c] = call]
    BY <1>1, <1>3 DEF NonceSwap, MovesTo, Elsewhere
  <2>2. Follows(c, call)
    BY <1>1, <1>2, CallFacts DEF Follows, CallStates, Stages, NonceOK, LoneOK, ClockOK, Busy, Signs, Timed
  <2>3. calls'[c].stage = "loading"
    BY <1>2, <2>1 DEF CallStates
  <2> QED
    BY <2>1, <2>2, <2>3, CalmStep
<1>4. CASE lastNonce = calls[c].seen
  <2> DEFINE stamp == calls[c].stamp
             call == [calls[c] EXCEPT !.stage = "signing"]
  <2>1. lastNonce' = stamp /\ issued' = issued \cup {stamp} /\ calls' = [calls EXCEPT ![c] = call]
    BY <1>1, <1>4 DEF NonceSwap, MovesTo
  <2>2. /\ call \in CallStates /\ call.op = calls[c].op /\ call.lone = calls[c].lone /\ call.verdict = calls[c].verdict
        /\ call.stage = "signing" /\ call.stamp = stamp /\ call.bound = calls[c].bound /\ call.lone \in BOOLEAN
    BY <1>2 DEF CallStates, Stages
  <2> HIDE DEF call
  <2>3. calls' \in [Calls -> CallStates] /\ calls'[c] = call /\ \A d \in Calls \ {c} : calls'[d] = calls[d]
    BY <1>2, <2>1, <2>2
  <2>4. /\ stamp \in Nat /\ lastNonce < stamp /\ highest < stamp
        /\ \A n \in issued : n < stamp
        /\ \A w \in wire : w[2] < stamp
    <3>1. lastNonce \in Nat /\ highest \in Nat /\ issued \subseteq Nat /\ wire \subseteq Calls \X Nat /\ lastNonce < stamp
      BY <1>2, <1>4 DEF SignedInv, TypedInv
    <3>2. highest <= lastNonce /\ (\A n \in issued : n <= lastNonce) /\ \A w \in wire : w[2] <= lastNonce
      BY <3>1 DEF SignedInv, NonceInv
    <3> QED
      BY <1>2, <3>1, <3>2
  <2>5. TypedInv'
    BY <1>1, <2>1, <2>3, <2>4 DEF SignedInv, TypedInv
  <2>6. \A d \in Calls : NonceOK(calls[d])' /\ LoneOK(d, calls[d])'
    <3> SUFFICES ASSUME NEW d \in Calls PROVE NonceOK(calls[d])' /\ LoneOK(d, calls[d])'
      OBVIOUS
    <3>1. CASE d = c
      BY <1>1, <1>2, <2>1, <2>2, <2>3, <2>4, <3>1, CallFacts DEF NonceOK, LoneOK, Signs, signing, venue
    <3>2. CASE d # c
      <4>1. NonceOK(calls[d]) /\ LoneOK(d, calls[d]) /\ calls'[d] = calls[d] /\ calls[d] \in CallStates /\ lastNonce \in Nat
        BY <2>3, <3>2, CallFacts
      <4>2. calls[d].stamp \in Int
        BY <4>1 DEF CallStates
      <4> QED
        BY <1>1, <2>1, <2>4, <4>1, <4>2 DEF NonceOK, LoneOK, Signs, signing, venue
    <3> QED
      BY <3>1, <3>2
  <2>7. NonceInv'
    <3>1. \A w \in wire : w[1] \in Calls /\ Signs(calls[w[1]])'
      <4> SUFFICES ASSUME NEW w \in wire PROVE w[1] \in Calls /\ Signs(calls[w[1]])'
        OBVIOUS
      <4>1. w[1] \in Calls /\ Signs(calls[w[1]])
        BY DEF SignedInv, TypedInv, NonceInv
      <4>2. calls'[w[1]].op = calls[w[1]].op
        BY <2>2, <2>3, <4>1
      <4> QED
        BY <1>1, <4>1, <4>2 DEF Signs, signing, venue
    <3>2. \A w \in wire : w[2] \in 1..stamp
      BY <2>4 DEF SignedInv, TypedInv, NonceInv
    <3> QED
      BY <1>1, <2>1, <2>4, <2>6, <3>1, <3>2 DEF NonceInv, SignedInv, TypedInv
  <2>8. LoneInv'
    <3>1. \A d \in Calls : calls'[d].lone = calls[d].lone /\ (Busy(calls'[d]) => Busy(calls[d]))
      BY <1>1, <2>2, <2>3 DEF Busy
    <3> QED
      BY <2>6, <3>1 DEF SignedInv, LoneInv
  <2>9. ClockInv'
    <3> SUFFICES ASSUME venue # "usdm"
                 PROVE  /\ sync.valid => Near(sync.drift + clockOffset, sync.trip + 1)
                        /\ \A d \in Calls : ClockOK(calls[d])'
      BY <1>1 DEF ClockInv, venue, Near
    <3>1. \A d \in Calls : ClockOK(calls'[d])
      BY <1>1, <1>2, <2>2, <2>3, CallFacts DEF ClockOK
    <3>2. \A d \in Calls : ClockOK(calls[d])'
      BY <1>1, <3>1 DEF ClockOK, Timed, MeasuredFrom, venue
    <3> QED
      BY <3>2 DEF SignedInv, ClockInv
  <2> QED
    BY <2>4, <2>5, <2>7, <2>8, <2>9 DEF SignedInv
<1> QED
  BY <1>3, <1>4

\* A signed request leaves.
LEMMA SendStep == ASSUME SignedInv, NEW c \in Calls, Send(c) PROVE SignedInv'
<1> DEFINE stamp == calls[c].stamp
           call == [calls[c] EXCEPT !.stage = "sent"]
<1>1. /\ UNCHANGED <<scenario, client, lastNonce, clockOffset, now, drift, issued, highest, sync>>
      /\ calls[c].stage = "signed" /\ calls' = [calls EXCEPT ![c] = call]
      /\ wire' = IF Signs(calls[c]) THEN wire \cup {<<c, stamp>>} ELSE wire
  BY DEF Send, At, Becomes, Numbered, Private, Signs, clientVars, clockVars
<1>2. /\ calls \in [Calls -> CallStates] /\ lastNonce \in Nat /\ highest \in Nat
      /\ stamp \in Int /\ (Signs(calls[c]) => stamp \in 1..lastNonce)
  BY <1>1, CallFacts DEF NonceOK, SignedInv, TypedInv, CallStates
<1>3. /\ call \in CallStates /\ call.op = calls[c].op /\ call.lone = calls[c].lone /\ call.verdict = calls[c].verdict
      /\ call.stage = "sent" /\ call.stamp = stamp /\ call.bound = calls[c].bound
      /\ call.started = calls[c].started /\ call.builtAt = calls[c].builtAt /\ call.server = calls[c].server
  BY <1>2 DEF CallStates, Stages
<1> HIDE DEF call
<1>4. calls' \in [Calls -> CallStates] /\ calls'[c] = call /\ \A d \in Calls \ {c} : calls'[d] = calls[d]
  BY <1>1, <1>2, <1>3
<1>5. /\ wire \subseteq wire' /\ wire' \subseteq Calls \X Nat
      /\ \A w \in wire' : w \in wire \/ (w = <<c, stamp>> /\ Signs(calls[c]))
  BY <1>1, <1>2 DEF SignedInv, TypedInv
<1>6. TypedInv'
  BY <1>1, <1>4, <1>5 DEF SignedInv, TypedInv
<1>7. \A d \in Calls : NonceOK(calls[d])'
  <2>1. \A d \in Calls : NonceOK(calls'[d])
    BY <1>1, <1>3, <1>4, CallFacts DEF NonceOK, Signs
  <2> QED
    BY <1>1, <2>1 DEF NonceOK, Signs, signing, venue
<1>8. NonceInv'
  <2>1. \A w \in wire' : w[2] \in 1..lastNonce /\ w[1] \in Calls /\ Signs(calls[w[1]])'
    <3> SUFFICES ASSUME NEW w \in wire' PROVE w[2] \in 1..lastNonce /\ w[1] \in Calls /\ Signs(calls[w[1]])'
      OBVIOUS
    <3>1. w[2] \in 1..lastNonce /\ w[1] \in Calls /\ Signs(calls[w[1]])
      BY <1>2, <1>5 DEF SignedInv, TypedInv, NonceInv
    <3>2. calls'[w[1]].op = calls[w[1]].op
      BY <1>3, <1>4, <3>1
    <3> QED
      BY <1>1, <3>1, <3>2 DEF Signs, signing, venue
  <2> QED
    BY <1>1, <1>7, <2>1 DEF SignedInv, NonceInv
<1>9. LoneInv'
  <2>1. \A d \in Calls : calls'[d].lone = calls[d].lone /\ (Busy(calls'[d]) => Busy(calls[d]))
    BY <1>1, <1>3, <1>4 DEF Busy
  <2>2. \A d \in Calls : LoneOK(d, calls[d])'
    <3> SUFFICES ASSUME NEW d \in Calls, calls[d].lone PROVE LoneOK(d, calls[d])'
      BY <2>1 DEF LoneOK
    <3>1. CASE d = c
      <4>1. LoneOK(c, calls[c]) /\ calls[c].lone
        BY <3>1, CallFacts
      <4>2. Signs(calls[c]) => highest < stamp /\ \A w \in wire : w[2] < stamp
        BY <1>1, <4>1 DEF LoneOK
      <4>3. Signs(calls[c]) => \A w \in wire' : w[2] < stamp \/ (w = <<c, stamp>> /\ highest < stamp)
        BY <1>5, <4>2
      <4>4. Signs(calls[c])' <=> Signs(calls[c])
        BY <1>1, <1>3, <1>4 DEF Signs, signing, venue
      <4> QED
        BY <1>1, <1>3, <1>4, <3>1, <4>1, <4>3, <4>4 DEF LoneOK
    <3>2. CASE d # c
      <4>1. Busy(calls[c])
        BY <1>1 DEF Busy
      <4>2. ~Busy(calls[d]) /\ calls'[d] = calls[d]
        BY <1>4, <3>2, <4>1 DEF SignedInv, LoneInv
      <4> QED
        BY <4>2, CallFacts DEF LoneOK, Busy
    <3> QED
      BY <3>1, <3>2
  <2> QED
    BY <2>1, <2>2 DEF SignedInv, LoneInv
<1>10. ClockInv'
  <2> SUFFICES ASSUME venue # "usdm"
               PROVE  /\ sync.valid => Near(sync.drift + clockOffset, sync.trip + 1)
                      /\ \A d \in Calls : ClockOK(calls[d])'
    BY <1>1 DEF ClockInv, venue, Near
  <2>1. \A d \in Calls : ClockOK(calls'[d])
    BY <1>1, <1>3, <1>4, CallFacts DEF ClockOK, Timed
  <2>2. \A d \in Calls : ClockOK(calls[d])'
    BY <1>1, <2>1 DEF ClockOK, Timed, MeasuredFrom, venue
  <2> QED
    BY <2>2 DEF SignedInv, ClockInv
<1> QED
  BY <1>6, <1>8, <1>9, <1>10 DEF SignedInv

\* A read that is tried again, the exchange reading its clock, and the answer.
LEMMA AnswerSteps ==
  ASSUME SignedInv, NEW c \in Calls, Retry(c) \/ Answer(c)
  PROVE  SignedInv'
<1>1. CASE Retry(c)
  <2> DEFINE tries == calls[c].tries + 1
             unset == -1
             zero == 0
             reset == [calls[c] EXCEPT !.stage = "waiting", !.tries = tries, !.verdict = "none", !.seen = zero]
             call == [reset EXCEPT !.stamp = zero, !.bound = unset, !.server = zero, !.builtAt = zero]
  <2>1. Elsewhere /\ calls' = [calls EXCEPT ![c] = call] /\ calls[c].stage \in {"sent", "served"}
    BY <1>1 DEF Retry, At, Becomes, Elsewhere, clientVars, clockVars, netVars
  <2>2. /\ call \in CallStates /\ call.op = calls[c].op /\ call.lone = calls[c].lone /\ call.verdict = "none"
        /\ call.stage = "waiting" /\ call.bound = unset
    <3>1. calls[c] \in CallStates /\ tries \in Nat /\ unset \in Int /\ zero \in Nat /\ zero \in Int
      BY CallFacts DEF CallStates
    <3> HIDE DEF tries, unset, zero
    <3>2. /\ reset \in CallStates /\ reset.op = calls[c].op /\ reset.lone = calls[c].lone /\ reset.verdict = "none"
          /\ reset.stage = "waiting"
      BY <3>1 DEF CallStates, Stages
    <3> HIDE DEF reset
    <3> QED
      BY <3>1, <3>2 DEF CallStates
  <2> HIDE DEF call
  <2>3. Follows(c, call)
    BY <2>1, <2>2, CallFacts DEF Follows, NonceOK, LoneOK, ClockOK, Busy, Signs, Timed
  <2> QED
    BY <2>1, <2>3, CalmStep
<1>2. CASE Answer(c)
  <2>1. Elsewhere /\ Busy(calls[c])
    BY <1>2 DEF Answer, At, Busy, Elsewhere, clockVars, netVars
  <2>2. \E error \in CallErrors : Ends(c, error)
    BY <1>2 DEF Answer, CallErrors
  <2> QED
    BY <2>1, <2>2, EndStep
<1> QED
  BY <1>1, <1>2

\* The midpoint of a round trip is at most half of it from any instant in it.
LEMMA MidpointIsNear ==
  ASSUME NEW started \in Nat, NEW server \in Nat, NEW end \in Nat, started <= server, server <= end
  PROVE  Near(server - started - ((end - started) \div 2), end - started + 1)
<1> DEFINE half == (end - started) \div 2
<1>1. half \in Int /\ 2 * half <= end - started /\ end - started <= 2 * half + 1
  OBVIOUS
<1> HIDE DEF half
<1>2. 2 * (server - started - half) <= end - started + 1 /\ -(2 * (server - started - half)) <= end - started + 1
  BY <1>1
<1> QED
  BY <1>2 DEF Near, half

\* ServerTime stores what it measured.
LEMMA AnswerTimeStep == ASSUME SignedInv, NEW c \in Calls, AnswerTime(c) PROVE SignedInv'
<1> DEFINE call == Ended(calls[c], "none")
<1>1. /\ UNCHANGED <<scenario, client, lastNonce, now, drift, issued, wire, highest>>
      /\ calls[c].stage = "served" /\ calls' = [calls EXCEPT ![c] = call]
      /\ clockOffset' = calls[c].server - Midpoint(calls[c].started)
      /\ sync' = [trip |-> now - calls[c].builtAt, drift |-> drift,
                  valid |-> calls[c].started.clock - calls[c].started.at = drift]
  BY DEF AnswerTime, At, Ends, Becomes, clientVars, clockVars, netVars
<1>2. Follows(c, call)
  <2>1. "none" \in CallErrors /\ Busy(calls[c])
    BY <1>1 DEF CallErrors, Busy
  <2> QED
    BY <2>1, EndFollows
<1> HIDE DEF call
<1>3. /\ calls \in [Calls -> CallStates] /\ calls' \in [Calls -> CallStates] /\ calls'[c] = call
      /\ \A d \in Calls \ {c} : calls'[d] = calls[d]
  BY <1>1, <1>2 DEF SignedInv, TypedInv, Follows
<1> DEFINE server == calls[c].server
           from == calls[c].started
           built == calls[c].builtAt
<1>4. server \in Nat /\ from.clock \in Int /\ from.at \in Nat /\ built \in Nat /\ now \in Nat /\ drift \in Int
  BY CallFacts DEF CallStates, Instants
<1>5. clockOffset' = server - (from.clock + ((now - from.at) \div 2))
  BY <1>1 DEF Midpoint
<1>6. clockOffset' \in Int /\ sync' \in [trip : Int, drift : Int, valid : BOOLEAN]
  BY <1>1, <1>4, <1>5
<1>7. TypedInv'
  BY <1>1, <1>3, <1>6 DEF SignedInv, TypedInv
<1>8. \A d \in Calls : NonceOK(calls[d])' /\ LoneOK(d, calls[d])'
  <2>1. \A d \in Calls : NonceOK(calls'[d]) /\ LoneOK(d, calls'[d])
    BY <1>2, <1>3, CallFacts DEF Follows
  <2> QED
    BY <1>1, <2>1 DEF NonceOK, LoneOK, Signs, signing, venue
<1>9. NonceInv'
  <2>1. \A w \in wire : w[1] \in Calls /\ Signs(calls[w[1]])'
    <3> SUFFICES ASSUME NEW w \in wire PROVE w[1] \in Calls /\ Signs(calls[w[1]])'
      OBVIOUS
    <3>1. w[1] \in Calls /\ Signs(calls[w[1]])
      BY DEF SignedInv, TypedInv, NonceInv
    <3>2. calls'[w[1]].op = calls[w[1]].op
      BY <1>2, <1>3, <3>1 DEF Follows
    <3> QED
      BY <1>1, <3>1, <3>2 DEF Signs, signing, venue
  <2> QED
    BY <1>1, <1>8, <2>1 DEF SignedInv, NonceInv
<1>10. LoneInv'
  <2>1. \A d \in Calls : calls'[d].lone = calls[d].lone /\ (Busy(calls'[d]) => Busy(calls[d]))
    BY <1>2, <1>3 DEF Follows
  <2> QED
    BY <1>8, <2>1 DEF SignedInv, LoneInv
<1>11. ClockInv'
  <2> SUFFICES ASSUME venue # "usdm" PROVE ClockInv'
    BY <1>1 DEF ClockInv, venue
  <2>1. from.at = built /\ built <= server /\ server <= now
    BY <1>1, CallFacts DEF ClockOK
  <2>2. ASSUME sync'.valid PROVE Near(sync'.drift + clockOffset', sync'.trip + 1)
    <3>1. from.clock - from.at = drift /\ sync'.drift = drift /\ sync'.trip = now - from.at
      BY <1>1, <2>1, <2>2
    <3> DEFINE half == (now - from.at) \div 2
    <3>2. Near(server - from.at - half, now - from.at + 1)
      BY <1>4, <2>1, MidpointIsNear
    <3>3. half \in Int
      BY <1>4
    <3> HIDE DEF half
    <3>4. clockOffset' = server - (from.clock + half)
      BY <1>5 DEF half
    <3> HIDE DEF server, from
    <3>5. drift + clockOffset' = server - from.at - half
      BY <1>4, <3>1, <3>3, <3>4
    <3> QED
      BY <3>1, <3>2, <3>5
  <2>3. \A d \in Calls : ClockOK(calls'[d])
    BY <1>2, <1>3, CallFacts DEF Follows
  <2>4. \A d \in Calls : ClockOK(calls[d])'
    BY <1>1, <2>3 DEF ClockOK, Timed, MeasuredFrom, venue
  <2> QED
    BY <2>2, <2>4 DEF ClockInv, Near
<1> QED
  BY <1>7, <1>9, <1>10, <1>11 DEF SignedInv

\* What the invariant says of a call depends on these parts of it only.
LEMMA SameNonce ==
  ASSUME NEW a, NEW b, b.op = a.op, b.stage = a.stage, b.seen = a.seen, b.stamp = a.stamp, NonceOK(a)
  PROVE  NonceOK(b)
  BY DEF NonceOK, Signs

LEMMA SameClock ==
  ASSUME NEW a, NEW b, b.op = a.op, b.stage = a.stage, b.bound = a.bound, b.stamp = a.stamp, b.started = a.started,
         b.builtAt = a.builtAt, b.server = a.server, ClockOK(a)
  PROVE  ClockOK(b)
  BY DEF ClockOK, Timed

\* A call begins; calls that were alone may not be any more.
LEMMA BeginStep ==
  ASSUME SignedInv, Elsewhere, NEW c \in Calls, calls[c].stage = "idle",
         NEW call \in CallStates, call.stage \in {"waiting", "done"}, call.verdict = "none", call.bound = -1,
         call.op \in ClientOf[venue].ops,
         NEW lone \in [Calls -> BOOLEAN], \A d \in Calls : lone[d] => calls[d].lone,
         calls' = [d \in Calls |-> IF d = c THEN call ELSE [calls[d] EXCEPT !.lone = lone[d]]],
         call.stage = "waiting" =>
           /\ \A d \in Calls \ {c} : lone[d] => ~Busy(calls[d])
           /\ call.lone => \A d \in Calls : ~Busy(calls[d])
  PROVE  SignedInv'
<1>1. calls \in [Calls -> CallStates]
  BY DEF SignedInv, TypedInv
<1>2. ASSUME NEW d \in Calls \ {c}
      PROVE  /\ calls'[d] \in CallStates /\ calls'[d].lone = lone[d]
             /\ calls'[d].op = calls[d].op /\ calls'[d].stage = calls[d].stage /\ calls'[d].verdict = calls[d].verdict
             /\ calls'[d].stamp = calls[d].stamp /\ calls'[d].seen = calls[d].seen /\ calls'[d].bound = calls[d].bound
             /\ calls'[d].started = calls[d].started /\ calls'[d].builtAt = calls[d].builtAt
             /\ calls'[d].server = calls[d].server
  <2>1. calls[d] \in CallStates /\ lone[d] \in BOOLEAN /\ calls'[d] = [calls[d] EXCEPT !.lone = lone[d]]
    BY <1>1
  <2> QED
    BY <2>1 DEF CallStates
<1>3. calls'[c] = call /\ calls' \in [Calls -> CallStates]
  BY <1>1 DEF CallStates
<1>4. TypedInv'
  BY <1>3 DEF SignedInv, TypedInv, Elsewhere
<1>5. \A d \in Calls : NonceOK(calls[d])' /\ LoneOK(d, calls[d])'
  <2> SUFFICES ASSUME NEW d \in Calls PROVE NonceOK(calls[d])' /\ LoneOK(d, calls[d])'
    OBVIOUS
  <2>1. CASE d = c
    BY <1>3, <2>1 DEF NonceOK, LoneOK, Elsewhere, venue
  <2>2. CASE d # c
    <3>1. NonceOK(calls[d]) /\ LoneOK(d, calls[d]) /\ (calls'[d].lone => calls[d].lone)
      BY <1>2, <2>2, CallFacts
    <3>2. NonceOK(calls'[d])
      BY <1>2, <2>2, <3>1, SameNonce
    <3>3. LoneOK(d, calls'[d])
      BY <1>2, <2>2, <3>1 DEF LoneOK, Signs
    <3> QED
      BY <3>2, <3>3 DEF NonceOK, LoneOK, Signs, Elsewhere, signing, venue
  <2> QED
    BY <2>1, <2>2
<1>6. NonceInv'
  <2>1. \A w \in wire : w[1] \in Calls /\ Signs(calls[w[1]])'
    <3> SUFFICES ASSUME NEW w \in wire PROVE w[1] \in Calls /\ Signs(calls[w[1]])'
      OBVIOUS
    <3>1. w[1] \in Calls /\ Signs(calls[w[1]])
      BY DEF SignedInv, TypedInv, NonceInv
    <3>2. calls[c].op = "none"
      BY CallFacts DEF NonceOK
    <3>3. w[1] # c
      BY <3>1, <3>2 DEF Signs, PrivateOps
    <3> QED
      BY <1>2, <3>1, <3>3 DEF Signs, Elsewhere, signing, venue
  <2> QED
    BY <1>5, <2>1 DEF SignedInv, NonceInv, Elsewhere
<1>7. LoneInv'
  <2> SUFFICES ASSUME NEW d \in Calls, NEW e \in Calls, calls'[d].lone, Busy(calls'[d]), Busy(calls'[e])
               PROVE  d = e
    BY <1>5 DEF LoneInv
  <2>1. CASE d # c /\ e # c
    BY <1>2, <2>1 DEF SignedInv, LoneInv, Busy
  <2>2. CASE d = c \/ e = c
    <3>1. call.stage = "waiting"
      BY <1>3, <2>2 DEF Busy
    <3> QED
      BY <1>2, <1>3, <2>2, <3>1 DEF Busy
  <2> QED
    BY <2>1, <2>2
<1>8. ClockInv'
  <2> SUFFICES ASSUME venue # "usdm"
               PROVE  /\ sync.valid => Near(sync.drift + clockOffset, sync.trip + 1)
                      /\ \A d \in Calls : ClockOK(calls[d])'
    BY DEF ClockInv, Elsewhere, venue, Near
  <2>1. ClockOK(calls'[c])
    BY <1>3 DEF ClockOK
  <2>2. ASSUME NEW d \in Calls \ {c} PROVE ClockOK(calls'[d])
    <3>1. ClockOK(calls[d])
      BY CallFacts
    <3> QED
      BY <1>2, <2>2, <3>1, SameClock
  <2>3. \A d \in Calls : ClockOK(calls'[d])
    BY <2>1, <2>2
  <2>4. \A d \in Calls : ClockOK(calls[d])'
    BY <2>3 DEF ClockOK, Timed, MeasuredFrom, Elsewhere, venue
  <2> QED
    BY <2>4 DEF SignedInv, ClockInv
<1> QED
  BY <1>4, <1>6, <1>7, <1>8 DEF SignedInv

LEMMA IdleFacts ==
  /\ Idle \in CallStates /\ Idle.op = "none" /\ Idle.stage = "idle" /\ Idle.lone = FALSE
  /\ Idle.verdict = "none" /\ Idle.bound = -1
<1>1. "none" \in CallOps
  BY DEF CallOps
<1>2. "none" \in CallErrors
  BY DEF CallErrors
<1>3. "idle" \in Stages /\ NoInstant \in Instants
  BY DEF Stages, NoInstant, Instants
<1> QED
  BY <1>1, <1>2, <1>3 DEF Idle, CallStates

LEMMA StartStep == ASSUME SignedInv, NEW c \in Calls, Start(c) PROVE SignedInv'
<1>1. Elsewhere /\ calls[c].stage = "idle"
  BY DEF Start, At, Elsewhere, clientVars, clockVars, netVars
<1>2. PICK op \in scenario.ops \cap ClientOf[venue].ops :
        LET begun == [Idle EXCEPT !.op = op, !.stage = "waiting", !.lone = \A d \in Calls : ~Active(d),
                                  !.started = IF op = "time" /\ MeasuredFrom = "call" THEN Instant ELSE NoInstant]
            refused == PreflightError(op)
        IN IF refused # "none" THEN Becomes(c, Ended(begun, refused)) /\ UNCHANGED rules
           ELSE /\ rules' = Charged(op)
                /\ calls' = [d \in Calls |->
                     IF d = c THEN IF TooDear(op) THEN Ended(begun, "too dear") ELSE begun
                     ELSE [calls[d] EXCEPT !.lone = @ /\ ~Active(d)]]
  BY DEF Start
<1> DEFINE alone == \A d \in Calls : ~Active(d)
           start == IF op = "time" /\ MeasuredFrom = "call" THEN Instant ELSE NoInstant
           begun == [Idle EXCEPT !.op = op, !.stage = "waiting", !.lone = alone, !.started = start]
           refused == PreflightError(op)
           lone == [d \in Calls |-> calls[d].lone /\ ~Active(d)]
<1>3. calls \in [Calls -> CallStates] /\ now \in Nat /\ drift \in Int
  BY DEF SignedInv, TypedInv
<1>4. op \in CallOps
  BY DEF SignedInv, TypedInv, CallOps
<1>5. alone \in BOOLEAN /\ start \in Instants
  BY <1>3 DEF Instants, Instant, NoInstant
<1>6. refused \in CallErrors
  BY DEF PreflightError, CallErrors
<1>7. IF refused # "none" THEN calls' = [calls EXCEPT ![c] = Ended(begun, refused)]
      ELSE calls' = [d \in Calls |->
                     IF d = c THEN IF TooDear(op) THEN Ended(begun, "too dear") ELSE begun
                     ELSE [calls[d] EXCEPT !.lone = @ /\ ~Active(d)]]
  BY <1>2 DEF Becomes
<1> HIDE DEF alone, start, refused
<1>8. /\ begun \in CallStates /\ begun.stage = "waiting" /\ begun.lone = alone
      /\ begun.verdict = "none" /\ begun.bound = -1 /\ begun.op = op
  BY <1>4, <1>5, IdleFacts DEF CallStates, Stages
<1> HIDE DEF begun
<1>9. CASE refused # "none"
  <2> DEFINE call == Ended(begun, refused)
             same == [d \in Calls |-> calls[d].lone]
  <2>1. call \in CallStates /\ call.stage = "done" /\ call.verdict = "none" /\ call.bound = -1 /\ call.op = op
    BY <1>6, <1>8, EndedFacts
  <2>2. calls' = [calls EXCEPT ![c] = call]
    BY <1>7, <1>9
  <2> HIDE DEF call
  <2>3. \A d \in Calls : [calls[d] EXCEPT !.lone = same[d]] = calls[d]
    BY <1>3 DEF CallStates
  <2>4. calls' = [d \in Calls |-> IF d = c THEN call ELSE [calls[d] EXCEPT !.lone = same[d]]]
    BY <1>3, <2>2, <2>3
  <2>5. same \in [Calls -> BOOLEAN] /\ \A d \in Calls : same[d] => calls[d].lone
    BY <1>3 DEF CallStates
  <2> HIDE DEF same
  <2> QED
    BY <1>1, <2>1, <2>4, <2>5, BeginStep
<1>10. CASE refused = "none"
  <2> DEFINE call == IF TooDear(op) THEN Ended(begun, "too dear") ELSE begun
  <2>1. /\ call \in CallStates /\ call.stage \in {"waiting", "done"} /\ call.verdict = "none" /\ call.bound = -1
        /\ call.lone = alone /\ call.op = op
    <3>1. "too dear" \in CallErrors
      BY DEF CallErrors
    <3> QED
      BY <1>8, <3>1, EndedFacts
  <2>2. calls' = [d \in Calls |-> IF d = c THEN call ELSE [calls[d] EXCEPT !.lone = calls[d].lone /\ ~Active(d)]]
    BY <1>7, <1>10
  <2> HIDE DEF call
  <2>3. calls' = [d \in Calls |-> IF d = c THEN call ELSE [calls[d] EXCEPT !.lone = lone[d]]]
    BY <2>2
  <2>4. lone \in [Calls -> BOOLEAN] /\ \A d \in Calls : lone[d] => calls[d].lone /\ ~Busy(calls[d])
    BY <1>3 DEF CallStates, Active, Busy
  <2>5. alone => \A d \in Calls : ~Busy(calls[d])
    BY DEF alone, Active, Busy
  <2> HIDE DEF lone
  <2> QED
    BY <1>1, <2>1, <2>3, <2>4, <2>5, BeginStep
<1> QED
  BY <1>9, <1>10

\* A request arrives at the exchange.
LEMMA ArriveStep == ASSUME SignedInv, Arrive PROVE SignedInv'
<1>1. UNCHANGED <<scenario, client, lastNonce, clockOffset, now, drift, issued, sync>>
  BY DEF Arrive, clientVars, clockVars
<1>2. PICK w \in wire :
        /\ wire' = wire \ {w}
        /\ highest' = IF w[2] > highest THEN w[2] ELSE highest
        /\ calls' = IF At(w[1], "sent") /\ calls[w[1]].stamp = w[2]
                    THEN [calls EXCEPT ![w[1]].verdict = IF w[2] > highest THEN "accepted" ELSE "stale"] ELSE calls
  BY DEF Arrive
<1> DEFINE c == w[1]
           n == w[2]
           verdict == IF n > highest THEN "accepted" ELSE "stale"
           own == At(c, "sent") /\ calls[c].stamp = n
           call == [calls[c] EXCEPT !.verdict = verdict]
<1>3. /\ calls \in [Calls -> CallStates] /\ lastNonce \in Nat /\ highest \in Nat /\ highest <= lastNonce
      /\ c \in Calls /\ n \in Nat /\ n <= lastNonce /\ Signs(calls[c]) /\ w = <<c, n>>
      /\ wire \subseteq Calls \X Nat
  BY <1>2 DEF SignedInv, TypedInv, NonceInv
<1>4. highest' \in Nat /\ highest' <= lastNonce
  BY <1>2, <1>3
<1>5. /\ calls' \in [Calls -> CallStates]
      /\ \A d \in Calls : /\ calls'[d].op = calls[d].op /\ calls'[d].stage = calls[d].stage
                          /\ calls'[d].lone = calls[d].lone /\ calls'[d].stamp = calls[d].stamp
                          /\ calls'[d].seen = calls[d].seen /\ calls'[d].bound = calls[d].bound
                          /\ calls'[d].started = calls[d].started /\ calls'[d].builtAt = calls[d].builtAt
                          /\ calls'[d].server = calls[d].server
                          /\ calls'[d].verdict = IF own /\ d = c THEN verdict ELSE calls[d].verdict
  <2>1. CASE own
    <3>1. calls' = [calls EXCEPT ![c] = call]
      BY <1>2, <2>1
    <3>2. /\ call \in CallStates /\ call.op = calls[c].op /\ call.stage = calls[c].stage
          /\ call.lone = calls[c].lone /\ call.stamp = calls[c].stamp /\ call.seen = calls[c].seen
          /\ call.bound = calls[c].bound /\ call.started = calls[c].started /\ call.builtAt = calls[c].builtAt
          /\ call.server = calls[c].server /\ call.verdict = verdict
      BY <1>3 DEF CallStates
    <3> HIDE DEF call
    <3> QED
      BY <1>3, <2>1, <3>1, <3>2
  <2>2. CASE ~own
    BY <1>2, <1>3, <2>2
  <2> QED
    BY <2>1, <2>2
<1> HIDE DEF call
<1>6. TypedInv'
  BY <1>1, <1>2, <1>4, <1>5 DEF SignedInv, TypedInv
<1>7. \A d \in Calls : NonceOK(calls[d])'
  <2>1. \A d \in Calls : NonceOK(calls'[d])
    BY <1>5, CallFacts DEF NonceOK, Signs
  <2> QED
    BY <1>1, <2>1 DEF NonceOK, Signs, signing, venue
<1>8. NonceInv'
  <2>1. \A x \in wire' : x[2] \in 1..lastNonce /\ Signs(calls[x[1]])'
    <3> SUFFICES ASSUME NEW x \in wire' PROVE x[2] \in 1..lastNonce /\ Signs(calls[x[1]])'
      OBVIOUS
    <3>1. x[1] \in Calls /\ x[2] \in 1..lastNonce /\ Signs(calls[x[1]])
      BY <1>2 DEF SignedInv, TypedInv, NonceInv
    <3> QED
      BY <1>1, <1>5, <3>1 DEF Signs, signing, venue
  <2> QED
    BY <1>1, <1>4, <1>7, <2>1 DEF SignedInv, NonceInv
<1>9. LoneInv'
  <2>1. \A d \in Calls : LoneOK(d, calls[d])'
    <3> SUFFICES ASSUME NEW d \in Calls, calls[d].lone PROVE LoneOK(d, calls[d])'
      BY <1>5 DEF LoneOK
    <3>1. LoneOK(d, calls[d]) /\ calls[d].stamp \in Int
      BY <1>3, CallFacts DEF CallStates
    <3>2. Signs(calls[d])' <=> Signs(calls[d])
      BY <1>1, <1>5 DEF Signs, signing, venue
    <3>3. calls[d].stage \in {"signing", "signed"} /\ Signs(calls[d]) =>
            highest' < calls[d].stamp /\ \A x \in wire' : x[2] < calls[d].stamp
      BY <1>2, <3>1 DEF LoneOK
    <3>4. ASSUME calls[d].stage = "sent", Signs(calls[d]), NEW x \in wire'
          PROVE  x[2] < calls[d].stamp \/ (x = <<d, calls[d].stamp>> /\ highest' < calls[d].stamp)
      <4>1. x[2] < calls[d].stamp \/ (x = <<d, calls[d].stamp>> /\ highest < calls[d].stamp)
        BY <1>2, <3>1, <3>4 DEF LoneOK
      <4>2. n < calls[d].stamp \/ w = <<d, calls[d].stamp>>
        BY <1>2, <3>1, <3>4 DEF LoneOK
      <4>3. x # w
        BY <1>2
      <4> QED
        BY <1>2, <1>3, <3>1, <4>1, <4>2, <4>3
    <3>5. calls'[d].verdict # "stale"
      <4>1. CASE own /\ d = c
        <5>1. w = <<d, calls[d].stamp>> /\ calls[d].stage = "sent"
          BY <1>3, <4>1 DEF At
        <5>2. n < calls[d].stamp \/ highest < calls[d].stamp
          BY <1>2, <1>3, <3>1, <4>1, <5>1 DEF LoneOK
        <5>3. highest < n
          BY <1>3, <4>1, <5>2
        <5> QED
          BY <1>3, <1>5, <4>1, <5>3
      <4>2. CASE ~(own /\ d = c)
        BY <1>5, <3>1, <4>2 DEF LoneOK
      <4> QED
        BY <4>1, <4>2
    <3> QED
      BY <1>5, <3>2, <3>3, <3>4, <3>5 DEF LoneOK
  <2> QED
    BY <1>5, <2>1 DEF SignedInv, LoneInv, Busy
<1>10. ClockInv'
  <2> SUFFICES ASSUME venue # "usdm"
               PROVE  /\ sync.valid => Near(sync.drift + clockOffset, sync.trip + 1)
                      /\ \A d \in Calls : ClockOK(calls[d])'
    BY <1>1 DEF ClockInv, venue, Near
  <2>1. \A d \in Calls : ClockOK(calls'[d])
    BY <1>5, CallFacts DEF ClockOK, Timed
  <2>2. \A d \in Calls : ClockOK(calls[d])'
    BY <1>1, <2>1 DEF ClockOK, Timed, MeasuredFrom, venue
  <2> QED
    BY <2>2 DEF SignedInv, ClockInv
<1> QED
  BY <1>6, <1>8, <1>9, <1>10 DEF SignedInv

\* The exchange reads its clock, after the request was built.
LEMMA ServeTimeStep == ASSUME SignedInv, ServeTime PROVE SignedInv'
<1>1. Elsewhere
  BY DEF ServeTime, Elsewhere, clientVars, clockVars, netVars
<1>2. PICK c \in Calls : /\ calls[c].stage = "sent" /\ Timed(calls[c])
                         /\ calls' = [calls EXCEPT ![c] = [calls[c] EXCEPT !.stage = "served", !.server = now]]
  BY DEF ServeTime, At, Measures, Timed, Becomes
<1> DEFINE call == [calls[c] EXCEPT !.stage = "served", !.server = now]
<1>3. /\ call \in CallStates /\ call.op = calls[c].op /\ call.lone = calls[c].lone /\ call.verdict = calls[c].verdict
      /\ call.stage = "served" /\ call.server = now /\ call.bound = calls[c].bound /\ call.stamp = calls[c].stamp
      /\ call.started = calls[c].started /\ call.builtAt = calls[c].builtAt
  BY CallFacts DEF CallStates, Stages
<1>4. calls' = [calls EXCEPT ![c] = call]
  BY <1>2
<1> HIDE DEF call
<1>5. Follows(c, call)
  BY <1>2, <1>3, CallFacts DEF Follows, NonceOK, LoneOK, ClockOK, Busy, Timed
<1> QED
  BY <1>1, <1>4, <1>5, CalmStep

\* New, the clocks, and steps that change nothing here.
LEMMA TimeStep ==
  ASSUME SignedInv, New \/ Tick \/ StepClock \/ UNCHANGED signedVars
  PROVE  SignedInv'
<1>1. /\ UNCHANGED <<scenario, calls, lastNonce, clockOffset, issued, wire, highest, sync>>
      /\ client' \in {"none", "refused", "ready"} /\ now' \in Nat /\ now <= now' /\ drift' \in Int /\ now \in Nat
  <2>1. now \in Nat /\ drift \in Int /\ scenario.drifts \subseteq Int /\ client \in {"none", "refused", "ready"}
    BY SignedAssumption DEF SignedInv, TypedInv
  <2> QED
    BY <2>1 DEF New, Tick, StepClock, signedVars, clientVars, clockVars, netVars
<1>2. TypedInv'
  BY <1>1 DEF SignedInv, TypedInv
<1>3. NonceInv' /\ LoneInv'
  BY <1>1 DEF SignedInv, NonceInv, NonceOK, LoneInv, LoneOK, Busy, Signs, signing, venue
<1>4. ClockInv'
  <2> SUFFICES ASSUME venue # "usdm"
               PROVE  /\ sync.valid => Near(sync.drift + clockOffset, sync.trip + 1)
                      /\ \A d \in Calls : ClockOK(calls[d])'
    BY <1>1 DEF ClockInv, venue, Near
  <2>1. ASSUME NEW d \in Calls PROVE ClockOK(calls[d])'
    <3>1. ClockOK(calls[d]) /\ calls[d].builtAt \in Nat /\ calls[d].server \in Nat
      BY CallFacts DEF CallStates
    <3> QED
      BY <1>1, <3>1 DEF ClockOK, Timed, MeasuredFrom, venue
  <2> QED
    BY <2>1 DEF SignedInv, ClockInv
<1> QED
  BY <1>2, <1>3, <1>4 DEF SignedInv

LEMMA SignedStart == SignedInit => SignedInv
<1> SUFFICES ASSUME SignedInit PROVE SignedInv
  OBVIOUS
<1>1. /\ scenario \in Scenarios /\ client = "none" /\ calls = [c \in Calls |-> Idle] /\ lastNonce = 0 /\ clockOffset = 0
      /\ now = 0 /\ drift \in scenario.drifts /\ issued = {} /\ wire = {} /\ highest = 0
      /\ sync = [trip |-> 0, drift |-> 0, valid |-> FALSE]
  BY DEF SignedInit
<1>2. \A c \in Calls : calls[c] = Idle
  BY <1>1
<1>3. TypedInv
  <2>1. calls \in [Calls -> CallStates] /\ drift \in Int
    BY <1>1, IdleFacts, SignedAssumption
  <2> QED
    BY <1>1, <2>1 DEF TypedInv
<1>4. NonceInv
  BY <1>1, <1>2, IdleFacts DEF NonceInv, NonceOK
<1>5. LoneInv
  BY <1>2, IdleFacts DEF LoneInv, LoneOK
<1>6. ClockInv
  BY <1>1, <1>2, IdleFacts DEF ClockInv, ClockOK
<1> QED
  BY <1>3, <1>4, <1>5, <1>6 DEF SignedInv

\* A call that stores a nonce has one above all that were handed out.
NonceStep ==
  \A c \in Calls : (calls[c].stage = "swapping" /\ calls'[c].stage = "signing") => \A n \in issued : calls[c].stamp > n

\* Only the step that stores a nonce takes a call from swapping to signing.
LEMMA OtherSteps ==
  ASSUME SignedInv, [SignedNext]_signedVars, ~\E c \in Calls : NonceSwap(c)
  PROVE  \A d \in Calls : calls[d].stage = "swapping" => calls'[d].stage # "signing"
<1>1. calls \in [Calls -> CallStates]
  BY DEF SignedInv, TypedInv
<1>2. ASSUME NEW c \in Calls, calls[c].stage # "swapping", NEW call, calls' = [calls EXCEPT ![c] = call]
      PROVE  \A d \in Calls : calls[d].stage = "swapping" => calls'[d].stage # "signing"
  BY <1>1, <1>2
<1>3. CASE New \/ Tick \/ StepClock \/ UNCHANGED signedVars
  BY <1>3 DEF New, Tick, StepClock, signedVars
<1>4. CASE ServeTime
  BY <1>2, <1>4 DEF ServeTime, At, Becomes
<1>5. CASE Arrive
  <2>1. PICK w \in wire : calls' = calls \/ \E verdict : calls' = [calls EXCEPT ![w[1]].verdict = verdict]
    BY <1>5 DEF Arrive
  <2>2. w[1] \in Calls
    BY DEF SignedInv, TypedInv
  <2>3. ASSUME NEW verdict, calls' = [calls EXCEPT ![w[1]].verdict = verdict], NEW d \in Calls
        PROVE  calls'[d].stage = calls[d].stage
    BY <1>1, <2>2, <2>3 DEF CallStates
  <2> QED
    BY <2>1, <2>3
<1>6. ASSUME NEW c \in Calls, Start(c)
      PROVE  \A d \in Calls : calls[d].stage = "swapping" => calls'[d].stage # "signing"
  <2>1. calls[c].stage = "idle"
    BY <1>6 DEF Start, At
  <2>2. PICK op :
          LET begun == [Idle EXCEPT !.op = op, !.stage = "waiting", !.lone = \A d \in Calls : ~Active(d),
                                    !.started = IF op = "time" /\ MeasuredFrom = "call" THEN Instant ELSE NoInstant]
              refused == PreflightError(op)
          IN IF refused # "none" THEN Becomes(c, Ended(begun, refused))
             ELSE calls' = [d \in Calls |->
                       IF d = c THEN IF TooDear(op) THEN Ended(begun, "too dear") ELSE begun
                       ELSE [calls[d] EXCEPT !.lone = @ /\ ~Active(d)]]
    BY <1>6 DEF Start
  <2> DEFINE begun == [Idle EXCEPT !.op = op, !.stage = "waiting", !.lone = \A d \in Calls : ~Active(d),
                                   !.started = IF op = "time" /\ MeasuredFrom = "call" THEN Instant ELSE NoInstant]
             ended == Ended(begun, PreflightError(op))
             call == IF TooDear(op) THEN Ended(begun, "too dear") ELSE begun
  <2>3. \/ calls' = [calls EXCEPT ![c] = ended]
        \/ calls' = [d \in Calls |-> IF d = c THEN call ELSE [calls[d] EXCEPT !.lone = @ /\ ~Active(d)]]
    BY <2>2 DEF Becomes
  <2> HIDE DEF ended, call
  <2>4. ASSUME calls' = [d \in Calls |-> IF d = c THEN call ELSE [calls[d] EXCEPT !.lone = @ /\ ~Active(d)]],
               NEW d \in Calls, calls[d].stage = "swapping"
        PROVE  calls'[d].stage # "signing"
    BY <1>1, <2>1, <2>4 DEF CallStates
  <2> QED
    BY <1>2, <2>1, <2>3, <2>4
<1>7. ASSUME NEW c \in Calls, CallStep(c)
      PROVE  calls[c].stage # "swapping" /\ \E call : calls' = [calls EXCEPT ![c] = call]
  <2>1. CASE Grant(c) \/ GiveUp(c) \/ BuildPublic(c)
    BY <2>1 DEF Grant, GiveUp, BuildPublic, At, MovesTo, Becomes, Ends
  <2>2. CASE ResolveSecret(c) \/ StampClock(c) \/ StampRandom(c) \/ Sign(c)
    BY <2>2 DEF ResolveSecret, StampClock, StampRandom, Sign, At, MovesTo, Becomes, Ends
  <2>3. CASE ReadClock(c) \/ AddOffset(c) \/ NonceClock(c) \/ NonceLoad(c)
    BY <2>3 DEF ReadClock, AddOffset, NonceClock, NonceLoad, At, Becomes
  <2>4. CASE Send(c) \/ Retry(c) \/ Answer(c) \/ AnswerTime(c)
    BY <2>4 DEF Send, Retry, Answer, AnswerTime, At, Becomes, Ends
  <2> QED
    BY <1>7, <2>1, <2>2, <2>3, <2>4 DEF CallStep
<1>8. ASSUME NEW c \in Calls, CallStep(c)
      PROVE  \A d \in Calls : calls[d].stage = "swapping" => calls'[d].stage # "signing"
  BY <1>2, <1>7, <1>8
<1> QED
  BY <1>3, <1>4, <1>5, <1>6, <1>8 DEF SignedNext

LEMMA SignedStep == SignedInv /\ [SignedNext]_signedVars => SignedInv' /\ NonceStep
<1> SUFFICES ASSUME SignedInv, [SignedNext]_signedVars PROVE SignedInv' /\ NonceStep
  OBVIOUS
<1>1. ASSUME NEW c \in Calls, NonceSwap(c) PROVE SignedInv' /\ NonceStep
  <2>1. SignedInv' /\ (calls'[c].stage = "signing" => \A n \in issued : calls[c].stamp > n)
    BY <1>1, SwapStep
  <2>2. \A d \in Calls \ {c} : calls'[d] = calls[d]
    BY <1>1 DEF NonceSwap, MovesTo, SignedInv, TypedInv
  <2> QED
    BY <2>1, <2>2 DEF NonceStep
<1>2. CASE ~\E c \in Calls : NonceSwap(c)
  <2>1. NonceStep
    BY <1>2, OtherSteps DEF NonceStep
  <2>2. ASSUME NEW c \in Calls, CallStep(c) PROVE SignedInv'
    BY <1>2, <2>2, WaitingSteps, StampSteps, DrawingSteps, SendStep, AnswerSteps, AnswerTimeStep DEF CallStep
  <2>3. SignedInv'
    BY <2>2, StartStep, ArriveStep, ServeTimeStep, TimeStep DEF SignedNext
  <2> QED
    BY <2>1, <2>3
<1> QED
  BY <1>1, <1>2

\* The invariant of the requests of a client.
THEOREM SignedInvariant == SignedSpec => []SignedInv
<1>1. SignedInit => SignedInv
  BY SignedStart
<1>2. SignedInv /\ [SignedNext]_signedVars => SignedInv'
  BY SignedStep
<1> QED
  BY <1>1, <1>2, PTL DEF SignedSpec

\* A call that has its client to itself is never refused for its nonce, and a
\* request signed after ServerTime carries the exchange's time to within half
\* the round trip; except for Binance USD-M, whose ServerTime measures over the
\* wait for the limiter as well (nextNonce, ServerTime, executeSigned).
THEOREM StampsHold == SignedSpec => [](venue # "usdm" => StampsAreAccepted)
<1>1. SignedInv => (venue # "usdm" => StampsAreAccepted)
  <2> SUFFICES ASSUME SignedInv, venue # "usdm", NEW c \in Calls
               PROVE  /\ ~(calls[c].lone /\ calls[c].verdict = "stale")
                      /\ calls[c].bound >= 0 =>
                           LET off == IF calls[c].stamp < 0 THEN -calls[c].stamp ELSE calls[c].stamp
                           IN 2 * off <= calls[c].bound
    BY DEF StampsAreAccepted, LoneCallIsAccepted, SyncedStampIsNear
  <2>1. calls[c].stamp \in Int /\ calls[c].bound \in Int
    BY CallFacts DEF CallStates
  <2>2. calls[c].bound >= 0 => Near(calls[c].stamp, calls[c].bound)
    BY CallFacts DEF ClockOK
  <2>3. ~(calls[c].lone /\ calls[c].verdict = "stale")
    BY CallFacts DEF LoneOK
  <2> QED
    BY <2>1, <2>2, <2>3 DEF Near
<1> QED
  BY <1>1, SignedInvariant, PTL

\* Every nonce handed out is greater than all before it, whatever the local
\* clock does and however many calls draw at once (nextNonce).
THEOREM NoncesGoUp == SignedSpec => NoncesRise
<1>1. SignedInv /\ [SignedNext]_signedVars => [NonceStep]_signedVars
  BY SignedStep
<1>2. SignedSpec => [][NonceStep]_signedVars
  BY <1>1, SignedInvariant, PTL DEF SignedSpec
<1> QED
  BY <1>2 DEF NoncesRise, NonceStep
-----------------------------------------------------------------------------
(* Charges of a client. *)

\* a and b do not set one rule to two limits.
Agree(a, b) == \A x \in a, y \in b : x.key = y.key => x.limit = y.limit

LEMMA ClientOps ==
  /\ ClientOf["okx"].ops = DOMAIN OkxLimits
  /\ ClientOf["bybit"].ops = DOMAIN BybitLimits
  /\ ClientOf["bitget"].ops = DOMAIN BitgetLimits
  /\ ClientOf["binance"].ops = DOMAIN BinanceWeights
  /\ ClientOf["usdm"].ops = DOMAIN UsdmWeights
  /\ ClientOf["coinbase"].ops = CoinbaseOps
  /\ ClientOf["kraken"].ops = KrakenOps
  /\ ClientOf["kraken_futures"].ops = KrakenFuturesOps
  /\ ClientOf["gateio"].ops = GateioOps
  /\ ClientOf["gateio_futures"].ops = GateioOps \cup {"positions"}
  /\ ClientOf["kucoin"].ops = DOMAIN KucoinWeights
  /\ ClientOf["kucoin_futures"].ops = DOMAIN KucoinFuturesWeights
  /\ ClientOf["htx"].ops = HtxOps
  /\ ClientOf["mexc"].ops = DOMAIN MexcWeights
  /\ ClientOf["cryptocom"].ops = CryptocomOps
  /\ ClientOf["korbit"].ops = KorbitOps
  /\ ClientOf["coinone"].ops = UpbitOps
  /\ ClientOf["bithumb"].ops = UpbitOps
  /\ ClientOf["upbit"].ops = UpbitOps
  BY DEF ClientOf, Client, Venues

LEMMA ClientCharges ==
  ASSUME NEW op, NEW q
  PROVE  /\ ChargesOf("okx", op, q) = OkxCharges(op, "BTC", q)
         /\ ChargesOf("bybit", op, q) = BybitCharges(op, "BTC", q)
         /\ ChargesOf("bitget", op, q) = BitgetCharges(op, "BTC", q)
         /\ ChargesOf("binance", op, q) = BinanceCharges(op, "BTC", q)
         /\ ChargesOf("usdm", op, q) = UsdmCharges(op, "BTC", q)
         /\ ChargesOf("coinbase", op, q) = CoinbaseCharges(op, "BTC", q)
         /\ ChargesOf("kraken", op, q) = KrakenCharges(op, "BTC", q)
         /\ ChargesOf("kraken_futures", op, q) = KrakenFuturesCharges(op, "BTC", q)
         /\ ChargesOf("gateio", op, q) = GateioCharges(op, "BTC", q)
         /\ ChargesOf("gateio_futures", op, q) = GateioFuturesCharges(op, "BTC", q)
         /\ ChargesOf("kucoin", op, q) = KucoinCharges(op, "BTC", q)
         /\ ChargesOf("kucoin_futures", op, q) = KucoinFuturesCharges(op, "BTC", q)
         /\ ChargesOf("htx", op, q) = HtxCharges(op, "BTC", q)
         /\ ChargesOf("mexc", op, q) = MexcCharges(op, "BTC", q)
         /\ ChargesOf("cryptocom", op, q) = CryptocomCharges(op, "BTC", q)
         /\ ChargesOf("korbit", op, q) = KorbitCharges(op, "BTC", q)
         /\ ChargesOf("coinone", op, q) = CoinoneCharges(op, "BTC", q)
         /\ ChargesOf("bithumb", op, q) = BithumbCharges(op, "BTC", q)
         /\ ChargesOf("upbit", op, q) = UpbitCharges(op, "BTC", q)
  BY DEF ChargesOf

\* OKX has a rule for each path.
LEMMA OkxAgrees ==
  ASSUME NEW op, NEW oq, NEW q
  PROVE  Agree(OkxCharges(op, "BTC", q), OkxCharges(oq, "BTC", q))
<1> DEFINE Market(o) == IF o \in {"place", "cancel", "query"} THEN "BTC" ELSE ""
           s == Scope(op)
           t == Scope(oq)
           m == Market(op)
           n == Market(oq)
           l == OkxLimits[op]
           k == OkxLimits[oq]
           x == Charge(s, <<op, m>>, 2000, l, 1)
           y == Charge(t, <<oq, n>>, 2000, k, 1)
<1>1. OkxCharges(op, "BTC", q) = {x} /\ OkxCharges(oq, "BTC", q) = {y}
  BY Zenon DEF OkxCharges, One
<1>2. op = oq => l = k
  OBVIOUS
<1> HIDE DEF Market, s, t, m, n, l, k
<1>3. x.key = y.key => x.limit = y.limit
  BY <1>2 DEF Charge
<1> HIDE DEF x, y
<1> QED
  BY <1>1, <1>3 DEF Agree

LEMMA ChargesAgree ==
  ASSUME NEW v \in Venues, NEW op \in ClientOf[v].ops, NEW oq \in ClientOf[v].ops, NEW q
  PROVE  Agree(ChargesOf(v, op, q), ChargesOf(v, oq, q))
<1>1. CASE v = "okx"
  BY <1>1, ClientCharges, OkxAgrees
<1>2. CASE v = "bybit"
  <2>1. op \in DOMAIN BybitLimits /\ oq \in DOMAIN BybitLimits
    BY <1>2, ClientOps
  <2>2. ChargesOf(v, op, q) = BybitCharges(op, "BTC", q) /\ ChargesOf(v, oq, q) = BybitCharges(oq, "BTC", q)
    BY <1>2, ClientCharges
  <2>3. Agree(BybitCharges(op, "BTC", q), BybitCharges(oq, "BTC", q))
    BY <2>1 DEF Agree, BybitCharges, BybitLimits, BybitPath, Scope, One, Charge
  <2> QED
    BY <2>2, <2>3
<1>3. CASE v = "bitget"
  BY <1>3, ClientOps, ClientCharges DEF Agree, BitgetCharges, BitgetLimits, Scope, One, Charge
<1>4. CASE v = "binance"
  BY <1>4, ClientOps, ClientCharges DEF Agree, BinanceCharges, BinanceWeights, Charge
<1>5. CASE v = "usdm"
  BY <1>5, ClientOps, ClientCharges DEF Agree, UsdmCharges, UsdmWeights, Charge
<1>6. CASE v = "coinbase"
  BY <1>6, ClientOps, ClientCharges DEF Agree, CoinbaseCharges, One, Charge
<1>7. CASE v = "kraken"
  BY <1>7, ClientOps, ClientCharges DEF Agree, KrakenCharges, One, Charge
<1>8. CASE v = "kraken_futures"
  BY <1>8, ClientOps, ClientCharges DEF Agree, KrakenFuturesCharges, One, Charge
<1>9. CASE v = "gateio"
  BY <1>9, ClientOps, ClientCharges DEF Agree, GateioCharges, One, Charge
<1>10. CASE v = "gateio_futures"
  BY <1>10, ClientOps, ClientCharges DEF Agree, GateioFuturesCharges, One, Charge
<1>11. CASE v = "kucoin"
  BY <1>11, ClientOps, ClientCharges DEF Agree, KucoinCharges, KucoinWeights, Scope, Charge
<1>12. CASE v = "kucoin_futures"
  BY <1>12, ClientOps, ClientCharges DEF Agree, KucoinFuturesCharges, KucoinFuturesWeights, Scope, Charge
<1>13. CASE v = "htx"
  BY <1>13, ClientOps, ClientCharges DEF Agree, HtxCharges, One, Charge
<1>14. CASE v = "mexc"
  BY <1>14, ClientOps, ClientCharges DEF Agree, MexcCharges, MexcWeights, One, Charge
<1>15. CASE v = "cryptocom"
  BY <1>15, ClientOps, ClientCharges DEF Agree, CryptocomCharges, One, Charge
<1>16. CASE v = "korbit"
  BY <1>16, ClientOps, ClientCharges DEF Agree, KorbitCharges, One, Charge
<1>17. CASE v = "coinone"
  BY <1>17, ClientOps, ClientCharges DEF Agree, CoinoneCharges, One, Charge
<1>18. CASE v = "bithumb"
  BY <1>18, ClientOps, ClientCharges DEF Agree, BithumbCharges, One, Charge
<1>19. CASE v = "upbit"
  BY <1>19, ClientOps, ClientCharges DEF Agree, UpbitCharges, One, Charge
<1> QED
  BY <1>1, <1>2, <1>3, <1>4, <1>5, <1>6, <1>7, <1>8, <1>9, <1>10, <1>11, <1>12, <1>13, <1>14, <1>15, <1>16, <1>17, <1>18, <1>19 DEF Venues

\* The keys that requests of a client are charged on.
KeysOf(v, q) == UNION {{ch.key : ch \in ChargesOf(v, op, q)} : op \in ClientOf[v].ops}

LEMMA ChargedKey ==
  ASSUME NEW v, NEW op \in ClientOf[v].ops, NEW q, NEW ch \in ChargesOf(v, op, q)
  PROVE  ch.key \in KeysOf(v, q)
  BY DEF KeysOf

\* The clients that read limit headers.
Reporters ==
  {"bybit", "bitget", "binance", "usdm", "gateio", "gateio_futures",
   "kucoin", "kucoin_futures", "htx", "korbit", "coinone", "upbit"}

\* How the clients sign.
LEMMA Signing ==
  \A v \in Venues :
    /\ ClientOf[v].signing.refusal \in {"plain", "authentication", "internal"}
    /\ ClientOf[v].signing.reports <=> v \in Reporters
<1>1. /\ OkxRequests.refusal \in {"plain", "authentication", "internal"} /\ ~OkxRequests.reports
      /\ BybitRequests.refusal \in {"plain", "authentication", "internal"} /\ BybitRequests.reports
      /\ BitgetRequests.refusal \in {"plain", "authentication", "internal"} /\ BitgetRequests.reports
      /\ BinanceRequests.refusal \in {"plain", "authentication", "internal"} /\ BinanceRequests.reports
      /\ UsdmRequests.refusal \in {"plain", "authentication", "internal"} /\ UsdmRequests.reports
      /\ CoinbaseRequests.refusal \in {"plain", "authentication", "internal"} /\ ~CoinbaseRequests.reports
      /\ KrakenRequests.refusal \in {"plain", "authentication", "internal"} /\ ~KrakenRequests.reports
      /\ KrakenFuturesRequests.refusal \in {"plain", "authentication", "internal"} /\ ~KrakenFuturesRequests.reports
      /\ GateioRequests.refusal \in {"plain", "authentication", "internal"} /\ GateioRequests.reports
      /\ GateioFuturesRequests.refusal \in {"plain", "authentication", "internal"} /\ GateioFuturesRequests.reports
      /\ KucoinRequests.refusal \in {"plain", "authentication", "internal"} /\ KucoinRequests.reports
      /\ KucoinFuturesRequests.refusal \in {"plain", "authentication", "internal"} /\ KucoinFuturesRequests.reports
      /\ HtxRequests.refusal \in {"plain", "authentication", "internal"} /\ HtxRequests.reports
      /\ MexcRequests.refusal \in {"plain", "authentication", "internal"} /\ ~MexcRequests.reports
      /\ CryptocomRequests.refusal \in {"plain", "authentication", "internal"} /\ ~CryptocomRequests.reports
      /\ KorbitRequests.refusal \in {"plain", "authentication", "internal"} /\ KorbitRequests.reports
      /\ CoinoneRequests.refusal \in {"plain", "authentication", "internal"} /\ CoinoneRequests.reports
      /\ BithumbRequests.refusal \in {"plain", "authentication", "internal"} /\ ~BithumbRequests.reports
      /\ UpbitRequests.refusal \in {"plain", "authentication", "internal"} /\ UpbitRequests.reports
  BY DEF OkxRequests, BybitRequests, BitgetRequests, BinanceRequests, UsdmRequests, CoinbaseRequests, KrakenRequests, KrakenFuturesRequests, GateioRequests, GateioFuturesRequests, KucoinRequests, KucoinFuturesRequests, HtxRequests, MexcRequests, CryptocomRequests, KorbitRequests, CoinoneRequests, BithumbRequests, UpbitRequests
<1>2. /\ ClientOf["okx"].signing = OkxRequests
      /\ ClientOf["bybit"].signing = BybitRequests
      /\ ClientOf["bitget"].signing = BitgetRequests
      /\ ClientOf["binance"].signing = BinanceRequests
      /\ ClientOf["usdm"].signing = UsdmRequests
      /\ ClientOf["coinbase"].signing = CoinbaseRequests
      /\ ClientOf["kraken"].signing = KrakenRequests
      /\ ClientOf["kraken_futures"].signing = KrakenFuturesRequests
      /\ ClientOf["gateio"].signing = GateioRequests
      /\ ClientOf["gateio_futures"].signing = GateioFuturesRequests
      /\ ClientOf["kucoin"].signing = KucoinRequests
      /\ ClientOf["kucoin_futures"].signing = KucoinFuturesRequests
      /\ ClientOf["htx"].signing = HtxRequests
      /\ ClientOf["mexc"].signing = MexcRequests
      /\ ClientOf["cryptocom"].signing = CryptocomRequests
      /\ ClientOf["korbit"].signing = KorbitRequests
      /\ ClientOf["coinone"].signing = CoinoneRequests
      /\ ClientOf["bithumb"].signing = BithumbRequests
      /\ ClientOf["upbit"].signing = UpbitRequests
  BY DEF ClientOf, Client, Venues
<1>3. \A v \in Venues : ClientOf[v].signing.refusal \in {"plain", "authentication", "internal"}
  BY <1>1, <1>2 DEF Venues
<1>4. \A v \in Venues : ClientOf[v].signing.reports <=> v \in Reporters
  BY <1>1, <1>2 DEF Venues, Reporters
<1> QED
  BY <1>3, <1>4

LEMMA LessonsAreCharged ==
  ASSUME NEW v \in Venues, NEW op \in ClientOf[v].ops, NEW q, NEW h, NEW l \in LessonsOf(v, op, q, h)
  PROVE  l.key \in KeysOf(v, q)
<1> DEFINE charges == ChargesOf(v, op, q)
<1>1. v \in Reporters /\ ClientOf[v].signing.reports
  <2>1. ClientOf[v].signing.reports <=> v \in Reporters
    BY Signing
  <2>2. v \notin Reporters => LessonsOf(v, op, q, h) = {}
    BY <2>1 DEF LessonsOf, Reporters
  <2> QED
    BY <2>1, <2>2
<1>2. CASE v \in {"gateio", "gateio_futures", "kucoin", "kucoin_futures", "htx", "korbit", "coinone", "upbit"}
  <2>1. \E ch \in charges : l.key = ch.key
    BY <1>1, <1>2 DEF LessonsOf, GateioObserves, GateioFuturesObserves, KucoinObserves, KucoinFuturesObserves, HtxObserves,
                      KorbitObserves, CoinoneObserves, UpbitObserves, Lesson
  <2> QED
    BY <2>1, ChargedKey
<1>3. CASE v = "bybit"
  <2>1. l \in BybitObserves(op, charges, h) /\ charges = BybitCharges(op, "BTC", q)
    BY <1>1, <1>3, ClientCharges DEF LessonsOf
  <2>2. \E ch \in charges : l.key = ch.key
    BY <2>1 DEF BybitObserves, BybitCharges, Lesson, One, Charge
  <2> QED
    BY <2>2, ChargedKey
<1>4. CASE v = "bitget"
  <2>1. l \in BitgetObserves(op, charges, h) /\ charges = BitgetCharges(op, "BTC", q)
    BY <1>1, <1>4, ClientCharges DEF LessonsOf
  <2>2. \E ch \in charges : l.key = ch.key
    BY <2>1 DEF BitgetObserves, BitgetCharges, Lesson, One, Charge
  <2> QED
    BY <2>2, ChargedKey
<1>5. CASE v = "binance"
  <2>1. l \in BinanceObserves(op, charges, h) /\ op \in ClientOf[v].ops /\ "ticker" \in ClientOf[v].ops
    BY <1>1, <1>5, ClientOps DEF LessonsOf, BinanceWeights
  <2>2. \/ l.key = <<"route", <<"weight">>, 60000>>
        \/ op = "place" /\ l.key \in {<<"account", <<"orders">>, 10000>>, <<"account", <<"orders">>, 86400000>>}
    BY <2>1 DEF BinanceObserves, UsageKeys, Lesson
  <2>3. \/ \E ch \in ChargesOf(v, "ticker", q) : l.key = ch.key
        \/ \E ch \in charges : l.key = ch.key
    <3>1. CASE l.key = <<"route", <<"weight">>, 60000>>
      <4> DEFINE ch == Charge("route", <<"weight">>, 60000, q.weight, 2)
      <4>1. ch \in ChargesOf(v, "ticker", q)
        BY <1>5, ClientCharges DEF BinanceCharges, BinanceWeights, Charge
      <4> QED
        BY <3>1, <4>1 DEF Charge
    <3>2. CASE op = "place" /\ l.key = <<"account", <<"orders">>, 10000>>
      <4> DEFINE ch == Charge("account", <<"orders">>, 10000, q.orders10s, 1)
      <4>1. ch \in charges
        BY <1>5, <3>2, ClientCharges DEF BinanceCharges, Charge
      <4> QED
        BY <3>2, <4>1 DEF Charge
    <3>3. CASE op = "place" /\ l.key = <<"account", <<"orders">>, 86400000>>
      <4> DEFINE ch == Charge("account", <<"orders">>, 86400000, q.orders1d, 1)
      <4>1. ch \in charges
        BY <1>5, <3>3, ClientCharges DEF BinanceCharges, Charge
      <4> QED
        BY <3>3, <4>1 DEF Charge
    <3> QED
      BY <2>2, <3>1, <3>2, <3>3
  <2> QED
    BY <2>1, <2>3, ChargedKey
<1>6. CASE v = "usdm"
  <2>1. l \in UsdmObserves(op, charges, h) /\ op \in ClientOf[v].ops /\ "ticker" \in ClientOf[v].ops
    BY <1>1, <1>6, ClientOps DEF LessonsOf, UsdmWeights
  <2>2. \/ l.key = <<"route", <<"weight">>, 60000>>
        \/ op = "place" /\ l.key \in {<<"account", <<"orders">>, 10000>>, <<"account", <<"orders">>, 60000>>}
    BY <2>1 DEF UsdmObserves, UsageKeys, Lesson
  <2>3. \/ \E ch \in ChargesOf(v, "ticker", q) : l.key = ch.key
        \/ \E ch \in charges : l.key = ch.key
    <3>1. CASE l.key = <<"route", <<"weight">>, 60000>>
      <4> DEFINE ch == Charge("route", <<"weight">>, 60000, q.weight, 1)
      <4>1. ch \in ChargesOf(v, "ticker", q)
        BY <1>6, ClientCharges DEF UsdmCharges, UsdmWeights, Charge
      <4> QED
        BY <3>1, <4>1 DEF Charge
    <3>2. CASE op = "place" /\ l.key = <<"account", <<"orders">>, 10000>>
      <4> DEFINE ch == Charge("account", <<"orders">>, 10000, q.orders10s, 1)
      <4>1. ch \in charges
        BY <1>6, <3>2, ClientCharges DEF UsdmCharges, Charge
      <4> QED
        BY <3>2, <4>1 DEF Charge
    <3>3. CASE op = "place" /\ l.key = <<"account", <<"orders">>, 60000>>
      <4> DEFINE ch == Charge("account", <<"orders">>, 60000, q.orders1m, 1)
      <4>1. ch \in charges
        BY <1>6, <3>3, ClientCharges DEF UsdmCharges, Charge
      <4> QED
        BY <3>3, <4>1 DEF Charge
    <3> QED
      BY <2>2, <3>1, <3>2, <3>3
  <2> QED
    BY <2>1, <2>3, ChargedKey
<1> QED
  BY <1>1, <1>2, <1>3, <1>4, <1>5, <1>6 DEF Reporters

\* Binance's keys do not depend on the limits in force.
LEMMA KeysStay ==
  ASSUME NEW v \in {"binance", "usdm"}, NEW q, NEW r
  PROVE  KeysOf(v, q) \subseteq KeysOf(v, r)
<1>1. ASSUME NEW op \in ClientOf[v].ops, NEW ch \in ChargesOf(v, op, q)
      PROVE  \E other \in ChargesOf(v, op, r) : other.key = ch.key
  <2>1. CASE v = "binance"
    <3> DEFINE orders == IF op = "place" THEN 1 ELSE 0
               All(z) == {Charge("route", <<"weight">>, 60000, z.weight, BinanceWeights[op]),
                          Charge("route", <<"raw">>, 300000, z.raw, 1),
                          Charge("account", <<"orders">>, 10000, z.orders10s, orders),
                          Charge("account", <<"orders">>, 86400000, z.orders1d, orders)}
    <3>1. \A z : ChargesOf(v, op, z) = {x \in All(z) : x.units > 0}
      BY <2>1, ClientCharges DEF BinanceCharges
    <3>2. ch \in All(q) /\ ch.units > 0
      BY <1>1, <3>1
    <3>3. \E other \in All(r) : other.key = ch.key /\ other.units = ch.units
      BY <3>2 DEF Charge
    <3> QED
      BY <3>1, <3>2, <3>3
  <2>2. CASE v = "usdm"
    <3> DEFINE orders == IF op = "place" THEN 1 ELSE 0
               All(z) == {Charge("route", <<"weight">>, 60000, z.weight, UsdmWeights[op]),
                          Charge("account", <<"orders">>, 10000, z.orders10s, orders),
                          Charge("account", <<"orders">>, 60000, z.orders1m, orders)}
    <3>1. \A z : ChargesOf(v, op, z) = {x \in All(z) : x.units > 0}
      BY <2>2, ClientCharges DEF UsdmCharges
    <3>2. ch \in All(q) /\ ch.units > 0
      BY <1>1, <3>1
    <3>3. \E other \in All(r) : other.key = ch.key /\ other.units = ch.units
      BY <3>2 DEF Charge
    <3> QED
      BY <3>1, <3>2, <3>3
  <2> QED
    BY <2>1, <2>2
<1> QED
  BY <1>1 DEF KeysOf

(* The limits of the limiter's rules. *)

\* Until an answer announces other limits, the rules that are set are the ones
\* that every request of the client would set again.
RuleInv ==
  ~announced => \A op \in ClientOf[venue].ops : \A ch \in ChargesOf(venue, op, quotas) :
    ch.key \in DOMAIN rules => ch.limit = rules[ch.key]

\* What a step may do to the rules.
RuleStep == ~announced => \A k \in DOMAIN rules : rules'[k] = rules[k]

\* Only a call that starts sets rules, and only an answer changes quotas.
LEMMA OtherRules ==
  ASSUME [SignedNext]_signedVars, ~\E c \in Calls : Start(c)
  PROVE  UNCHANGED <<rules, scenario>> /\ (~announced' => ~announced /\ quotas' = quotas)
<1>1. CASE New \/ Tick \/ StepClock \/ UNCHANGED signedVars
  BY <1>1 DEF New, Tick, StepClock, signedVars, clientVars
<1>2. CASE ServeTime \/ Arrive
  <2>1. UNCHANGED <<clientVars, rules>>
    BY <1>2, Zenon DEF ServeTime, Arrive
  <2> QED
    BY <2>1 DEF clientVars
<1>3. ASSUME NEW c \in Calls, CallStep(c)
      PROVE  UNCHANGED <<rules, scenario>> /\ (~announced' => ~announced /\ quotas' = quotas)
  <2>1. CASE Grant(c) \/ GiveUp(c) \/ BuildPublic(c)
    BY <2>1 DEF Grant, GiveUp, BuildPublic, clientVars
  <2>2. CASE ResolveSecret(c) \/ StampClock(c) \/ StampRandom(c) \/ Sign(c)
    BY <2>2 DEF ResolveSecret, StampClock, StampRandom, Sign, clientVars
  <2>3. CASE ReadClock(c) \/ AddOffset(c) \/ NonceClock(c) \/ NonceLoad(c) \/ NonceSwap(c)
    BY <2>3 DEF ReadClock, AddOffset, NonceClock, NonceLoad, NonceSwap, clientVars
  <2>4. CASE Send(c) \/ Retry(c) \/ AnswerTime(c)
    BY <2>4 DEF Send, Retry, AnswerTime, clientVars
  <2>5. CASE Answer(c)
    <3>1. UNCHANGED <<rules, scenario>> /\ announced' = (announced \/ quotas' # quotas)
      BY <2>5 DEF Answer
    <3>2. ~announced' => ~announced /\ quotas' = quotas
      BY <3>1, Zenon
    <3> QED
      BY <3>1, <3>2
  <2> QED
    BY <1>3, <2>1, <2>2, <2>3, <2>4, <2>5 DEF CallStep
<1> QED
  BY <1>1, <1>2, <1>3 DEF SignedNext

\* A call sets the rules of its charges, and those agree with the ones there.
LEMMA StartRules ==
  ASSUME SignedInv, RuleInv, NEW c \in Calls, Start(c)
  PROVE  RuleInv' /\ RuleStep
<1>1. UNCHANGED <<scenario, quotas, announced>> /\ venue \in Venues
  BY SignedAssumption DEF Start, clientVars, SignedInv, TypedInv, venue
<1>2. PICK op \in ClientOf[venue].ops : rules' = rules \/ rules' = Charged(op)
  BY DEF Start
<1>3. CASE rules' = rules
  BY <1>1, <1>3 DEF RuleInv, RuleStep, venue
<1>4. CASE rules' = Charged(op)
  <2> DEFINE charges == ChargesOf(venue, op, quotas)
             Key(k) == \E ch \in charges : ch.key = k
             Chosen(k) == CHOOSE ch \in charges : ch.key = k
             keys == {ch.key : ch \in charges}
  <2>1. /\ DOMAIN rules' = DOMAIN rules \cup keys
        /\ \A k \in DOMAIN rules' : rules'[k] = IF Key(k) THEN Chosen(k).limit ELSE rules[k]
    BY <1>4 DEF Charged
  <2>2. \A k : Key(k) => Chosen(k) \in charges /\ Chosen(k).key = k
    OBVIOUS
  <2>3. \A k \in keys : Key(k)
    OBVIOUS
  <2> HIDE DEF Key, Chosen, keys
  <2>4. ASSUME ~announced, NEW oq \in ClientOf[venue].ops, NEW ch \in ChargesOf(venue, oq, quotas), ch.key \in DOMAIN rules'
        PROVE  ch.limit = rules'[ch.key]
    <3>1. CASE Key(ch.key)
      <4>1. Agree(charges, ChargesOf(venue, oq, quotas))
        BY <1>1, ChargesAgree
      <4>2. Chosen(ch.key).limit = ch.limit
        BY <2>2, <3>1, <4>1 DEF Agree
      <4> QED
        BY <2>1, <2>4, <3>1, <4>2
    <3>2. CASE ~Key(ch.key)
      <4>1. ch.key \in DOMAIN rules /\ rules'[ch.key] = rules[ch.key]
        BY <2>1, <2>3, <2>4, <3>2
      <4> QED
        BY <2>4, <4>1 DEF RuleInv
    <3> QED
      BY <3>1, <3>2
  <2>5. RuleInv'
    BY <1>1, <2>4 DEF RuleInv, venue
  <2>6. ASSUME ~announced, NEW k \in DOMAIN rules PROVE rules'[k] = rules[k]
    <3>1. CASE Key(k)
      <4>1. Chosen(k).limit = rules[k]
        BY <2>2, <2>6, <3>1 DEF RuleInv
      <4> QED
        BY <2>1, <3>1, <4>1
    <3>2. CASE ~Key(k)
      BY <2>1, <3>2
    <3> QED
      BY <3>1, <3>2
  <2> QED
    BY <2>5, <2>6 DEF RuleStep
<1> QED
  BY <1>2, <1>3, <1>4

LEMMA RulesStep == SignedInv /\ RuleInv /\ [SignedNext]_signedVars => RuleInv' /\ RuleStep
<1> SUFFICES ASSUME SignedInv, RuleInv, [SignedNext]_signedVars PROVE RuleInv' /\ RuleStep
  OBVIOUS
<1>1. CASE \E c \in Calls : Start(c)
  BY <1>1, StartRules
<1>2. CASE ~\E c \in Calls : Start(c)
  <2>1. UNCHANGED <<rules, scenario>> /\ (~announced' => ~announced /\ quotas' = quotas)
    BY <1>2, OtherRules
  <2>2. RuleInv'
    BY <2>1 DEF RuleInv, venue
  <2> QED
    BY <2>1, <2>2 DEF RuleStep
<1> QED
  BY <1>1, <1>2

\* Nonces rise in the order they are handed out, and as long as no answer has
\* announced other limits no request sets a rule of the limiter to another
\* limit than it has, which would throw its usage away (nextNonce, rateLimitCharges).
THEOREM NothingIsReset == SignedSpec => NothingGoesBack
<1>1. SignedInit => RuleInv
  BY DEF SignedInit, RuleInv
<1>2. SignedInv /\ RuleInv /\ [SignedNext]_signedVars => RuleInv' /\ [RuleStep]_signedVars
  BY RulesStep
<1>3. SignedSpec => [][RuleStep]_signedVars
  BY <1>1, <1>2, SignedInvariant, PTL DEF SignedSpec
<1>4. SignedSpec => RulesAreStable
  BY <1>3 DEF RulesAreStable, RuleStep
<1> QED
  BY <1>4, NoncesGoUp DEF NothingGoesBack

\* What no New can check: Binance, which has no quota to configure, announces no
\* limit below the weight of the dearest request.
AnnouncementsSuffice ==
  /\ \A s \in Scenarios : s.venue \in {"binance", "usdm"} => s.given = 0
  /\ \A n \in Reported : n = 0 \/ n >= 250

\* The configuration of a scenario starves a client whose New checks too little.
Starving(s) == s.venue \in LaxNew /\ s.given # 0 /\ s.given < 10

\* The quotas that hold the dearest request of each client.
Sufficient(v, q) ==
  /\ v \in {"kucoin", "kucoin_futures"} => \A n \in DOMAIN q : q[n] >= 10
  /\ v = "mexc" => q.endpoint >= 10
  /\ v = "binance" => q.weight >= 250 /\ \A n \in DOMAIN q : q[n] >= 1
  /\ v = "usdm" => q.weight >= 40 /\ \A n \in DOMAIN q : q[n] >= 1

LEMMA ClientDefaults ==
  /\ ClientOf["okx"].defaults = NoQuotas
  /\ ClientOf["bybit"].defaults = NoQuotas
  /\ ClientOf["bitget"].defaults = NoQuotas
  /\ ClientOf["binance"].defaults = BinanceDefaults
  /\ ClientOf["usdm"].defaults = UsdmDefaults
  /\ ClientOf["coinbase"].defaults = CoinbaseDefaults
  /\ ClientOf["kraken"].defaults = KrakenDefaults
  /\ ClientOf["kraken_futures"].defaults = KrakenFuturesDefaults
  /\ ClientOf["gateio"].defaults = GateioDefaults
  /\ ClientOf["gateio_futures"].defaults = GateioFuturesDefaults
  /\ ClientOf["kucoin"].defaults = KucoinDefaults
  /\ ClientOf["kucoin_futures"].defaults = KucoinFuturesDefaults
  /\ ClientOf["htx"].defaults = HtxDefaults
  /\ ClientOf["mexc"].defaults = MexcDefaults
  /\ ClientOf["cryptocom"].defaults = CryptocomDefaults
  /\ ClientOf["korbit"].defaults = KorbitDefaults
  /\ ClientOf["coinone"].defaults = CoinoneDefaults
  /\ ClientOf["bithumb"].defaults = BithumbDefaults
  /\ ClientOf["upbit"].defaults = NoQuotas
  BY DEF ClientOf, Client, Venues

LEMMA ChargesFit ==
  ASSUME NEW v \in Venues, NEW q \in [DOMAIN ClientOf[v].defaults -> Int], Accepts(v, q), Sufficient(v, q),
         NEW op \in ClientOf[v].ops, NEW ch \in ChargesOf(v, op, q)
  PROVE  ch.units \in Int /\ ch.limit \in Int /\ ch.units <= ch.limit
<1>1. CASE v = "okx"
  <2> DEFINE limit == OkxLimits[op]
             key == <<op, IF op \in {"place", "cancel", "query"} THEN "BTC" ELSE "">>
  <2>1. limit \in Nat /\ limit >= 1
    BY <1>1, ClientOps DEF OkxLimits
  <2>2. ch \in One(Scope(op), key, 2000, limit)
    <3>1. ch \in OkxCharges(op, "BTC", q)
      BY <1>1, ClientCharges
    <3>2. OkxCharges(op, "BTC", q) = One(Scope(op), key, 2000, limit)
      BY Zenon DEF OkxCharges
    <3> HIDE DEF limit, key
    <3> QED
      BY <3>1, <3>2
  <2> HIDE DEF limit, key
  <2>3. ch.units = 1 /\ ch.limit = limit
    BY <2>2 DEF One, Charge
  <2> QED
    BY <2>1, <2>3
<1>2. CASE v = "bybit"
  BY <1>2, ClientOps, ClientCharges, ClientDefaults DEF BybitCharges, BybitLimits, One, Charge
<1>3. CASE v = "bitget"
  BY <1>3, ClientOps, ClientCharges, ClientDefaults DEF BitgetCharges, BitgetLimits, One, Charge
<1>4. CASE v = "binance"
  BY <1>4, ClientOps, ClientCharges, ClientDefaults DEF BinanceCharges, BinanceDefaults, BinanceWeights, Sufficient, Charge
<1>5. CASE v = "usdm"
  BY <1>5, ClientOps, ClientCharges, ClientDefaults DEF UsdmCharges, UsdmDefaults, UsdmWeights, Sufficient, Charge
<1>6. CASE v = "coinbase"
  BY <1>6, ClientOps, ClientCharges, ClientDefaults DEF Accepts, CoinbaseCharges, CoinbaseAccepts, CoinbaseDefaults, One, Charge
<1>7. CASE v = "kraken"
  BY <1>7, ClientOps, ClientCharges, ClientDefaults DEF Accepts, KrakenCharges, KrakenAccepts, KrakenDefaults, One, Charge
<1>8. CASE v = "kraken_futures"
  BY <1>8, ClientOps, ClientCharges, ClientDefaults DEF Accepts, KrakenFuturesCharges, KrakenFuturesAccepts, KrakenFuturesDefaults, KrakenFuturesCosts, KrakenFuturesOps, PublicOps, One, Charge
<1>9. CASE v = "gateio"
  BY <1>9, ClientOps, ClientCharges, ClientDefaults DEF Accepts, GateioCharges, GateioAccepts, GateioDefaults, One, Charge
<1>10. CASE v = "gateio_futures"
  BY <1>10, ClientOps, ClientCharges, ClientDefaults DEF Accepts, GateioFuturesCharges, GateioFuturesAccepts, GateioFuturesDefaults, One, Charge
<1>11. CASE v = "kucoin"
  BY <1>11, ClientOps, ClientCharges, ClientDefaults DEF KucoinCharges, KucoinDefaults, KucoinWeights, Sufficient, Charge
<1>12. CASE v = "kucoin_futures"
  BY <1>12, ClientOps, ClientCharges, ClientDefaults DEF KucoinFuturesCharges, KucoinFuturesDefaults, KucoinFuturesWeights, Sufficient, Charge
<1>13. CASE v = "htx"
  BY <1>13, ClientOps, ClientCharges, ClientDefaults DEF Accepts, HtxCharges, HtxAccepts, HtxDefaults, HtxOps, PublicOps, One, Charge
<1>14. CASE v = "mexc"
  BY <1>14, ClientOps, ClientCharges, ClientDefaults DEF Accepts, MexcCharges, MexcAccepts, MexcDefaults, MexcWeights, Sufficient, One, Charge
<1>15. CASE v = "cryptocom"
  BY <1>15, ClientOps, ClientCharges, ClientDefaults DEF Accepts, CryptocomCharges, CryptocomAccepts, CryptocomDefaults, One, Charge
<1>16. CASE v = "korbit"
  BY <1>16, ClientOps, ClientCharges, ClientDefaults DEF Accepts, KorbitCharges, KorbitAccepts, KorbitDefaults, One, Charge
<1>17. CASE v = "coinone"
  BY <1>17, ClientOps, ClientCharges, ClientDefaults DEF Accepts, CoinoneCharges, CoinoneAccepts, CoinoneDefaults, One, Charge
<1>18. CASE v = "bithumb"
  BY <1>18, ClientOps, ClientCharges, ClientDefaults DEF Accepts, BithumbCharges, BithumbAccepts, BithumbDefaults, One, Charge
<1>19. CASE v = "upbit"
  BY <1>19, ClientOps, ClientCharges, ClientDefaults DEF UpbitCharges, One, Charge
<1> QED
  BY <1>1, <1>2, <1>3, <1>4, <1>5, <1>6, <1>7, <1>8, <1>9, <1>10, <1>11, <1>12, <1>13, <1>14, <1>15, <1>16, <1>17, <1>18, <1>19 DEF Venues

\* The quotas a client begins with are numbers that its dearest request fits,
\* unless they starve it.
LEMMA DefaultsFit ==
  ASSUME AnnouncementsSuffice, NEW s \in Scenarios
  PROVE  /\ Resolved(ClientOf[s.venue].defaults, s.given) \in [DOMAIN ClientOf[s.venue].defaults -> Int]
         /\ ~Starving(s) => Sufficient(s.venue, Resolved(ClientOf[s.venue].defaults, s.given))
<1> DEFINE v == s.venue
           defaults == ClientOf[v].defaults
           q == Resolved(defaults, s.given)
<1>1. v \in Venues /\ s.given \in Int
  BY SignedAssumption
<1>2. DOMAIN q = DOMAIN defaults /\ \A n \in DOMAIN defaults : q[n] = IF s.given = 0 THEN defaults[n] ELSE s.given
  BY DEF Resolved
<1>3. \A n \in DOMAIN defaults : defaults[n] \in Int
  <2>1. CASE v \in {"okx", "bybit", "bitget", "upbit"}
    BY <2>1, ClientDefaults DEF NoQuotas
  <2>2. CASE v \in {"binance", "usdm", "coinbase", "kraken", "kraken_futures"}
    BY <2>2, ClientDefaults DEF BinanceDefaults, UsdmDefaults, CoinbaseDefaults, KrakenDefaults, KrakenFuturesDefaults
  <2>3. CASE v \in {"gateio", "gateio_futures", "kucoin", "kucoin_futures", "htx"}
    BY <2>3, ClientDefaults DEF GateioDefaults, GateioFuturesDefaults, KucoinDefaults, KucoinFuturesDefaults, HtxDefaults
  <2>4. CASE v \in {"mexc", "cryptocom", "korbit", "coinone", "bithumb"}
    BY <2>4, ClientDefaults DEF MexcDefaults, CryptocomDefaults, KorbitDefaults, CoinoneDefaults, BithumbDefaults
  <2> QED
    BY <1>1, <2>1, <2>2, <2>3, <2>4 DEF Venues
<1>4. q \in [DOMAIN defaults -> Int]
  BY <1>1, <1>3 DEF Resolved
<1>5. ASSUME ~Starving(s) PROVE Sufficient(v, q)
  <2>1. CASE v \in {"kucoin", "kucoin_futures"}
    <3>1. s.given = 0 \/ s.given >= 10
      BY <1>1, <1>5, <2>1 DEF Starving, LaxNew
    <3>2. \A n \in DOMAIN defaults : defaults[n] >= 10
      BY <2>1, ClientDefaults DEF KucoinDefaults, KucoinFuturesDefaults
    <3> HIDE DEF defaults, q
    <3>3. \A n \in DOMAIN q : q[n] >= 10
      BY <1>1, <1>2, <3>1, <3>2
    <3> QED
      BY <2>1, <3>3 DEF Sufficient
  <2>2. CASE v = "mexc"
    <3>1. s.given = 0 \/ s.given >= 10
      BY <1>1, <1>5, <2>2 DEF Starving, LaxNew
    <3>2. "endpoint" \in DOMAIN defaults /\ defaults["endpoint"] = 500
      BY <2>2, ClientDefaults DEF MexcDefaults
    <3> HIDE DEF defaults, q
    <3> QED
      BY <1>1, <1>2, <2>2, <3>1, <3>2 DEF Sufficient
  <2>3. CASE v = "binance"
    <3>1. s.given = 0
      BY <2>3 DEF AnnouncementsSuffice
    <3>2. "weight" \in DOMAIN defaults /\ defaults["weight"] = 6000 /\ \A n \in DOMAIN defaults : defaults[n] >= 1
      BY <2>3, ClientDefaults DEF BinanceDefaults
    <3> HIDE DEF defaults, q
    <3> QED
      BY <1>1, <1>2, <2>3, <3>1, <3>2 DEF Sufficient
  <2>4. CASE v = "usdm"
    <3>1. s.given = 0
      BY <2>4 DEF AnnouncementsSuffice
    <3>2. "weight" \in DOMAIN defaults /\ defaults["weight"] = 2400 /\ \A n \in DOMAIN defaults : defaults[n] >= 1
      BY <2>4, ClientDefaults DEF UsdmDefaults
    <3> HIDE DEF defaults, q
    <3> QED
      BY <1>1, <1>2, <2>4, <3>1, <3>2 DEF Sufficient
  <2>5. CASE v \notin {"kucoin", "kucoin_futures", "mexc", "binance", "usdm"}
    BY <2>5 DEF Sufficient
  <2> QED
    BY <2>1, <2>2, <2>3, <2>4, <2>5
<1> QED
  BY <1>4, <1>5

\* Limits that an answer announces leave room for the dearest request.
LEMMA UpdatesFit ==
  ASSUME AnnouncementsSuffice, NEW v \in {"binance", "usdm"}, NEW q \in [DOMAIN ClientOf[v].defaults -> Int], Sufficient(v, q),
         NEW n \in DOMAIN q, NEW limit \in Reported, NEW r, r = BinanceUpdate(q, n, limit) \/ r = UsdmUpdate(q, n, limit)
  PROVE  r \in [DOMAIN ClientOf[v].defaults -> Int] /\ Sufficient(v, r)
<1>1. r = q \/ (limit >= 250 /\ r = [q EXCEPT ![n] = limit])
  BY SignedAssumption DEF AnnouncementsSuffice, BinanceUpdate, UsdmUpdate
<1>2. CASE r = q
  BY <1>2
<1>3. CASE limit >= 250 /\ r = [q EXCEPT ![n] = limit]
  <2>1. r \in [DOMAIN ClientOf[v].defaults -> Int]
    BY <1>3, SignedAssumption
  <2>2. \A m \in DOMAIN q : r[m] >= 250 \/ r[m] = q[m]
    BY <1>3, SignedAssumption
  <2>3. "weight" \in DOMAIN q
    BY ClientDefaults DEF BinanceDefaults, UsdmDefaults
  <2>4. (\A m \in DOMAIN q : q[m] >= 1) /\ q.weight >= (IF v = "binance" THEN 250 ELSE 40)
    BY DEF Sufficient
  <2>5. \A m \in DOMAIN q : q[m] \in Int /\ r[m] \in Int
    BY <2>1
  <2>6. (\A m \in DOMAIN r : r[m] >= 1) /\ r.weight >= (IF v = "binance" THEN 250 ELSE 40)
    BY <2>1, <2>2, <2>3, <2>4, <2>5
  <2> QED
    BY <2>1, <2>6 DEF Sufficient
<1> QED
  BY <1>1, <1>2, <1>3

\* The quotas in force are numbers that the dearest request fits, New has
\* accepted those of a client in use, what answers told is booked on keys that
\* requests are charged on, and unless the client is starved no request was refused
\* for its price.
BudgetInv ==
  /\ quotas \in [DOMAIN ClientOf[venue].defaults -> Int]
  /\ client = "ready" => Accepts(venue, quotas)
  /\ learned \subseteq KeysOf(venue, quotas)
  /\ ~Starved => Sufficient(venue, quotas) /\ EveryRequestFits

\* No step but the start of a call refuses it for its price.
LEMMA PriceSteps ==
  ASSUME SignedInv, EveryRequestFits, [SignedNext]_signedVars, ~\E c \in Calls : Start(c)
  PROVE  EveryRequestFits'
<1>1. calls \in [Calls -> CallStates] /\ \A d \in Calls : calls[d].error # "too dear"
  BY DEF SignedInv, TypedInv, EveryRequestFits
<1>2. ASSUME NEW c \in Calls, NEW call, call.error # "too dear", calls' = [calls EXCEPT ![c] = call]
      PROVE  EveryRequestFits'
  BY <1>1, <1>2 DEF EveryRequestFits
<1>3. ASSUME NEW c \in Calls, NEW error, error # "too dear", Ends(c, error) PROVE EveryRequestFits'
  <2> DEFINE call == Ended(calls[c], error)
  <2>1. call.error = error /\ calls' = [calls EXCEPT ![c] = call]
    BY <1>3 DEF Ends, Becomes, Ended, Idle
  <2> HIDE DEF call
  <2> QED
    BY <1>2, <1>3, <2>1
<1>4. ASSUME NEW c \in Calls, NEW stage, MovesTo(c, stage) PROVE EveryRequestFits'
  BY <1>1, <1>4 DEF MovesTo, EveryRequestFits, CallStates
<1>5. CASE New \/ Tick \/ StepClock \/ UNCHANGED signedVars
  BY <1>1, <1>5 DEF New, Tick, StepClock, signedVars, EveryRequestFits
<1>6. CASE ServeTime
  <2>1. PICK c \in Calls : calls' = [calls EXCEPT ![c] = [calls[c] EXCEPT !.stage = "served", !.server = now]]
    BY <1>6 DEF ServeTime, Becomes
  <2>2. [calls[c] EXCEPT !.stage = "served", !.server = now].error # "too dear"
    BY <1>1 DEF CallStates
  <2> QED
    BY <1>2, <2>1, <2>2
<1>7. CASE Arrive
  <2>1. PICK w \in wire : calls' = calls \/ \E verdict : calls' = [calls EXCEPT ![w[1]].verdict = verdict]
    BY <1>7 DEF Arrive
  <2>2. w[1] \in Calls
    BY DEF SignedInv, TypedInv
  <2>3. ASSUME NEW verdict, calls' = [calls EXCEPT ![w[1]].verdict = verdict], NEW d \in Calls
        PROVE  calls'[d].error = calls[d].error
    BY <1>1, <2>2, <2>3 DEF CallStates
  <2> QED
    BY <1>1, <2>1, <2>3 DEF EveryRequestFits
<1>8. ASSUME NEW c \in Calls, CallStep(c) PROVE EveryRequestFits'
  <2>1. CASE Grant(c) \/ GiveUp(c)
    BY <1>3, <1>4, <2>1 DEF Grant, GiveUp
  <2>2. CASE ResolveSecret(c) \/ StampClock(c) \/ StampRandom(c)
    BY <1>3, <1>4, <2>2 DEF ResolveSecret, StampClock, StampRandom
  <2>3. CASE Sign(c)
    <3>1. signing.refusal # "too dear"
      BY Signing, SignedAssumption DEF SignedInv, TypedInv, signing, venue
    <3> QED
      BY <1>3, <1>4, <2>3, <3>1 DEF Sign
  <2>4. CASE NonceSwap(c)
    BY <1>4, <2>4 DEF NonceSwap
  <2>5. CASE BuildPublic(c)
    <3> DEFINE started == IF calls[c].op = "time" /\ MeasuredFrom = "build" THEN Instant ELSE calls[c].started
               call == [calls[c] EXCEPT !.stage = "signed", !.builtAt = now, !.started = started]
    <3>1. calls' = [calls EXCEPT ![c] = call]
      BY <2>5 DEF BuildPublic, Becomes
    <3> HIDE DEF started
    <3>2. call.error # "too dear"
      BY <1>1 DEF CallStates
    <3> HIDE DEF call
    <3> QED
      BY <1>2, <3>1, <3>2
  <2>6. CASE ReadClock(c)
    <3> DEFINE call == [calls[c] EXCEPT !.stage = "adding", !.seen = drift]
    <3>1. calls' = [calls EXCEPT ![c] = call] /\ call.error # "too dear"
      BY <1>1, <2>6 DEF ReadClock, Becomes, CallStates
    <3> HIDE DEF call
    <3> QED
      BY <1>2, <3>1
  <2>7. CASE AddOffset(c)
    <3> DEFINE stamp == calls[c].seen + clockOffset
               bound == IF sync.valid /\ sync.drift = calls[c].seen THEN sync.trip + 1 ELSE -1
               call == [calls[c] EXCEPT !.stage = "signing", !.stamp = stamp, !.bound = bound]
    <3>1. calls' = [calls EXCEPT ![c] = call]
      BY <2>7 DEF AddOffset, Becomes
    <3> HIDE DEF stamp, bound
    <3>2. call.error # "too dear"
      BY <1>1 DEF CallStates
    <3> HIDE DEF call
    <3> QED
      BY <1>2, <3>1, <3>2
  <2>8. CASE NonceClock(c)
    <3> DEFINE stamp == Clock
               call == [calls[c] EXCEPT !.stage = "loading", !.stamp = stamp]
    <3>1. calls' = [calls EXCEPT ![c] = call]
      BY <2>8 DEF NonceClock, Becomes
    <3> HIDE DEF stamp
    <3>2. call.error # "too dear"
      BY <1>1 DEF CallStates
    <3> HIDE DEF call
    <3> QED
      BY <1>2, <3>1, <3>2
  <2>9. CASE NonceLoad(c)
    <3> DEFINE stamp == Raised(calls[c].stamp, lastNonce)
               call == [calls[c] EXCEPT !.stage = "swapping", !.seen = lastNonce, !.stamp = stamp]
    <3>1. calls' = [calls EXCEPT ![c] = call]
      BY <2>9 DEF NonceLoad, Becomes
    <3> HIDE DEF stamp
    <3>2. call.error # "too dear"
      BY <1>1 DEF CallStates
    <3> HIDE DEF call
    <3> QED
      BY <1>2, <3>1, <3>2
  <2>10. CASE Send(c)
    <3> DEFINE call == [calls[c] EXCEPT !.stage = "sent"]
    <3>1. calls' = [calls EXCEPT ![c] = call] /\ call.error # "too dear"
      BY <1>1, <2>10 DEF Send, Becomes, CallStates
    <3> HIDE DEF call
    <3> QED
      BY <1>2, <3>1
  <2>11. CASE Retry(c)
    <3> DEFINE tries == calls[c].tries + 1
               zero == 0
               bound == -1
               call == [calls[c] EXCEPT !.stage = "waiting", !.tries = tries, !.verdict = "none", !.seen = zero,
                                        !.stamp = zero, !.bound = bound, !.server = zero, !.builtAt = zero]
    <3>1. calls' = [calls EXCEPT ![c] = call]
      BY <2>11 DEF Retry, Becomes
    <3> HIDE DEF tries, zero, bound
    <3>2. call.error # "too dear"
      BY <1>1 DEF CallStates
    <3> HIDE DEF call
    <3> QED
      BY <1>2, <3>1, <3>2
  <2>12. CASE Answer(c) \/ AnswerTime(c)
    BY <1>3, <2>12 DEF Answer, AnswerTime
  <2> QED
    BY <1>8, <2>1, <2>2, <2>3, <2>4, <2>5, <2>6, <2>7, <2>8, <2>9, <2>10, <2>11, <2>12 DEF CallStep
<1> QED
  BY <1>5, <1>6, <1>7, <1>8 DEF SignedNext

\* A request that starts fits the quotas that New has accepted.
LEMMA StartPrice ==
  ASSUME SignedInv, BudgetInv, ~Starved, NEW c \in Calls, Start(c)
  PROVE  EveryRequestFits'
<1>1. calls \in [Calls -> CallStates] /\ \A d \in Calls : calls[d].error # "too dear"
  BY DEF SignedInv, TypedInv, BudgetInv, EveryRequestFits
<1>2. PICK op \in ClientOf[venue].ops :
        LET begun == [Idle EXCEPT !.op = op, !.stage = "waiting", !.lone = \A d \in Calls : ~Active(d),
                                  !.started = IF op = "time" /\ MeasuredFrom = "call" THEN Instant ELSE NoInstant]
            refused == PreflightError(op)
        IN IF refused # "none" THEN Becomes(c, Ended(begun, refused))
           ELSE calls' = [d \in Calls |->
                     IF d = c THEN IF TooDear(op) THEN Ended(begun, "too dear") ELSE begun
                     ELSE [calls[d] EXCEPT !.lone = @ /\ ~Active(d)]]
  BY DEF Start
<1>3. ~TooDear(op)
  <2>1. venue \in Venues /\ Accepts(venue, quotas)
    BY SignedAssumption DEF SignedInv, TypedInv, BudgetInv, venue, Start
  <2>2. ASSUME NEW ch \in ChargesOf(venue, op, quotas) PROVE ~(ch.units > ch.limit)
    <3>1. ch.units \in Int /\ ch.limit \in Int /\ ch.units <= ch.limit
      BY <2>1, ChargesFit DEF BudgetInv
    <3> QED
      BY <3>1
  <2> QED
    BY <2>2 DEF TooDear
<1> DEFINE started == IF op = "time" /\ MeasuredFrom = "call" THEN Instant ELSE NoInstant
           lone == \A d \in Calls : ~Active(d)
           begun == [Idle EXCEPT !.op = op, !.stage = "waiting", !.lone = lone, !.started = started]
           ended == Ended(begun, PreflightError(op))
<1>4. \/ calls' = [calls EXCEPT ![c] = ended]
      \/ calls' = [d \in Calls |-> IF d = c THEN begun ELSE [calls[d] EXCEPT !.lone = @ /\ ~Active(d)]]
  BY <1>2, <1>3 DEF Becomes
<1>5. ended.error # "too dear"
  BY DEF Ended, Idle, PreflightError
<1> HIDE DEF started, lone
<1>6. begun.error # "too dear"
  BY DEF Idle
<1> HIDE DEF begun, ended
<1>7. ASSUME NEW d \in Calls PROVE [calls[d] EXCEPT !.lone = @ /\ ~Active(d)].error # "too dear"
  BY <1>1 DEF CallStates
<1> QED
  BY <1>1, <1>4, <1>5, <1>6, <1>7 DEF EveryRequestFits

LEMMA AnswerBudget ==
  ASSUME AnnouncementsSuffice, SignedInv, BudgetInv, NEW c \in Calls, Answer(c)
  PROVE  /\ quotas' \in [DOMAIN ClientOf[venue].defaults -> Int]
         /\ ~Starved => Sufficient(venue, quotas')
         /\ client = "ready" => Accepts(venue, quotas')
         /\ learned' \subseteq KeysOf(venue, quotas')
<1>1. venue \in Venues /\ calls[c].op \in ClientOf[venue].ops
  BY SignedAssumption, CallFacts DEF SignedInv, TypedInv, venue, Answer, At, NonceOK
<1>2. learned' \subseteq KeysOf(venue, quotas)
  BY <1>1, LessonsAreCharged DEF BudgetInv, Answer
<1>3. CASE quotas' = quotas
  BY <1>2, <1>3 DEF BudgetInv
<1>4. CASE quotas' # quotas
  <2>1. venue \in {"binance", "usdm"} /\ \E n \in DOMAIN quotas, limit \in Reported :
          quotas' = BinanceUpdate(quotas, n, limit) \/ quotas' = UsdmUpdate(quotas, n, limit)
    BY <1>4 DEF Answer, Updated
  <2>2. quotas' \in [DOMAIN ClientOf[venue].defaults -> Int] /\ Sufficient(venue, quotas')
    BY <2>1, UpdatesFit DEF BudgetInv, Starved, LaxNew
  <2>3. KeysOf(venue, quotas) \subseteq KeysOf(venue, quotas')
    BY <2>1, KeysStay
  <2>4. Accepts(venue, quotas')
    BY <2>1 DEF Accepts
  <2> QED
    BY <1>2, <2>2, <2>3, <2>4
<1> QED
  BY <1>3, <1>4

LEMMA TimeBudget ==
  ASSUME SignedInv, BudgetInv, NEW c \in Calls, AnswerTime(c)
  PROVE  learned' \subseteq KeysOf(venue, quotas)
<1>1. venue \in Venues /\ calls[c].op \in ClientOf[venue].ops /\ calls[c].stage = "served"
  BY SignedAssumption, CallFacts DEF SignedInv, TypedInv, venue, AnswerTime, At, NonceOK
<1>2. "time" \in ClientOf[venue].ops
  <2>1. CASE venue = "usdm"
    BY <2>1, ClientOps DEF UsdmWeights
  <2>2. CASE venue # "usdm"
    BY <1>1, <2>2, CallFacts DEF ClockOK, Timed
  <2> QED
    BY <2>1, <2>2
<1> QED
  BY <1>1, <1>2, LessonsAreCharged DEF BudgetInv, AnswerTime

\* New accepts quotas, answers teach and announce; nothing else matters here.
LEMMA OtherBudgets ==
  ASSUME [SignedNext]_signedVars, ~\E c \in Calls : Answer(c) \/ AnswerTime(c)
  PROVE  /\ UNCHANGED <<scenario, quotas, learned>>
         /\ client' = "ready" => client = "ready" \/ Accepts(venue, quotas)
<1>1. CASE New
  BY <1>1 DEF New
<1>2. CASE Tick \/ StepClock \/ UNCHANGED signedVars
  BY <1>2 DEF Tick, StepClock, signedVars, clientVars
<1>3. CASE ServeTime \/ Arrive
  <2>1. UNCHANGED <<clientVars, learned>>
    BY <1>3, Zenon DEF ServeTime, Arrive
  <2> QED
    BY <2>1 DEF clientVars
<1>4. ASSUME NEW c \in Calls, Start(c) PROVE UNCHANGED <<scenario, client, quotas, learned>>
  BY <1>4 DEF Start, clientVars
<1>5. ASSUME NEW c \in Calls, CallStep(c) PROVE UNCHANGED <<scenario, client, quotas, learned>>
  <2>1. CASE Grant(c) \/ GiveUp(c) \/ BuildPublic(c)
    BY <2>1 DEF Grant, GiveUp, BuildPublic, clientVars
  <2>2. CASE ResolveSecret(c) \/ StampClock(c) \/ StampRandom(c) \/ Sign(c)
    BY <2>2 DEF ResolveSecret, StampClock, StampRandom, Sign, clientVars
  <2>3. CASE ReadClock(c) \/ AddOffset(c) \/ NonceClock(c) \/ NonceLoad(c) \/ NonceSwap(c)
    BY <2>3 DEF ReadClock, AddOffset, NonceClock, NonceLoad, NonceSwap, clientVars
  <2>4. CASE Send(c) \/ Retry(c)
    BY <2>4 DEF Send, Retry, clientVars
  <2> QED
    BY <1>5, <2>1, <2>2, <2>3, <2>4 DEF CallStep
<1> QED
  BY <1>1, <1>2, <1>3, <1>4, <1>5 DEF SignedNext

LEMMA BudgetStep ==
  ASSUME AnnouncementsSuffice, SignedInv, BudgetInv, [SignedNext]_signedVars
  PROVE  BudgetInv'
<1>1. ~Starved => EveryRequestFits'
  <2>1. CASE \E c \in Calls : Start(c)
    BY <2>1, StartPrice
  <2>2. CASE ~\E c \in Calls : Start(c)
    BY <2>2, PriceSteps DEF BudgetInv
  <2> QED
    BY <2>1, <2>2
<1>2. CASE ~\E c \in Calls : Answer(c) \/ AnswerTime(c)
  <2>1. /\ UNCHANGED <<scenario, quotas, learned>>
        /\ client' = "ready" => client = "ready" \/ Accepts(venue, quotas)
    BY <1>2, OtherBudgets
  <2>2. venue' = venue /\ Starved' = Starved
    BY <2>1 DEF venue, Starved
  <2> QED
    BY <1>1, <2>1, <2>2 DEF BudgetInv
<1>3. ASSUME NEW c \in Calls, Answer(c) PROVE BudgetInv'
  <2>1. UNCHANGED <<scenario, client>>
    BY <1>3 DEF Answer
  <2>2. venue' = venue /\ Starved' = Starved
    BY <2>1 DEF venue, Starved
  <2> QED
    BY <1>1, <1>3, <2>1, <2>2, AnswerBudget DEF BudgetInv
<1>4. ASSUME NEW c \in Calls, AnswerTime(c) PROVE BudgetInv'
  <2>1. UNCHANGED <<scenario, client, quotas>>
    BY <1>4 DEF AnswerTime, clientVars
  <2>2. venue' = venue /\ Starved' = Starved
    BY <2>1 DEF venue, Starved
  <2> QED
    BY <1>1, <1>4, <2>1, <2>2, TimeBudget DEF BudgetInv
<1> QED
  BY <1>2, <1>3, <1>4

LEMMA BudgetStart == AnnouncementsSuffice /\ SignedInit => BudgetInv
<1> SUFFICES ASSUME AnnouncementsSuffice, SignedInit PROVE BudgetInv
  OBVIOUS
<1>1. /\ scenario \in Scenarios /\ client = "none" /\ learned = {} /\ calls = [c \in Calls |-> Idle]
      /\ quotas = Resolved(ClientOf[scenario.venue].defaults, scenario.given)
  BY DEF SignedInit
<1>2. EveryRequestFits
  <2>1. Idle.error = "none"
    BY DEF Idle
  <2> QED
    BY <1>1, <2>1 DEF EveryRequestFits
<1>3. quotas \in [DOMAIN ClientOf[venue].defaults -> Int] /\ (~Starved => Sufficient(venue, quotas))
  BY <1>1, DefaultsFit DEF venue, Starved, Starving
<1> QED
  BY <1>1, <1>2, <1>3 DEF BudgetInv

\* Whatever quota is configured: sixteen clients that New has accepted never ask their
\* limiter for more than the whole quota, and MEXC, KuCoin and KuCoin Futures, whose New
\* accepts less than a request weighs, not with quotas from ten; and the usage the
\* answers report is booked on keys that requests are charged on (limits.go, New
\* and the header readers of every client).  Only of the limits Binance announces it is
\* assumed that they hold the dearest request.
THEOREM QuotasAreEnough == AnnouncementsSuffice => (SignedSpec => []QuotasFit)
<1> SUFFICES ASSUME AnnouncementsSuffice PROVE SignedSpec => []QuotasFit
  OBVIOUS
<1>1. SignedInit => BudgetInv
  BY BudgetStart
<1>2. SignedInv /\ BudgetInv /\ [SignedNext]_signedVars => BudgetInv'
  BY BudgetStep
<1>3. SignedInv /\ BudgetInv => QuotasFit
  <2> SUFFICES ASSUME SignedInv, BudgetInv PROVE QuotasFit
    OBVIOUS
  <2>1. SignedTypeOK
    BY CallFacts DEF SignedInv, TypedInv, NonceInv, SignedTypeOK, CallStates, Stages
  <2>2. ReportsReachTheirRule
    BY DEF BudgetInv, ReportsReachTheirRule, KeysOf
  <2> QED
    BY <2>1, <2>2 DEF QuotasFit, BudgetInv, AcceptedQuotasSuffice
<1> QED
  BY <1>1, <1>2, <1>3, SignedInvariant, PTL DEF SignedSpec
=============================================================================
