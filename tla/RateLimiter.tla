---------------------------- MODULE RateLimiter ----------------------------
(***************************************************************************)
(* ratelimit.Limiter over its in-process backend: rolling-window limits    *)
(* shared by concurrent callers of Wait (src/ratelimit/limiter.go).        *)
(*                                                                         *)
(* Time is a counter.  Wait reads the clock before it takes the lock, so   *)
(* the time tryAcquire works with may be older than the clock, by up to    *)
(* MaxLag.  Keys are numbers in the order normalizeCharges sorts them; a   *)
(* caller's charges are a function from keys to units, as combined there.  *)
(***************************************************************************)
EXTENDS Integers, Sequences, FiniteSetsExt

CONSTANTS
  Keys,          \* 1..n, the rule keys
  Callers,       \* goroutines that may call Wait
  ChargeSets,    \* what a caller may ask for: functions from keys to units
  Rules,         \* [limit, window] records SetRule may install
  InitialRules,  \* the rules New was given: a function from keys to Rules
  Observations,  \* values of ObserveUsed
  Durations,     \* values of BlockFor
  MaxLag,        \* bound: how long a goroutine is held between clock and lock
  MaxClock,      \* bound: clock
  MaxAdmin       \* bound: calls of SetRule, ObserveUsed and BlockFor

NoRule == [limit |-> 0, window |-> 0]

ASSUME LimiterAssumption ==
  /\ Keys \subseteq Nat \ {0}
  /\ \A r \in Rules : r.limit \in Nat \ {0} /\ r.window \in Nat \ {0}
  /\ InitialRules \in [Keys -> Rules \cup {NoRule}]
  /\ \A ch \in ChargeSets :
       /\ DOMAIN ch \subseteq Keys /\ DOMAIN ch # {} /\ IsFiniteSet(DOMAIN ch)
       /\ \A k \in DOMAIN ch : ch[k] \in Nat \ {0}
  /\ Observations \subseteq Nat
  /\ Durations \subseteq Nat \ {0}
  /\ MaxLag \in Nat /\ MaxClock \in Nat \ {0} /\ MaxAdmin \in Nat

VARIABLES
  clock,
  rules, buckets,         \* memoryBackend
  wait, charges, now,     \* Wait: control point, charges, its reading of the clock
  waitUntil,              \* when a sleeping caller's timer fires
  log,                    \* history: the charges of each bucket since it was reset
  banned,                 \* history: latest time BlockFor was asked to block to
  standing,               \* history: the same, forgotten when SetRule replaces the rule
  admin                   \* administrative calls so far

backendVars == <<rules, buckets>>
callerVars == <<wait, charges, now, waitUntil>>
historyVars == <<log, banned, standing>>
limiterVars == <<clock, backendVars, callerVars, historyVars, admin>>

EmptyBucket == [events |-> <<>>, used |-> 0, blockedUntil |-> 0]

\* The sum of the units of usage events.
Units(events) ==
  LET sum[i \in 0..Len(events)] == IF i = 0 THEN 0 ELSE sum[i - 1] + events[i].units
  IN sum[Len(events)]

\* A usage event, and a charge as the log keeps it: with the clock when it was booked,
\* and whether a caller was granted it or ObserveUsed added it.
UsageEvents == [at : Nat, units : Nat \ {0}]
LoggedCharges == [at : Nat, units : Nat \ {0}, clock : Nat, granted : BOOLEAN]

WaitPoints == {"idle", "clock", "acquire", "sleep", "granted", "failed", "canceled"}

LimiterTypeOK ==
  /\ clock \in 1..MaxClock
  /\ rules \in [Keys -> Rules \cup {NoRule}]
  /\ buckets \in [Keys -> [events : Seq(UsageEvents), used : Nat, blockedUntil : Nat]]
  /\ wait \in [Callers -> WaitPoints]
  /\ charges \in [Callers -> ChargeSets]
  /\ now \in [Callers -> 0..clock]
  /\ waitUntil \in [Callers -> Nat]
  /\ log \in [Keys -> Seq(LoggedCharges)]
  /\ banned \in [Keys -> Nat] /\ standing \in [Keys -> Nat]
  /\ admin \in Nat

LimiterInit ==
  /\ clock = 1
  /\ rules = InitialRules
  /\ buckets = [k \in Keys |-> EmptyBucket]
  /\ wait = [c \in Callers |-> "idle"]
  /\ charges \in [Callers -> ChargeSets]
  /\ now = [c \in Callers |-> 0]
  /\ waitUntil = [c \in Callers |-> 0]
  /\ log = [k \in Keys |-> <<>>]
  /\ banned = [k \in Keys |-> 0]
  /\ standing = [k \in Keys |-> 0]
  /\ admin = 0
-----------------------------------------------------------------------------
(* The bucket of one rule. *)

\* bucketFor: events leave at the front, up to the first that is still inside the
\* window that ends at t.
BucketFor(b, rule, t) ==
  LET live == {i \in DOMAIN b.events : b.events[i].at + rule.window > t}
      first == IF live = {} THEN Len(b.events) ELSE Min(live) - 1
  IN [events |-> SubSeq(b.events, first + 1, Len(b.events)),
      used |-> b.used - Units(SubSeq(b.events, 1, first)),
      blockedUntil |-> b.blockedUntil]

\* Mutant: the oldest event decides, whatever it frees.
ExpirationOfOldest(events, excess, window) ==
  IF events = <<>> THEN 0 ELSE events[1].at + window

\* eventExpiration: when enough of the oldest events to free the excess will have
\* expired; 0 stands for the zero time.
EventExpiration(events, excess, window) ==
  LET enough == {i \in DOMAIN events : Units(SubSeq(events, 1, i)) >= excess}
  IN IF enough = {} THEN 0 ELSE events[Min(enough)].at + window

\* Mutant: the counter is not moved.
ChargeEventOnly(b, t, units) ==
  [b EXCEPT !.events = Append(@, [at |-> t, units |-> units])]

\* One more usage event, counted.
ChargeBucket(b, t, units) ==
  [events |-> Append(b.events, [at |-> t, units |-> units]),
   used |-> b.used + units,
   blockedUntil |-> b.blockedUntil]

\* The log's entry for a charge booked now.
Logged(at, units, granted) ==
  [at |-> at, units |-> units, clock |-> clock, granted |-> granted]
-----------------------------------------------------------------------------
(* Wait. *)

\* Wait is called, or goes round its loop: it reads the clock.
ReadClock(c) ==
  /\ wait[c] = "clock"
  /\ now' = [now EXCEPT ![c] = clock]
  /\ wait' = [wait EXCEPT ![c] = "acquire"]
  /\ UNCHANGED <<clock, backendVars, charges, waitUntil, historyVars, admin>>

\* The keys tryAcquire looks at, in order, up to the first it refuses.
Refused(c, k) == rules[k] = NoRule \/ charges[c][k] > rules[k].limit
Visited(c) ==
  {k \in DOMAIN charges[c] : \A j \in DOMAIN charges[c] : j <= k => ~Refused(c, j)}

\* The buckets after bucketFor has been called for these keys at the caller's time.
Pruned(c, ks) ==
  [k \in Keys |-> IF k \in ks THEN BucketFor(buckets[k], rules[k], now[c]) ELSE buckets[k]]

\* Mutant: a ban that is over still counts.
BlocksForEver(c, k, b) ==
  LET excess == b.used + charges[c][k] - rules[k].limit
      full == IF excess > 0 THEN EventExpiration(b.events, excess, rules[k].window) ELSE 0
  IN Max({b.blockedUntil, full})

\* Until when key k keeps the caller waiting; 0 if it does not.
Blocks(c, k, b) ==
  LET blocked == IF b.blockedUntil > now[c] THEN b.blockedUntil ELSE 0
      excess == b.used + charges[c][k] - rules[k].limit
      full == IF excess > 0 THEN EventExpiration(b.events, excess, rules[k].window) ELSE 0
  IN Max({blocked, full})

\* tryAcquire refuses charges without a rule, or larger than their limit.
AcquireFails(c) ==
  /\ wait[c] = "acquire"
  /\ Visited(c) # DOMAIN charges[c]
  /\ buckets' = Pruned(c, Visited(c))
  /\ wait' = [wait EXCEPT ![c] = "failed"]
  /\ UNCHANGED <<clock, rules, charges, now, waitUntil, historyVars, admin>>

\* tryAcquire finds a rule without room; the caller sleeps, unless the time it was
\* given is already over, in which case it goes round at once.
AcquireWaits(c) ==
  LET ks == DOMAIN charges[c]
      pruned == Pruned(c, ks)
      until == Max({Blocks(c, k, pruned[k]) : k \in ks})
  IN /\ wait[c] = "acquire"
     /\ Visited(c) = ks
     /\ until # 0
     /\ buckets' = pruned
     /\ waitUntil' = [waitUntil EXCEPT ![c] = until]
     /\ wait' = [wait EXCEPT ![c] = IF until <= clock THEN "clock" ELSE "sleep"]
     /\ UNCHANGED <<clock, rules, charges, now, historyVars, admin>>

\* Mutant: each rule is charged as soon as it has room.
ChargeRoomyKeys(c, ks, pruned) ==
  /\ buckets' = [k \in Keys |-> IF k \in ks /\ Blocks(c, k, pruned[k]) = 0
                                THEN ChargeBucket(pruned[k], now[c], charges[c][k])
                                ELSE pruned[k]]

\* Nothing is charged unless every rule has room; then every rule is.
ChargeAll(c, ks, pruned) ==
  /\ \A k \in ks : Blocks(c, k, pruned[k]) = 0
  /\ buckets' = [k \in Keys |-> IF k \in ks
                                THEN ChargeBucket(pruned[k], now[c], charges[c][k])
                                ELSE pruned[k]]

\* tryAcquire charges every rule and Wait returns.
AcquireGrants(c) ==
  LET ks == DOMAIN charges[c]
  IN /\ wait[c] = "acquire"
     /\ Visited(c) = ks
     /\ ChargeAll(c, ks, Pruned(c, ks))
     /\ log' = [k \in Keys |-> IF k \in ks
                               THEN Append(log[k], Logged(now[c], charges[c][k], TRUE))
                               ELSE log[k]]
     /\ wait' = [wait EXCEPT ![c] = "granted"]
     /\ UNCHANGED <<clock, rules, charges, now, waitUntil, banned, standing, admin>>

\* The timer of a sleeping caller fires.
TimerFires(c) ==
  /\ wait[c] = "sleep"
  /\ clock >= waitUntil[c]
  /\ wait' = [wait EXCEPT ![c] = "clock"]
  /\ UNCHANGED <<clock, backendVars, charges, now, waitUntil, historyVars, admin>>

\* ctx.Done while sleeping: the only place where Wait looks at its context.
WaitCanceled(c) ==
  /\ wait[c] = "sleep"
  /\ wait' = [wait EXCEPT ![c] = "canceled"]
  /\ UNCHANGED <<clock, backendVars, charges, now, waitUntil, historyVars, admin>>

WaitStep(c) ==
  \/ ReadClock(c) \/ AcquireFails(c) \/ AcquireWaits(c) \/ AcquireGrants(c)
  \/ TimerFires(c)
-----------------------------------------------------------------------------
(* Administration, and time. *)

Admin == admin < MaxAdmin /\ admin' = admin + 1

\* SetRule: a changed rule starts with an empty bucket.
SetRule(k, rule) ==
  /\ Admin
  /\ rules' = [rules EXCEPT ![k] = rule]
  /\ IF rules[k] # rule
     THEN /\ buckets' = [buckets EXCEPT ![k] = EmptyBucket]
          /\ log' = [log EXCEPT ![k] = <<>>]
          /\ standing' = [standing EXCEPT ![k] = 0]
     ELSE UNCHANGED <<buckets, log, standing>>
  /\ UNCHANGED <<clock, callerVars, banned>>

\* Mutant: the observed usage replaces the counter without an event.
RaiseCounterOnly(b, used, t) == IF used > b.used THEN [b EXCEPT !.used = used] ELSE b

\* Mutant: a smaller observation lowers the usage.
FollowObservation(b, used, t) == ChargeBucket(b, t, used - b.used)

\* ObserveUsed only ever raises the usage, by an event of the missing units.
Raise(b, used, t) == IF used > b.used THEN ChargeBucket(b, t, used - b.used) ELSE b

ObserveUsed(k, used) ==
  LET pruned == BucketFor(buckets[k], rules[k], clock)
  IN /\ Admin
     /\ rules[k] # NoRule
     /\ buckets' = [buckets EXCEPT ![k] = Raise(pruned, used, clock)]
     /\ log' = IF used > pruned.used
               THEN [log EXCEPT ![k] = Append(@, Logged(clock, used - pruned.used, FALSE))]
               ELSE log
     /\ UNCHANGED <<clock, rules, callerVars, banned, standing>>

\* Mutant: the last instruction wins, even if it is shorter.
BlockOverwrites(b, until) == [b EXCEPT !.blockedUntil = until]

\* A block is never shortened.
Block(b, until) == [b EXCEPT !.blockedUntil = Max({@, until})]

\* BlockFor: all keys must have rules, or none is blocked.
BlockFor(ks, d) ==
  /\ Admin
  /\ \A k \in ks : rules[k] # NoRule
  /\ buckets' = [k \in Keys |-> IF k \in ks THEN Block(buckets[k], clock + d) ELSE buckets[k]]
  /\ banned' = [k \in Keys |-> IF k \in ks THEN Max({banned[k], clock + d}) ELSE banned[k]]
  /\ standing' = [k \in Keys |-> IF k \in ks THEN Max({standing[k], clock + d}) ELSE standing[k]]
  /\ UNCHANGED <<clock, rules, callerVars, log>>

\* Snapshot reports a rule; bucketFor lets expired events go as it does.
Snapshot(k) ==
  /\ rules[k] # NoRule
  /\ buckets' = [buckets EXCEPT ![k] = BucketFor(@, rules[k], clock)]
  /\ UNCHANGED <<clock, rules, callerVars, historyVars, admin>>

\* Time passes, but no goroutine is held longer than MaxLag at the lock.
Tick ==
  /\ clock < MaxClock
  /\ \A c \in Callers : wait[c] = "acquire" => clock - now[c] < MaxLag
  /\ clock' = clock + 1
  /\ UNCHANGED <<backendVars, callerVars, historyVars, admin>>

\* A goroutine calls Wait.
CallWait(c) ==
  /\ wait[c] = "idle"
  /\ wait' = [wait EXCEPT ![c] = "clock"]
  /\ UNCHANGED <<clock, backendVars, charges, now, waitUntil, historyVars, admin>>

LimiterAdmin ==
  \/ \E k \in Keys, r \in Rules : SetRule(k, r)
  \/ \E k \in Keys, used \in Observations : ObserveUsed(k, used)
  \/ \E ks \in SUBSET Keys \ {{}}, d \in Durations : BlockFor(ks, d)

\* The bound on the clock is reached.
TimeIsUp == clock = MaxClock /\ UNCHANGED limiterVars

LimiterNext ==
  \/ \E c \in Callers : CallWait(c) \/ WaitStep(c) \/ WaitCanceled(c)
  \/ \E k \in Keys : Snapshot(k)
  \/ LimiterAdmin \/ Tick \/ TimeIsUp

LimiterSpec == LimiterInit /\ [][LimiterNext]_limiterVars

\* A step of CallWait or WaitStep, told from the others by what it does to wait.
Moves(c) ==
  /\ \/ wait[c] \in {"idle", "clock", "acquire"}
     \/ wait[c] = "sleep" /\ clock >= waitUntil[c]
  /\ \E w \in {"clock", "acquire", "sleep", "granted", "failed"} : wait' = [wait EXCEPT ![c] = w]

\* Callers run, timers fire and time passes; nobody has to administer the limiter or
\* to cancel a wait.
LimiterFairSpec ==
  /\ LimiterSpec
  /\ WF_clock(Tick)
  /\ \A c \in Callers : WF_wait(Moves(c))
-----------------------------------------------------------------------------
(* Properties. *)

\* The counter every decision is taken on is the sum of the events that will free
\* it again: bucketFor, tryAcquire and ObserveUsed keep the two in step.
UsedIsTheEvents == \A k \in Keys : buckets[k].used = Units(buckets[k].events)

\* No rolling window, shortened by the time a goroutine may be held between its
\* clock reading and the lock, ends with a grant and holds more units than the
\* limit, for any mix of callers, charges and observed usage.
WindowLimit ==
  \A k \in Keys : \A i, j \in DOMAIN log[k] :
    (/\ i <= j
     /\ log[k][j].granted
     /\ log[k][j].clock - log[k][i].clock < rules[k].window - MaxLag)
      => Units(SubSeq(log[k], i, j)) <= rules[k].limit

\* The limits hold, and the counters they are decided on are right.
LimitsHold == LimiterTypeOK /\ UsedIsTheEvents /\ WindowLimit

\* What is left of t when some of its oldest elements are gone.
IsRest(s, t) == \E n \in 0..Len(t) : s = SubSeq(t, n + 1, Len(t))

\* A request on several rules is charged on all of them, in one step, or on none.
AllOrNothing ==
  [][\A c \in Callers : wait[c] = "acquire" /\ wait'[c] # "acquire" =>
       LET charged == {k \in Keys : ~IsRest(buckets'[k].events, buckets[k].events)}
       IN charged = IF wait'[c] = "granted" THEN DOMAIN charges[c] ELSE {}]_limiterVars

\* Keys on which this step grants a charge.
NewGrants ==
  {k \in Keys : Len(log'[k]) > Len(log[k]) /\ log'[k][Len(log'[k])].granted}

\* While the exchange's ban on a key lasts, no charge on that key is granted.
BanRespected == [][\A k \in NewGrants : clock >= banned[k]]_limiterVars

\* The same for the bans since SetRule last replaced the rule: bans that overlap are
\* respected to the end of the longest one, in whatever order they arrive.
BanHolds == [][\A k \in NewGrants : clock >= standing[k]]_limiterVars

\* The time a caller is told to wait is exact: at that time all its rules have room,
\* one instant earlier they had not; for a caller, and usage events, that were not
\* held between the clock and the lock.
HeldUnits(events, window, t) ==
  Units([i \in DOMAIN events |->
           [at |-> events[i].at,
            units |-> IF events[i].at + window > t THEN events[i].units ELSE 0]])
HasRoom(c, t, bs) ==
  \A k \in DOMAIN charges[c] :
    /\ bs[k].blockedUntil <= t
    /\ HeldUnits(bs[k].events, rules[k].window, t) + charges[c][k] <= rules[k].limit
InOrder(ks) ==
  \A k \in ks : \A i, j \in DOMAIN buckets[k].events :
    i < j => buckets[k].events[i].at <= buckets[k].events[j].at
WakesWhenRoom ==
  [][\A c \in Callers :
       (wait[c] = "acquire" /\ wait'[c] = "sleep" /\ now[c] = clock /\ InOrder(DOMAIN charges[c])) =>
       /\ HasRoom(c, waitUntil'[c], buckets')
       /\ ~HasRoom(c, waitUntil'[c] - 1, buckets')]_limiterVars

\* The clock's bound comes before the time the caller waits for, or before the first
\* event leaves a bucket in which a later event was booked at an earlier time.
CutShort(c) ==
  \/ waitUntil[c] > MaxClock
  \/ /\ clock = MaxClock
     /\ \E k \in DOMAIN charges[c] :
          ~InOrder({k}) /\ buckets[k].events[1].at + rules[k].window > MaxClock

\* Every call of Wait returns, unless the clock's bound cuts it short: no caller goes
\* round its loop for ever, whatever is observed, banned or replaced meanwhile.
EveryWaitReturns ==
  \A c \in Callers : <>(wait[c] \in {"granted", "failed", "canceled"} \/ CutShort(c))
=============================================================================
