--------------------------- MODULE ManagedProofs ---------------------------
(***************************************************************************)
(* Theorems about ManagedStream: for any subscriptions, limits, portions,  *)
(* number of changes and of connections, the list and the exchange are in  *)
(* step once all is answered (RestoringInStep).  It is not inductive: a    *)
(* connection is quiet only after commands of several origins have been    *)
(* read and answered, so the invariant says of each subscription what the  *)
(* commands and answers under way will still make of it.                   *)
(***************************************************************************)
EXTENDS ManagedStream, SequenceTheorems, FiniteSetTheorems, TLAPS

\* Restoring managers that leave the answers to the application (a refusal ends
\* Kraken's run), and those that match them with pending commands.
Untracked == {"okx", "bybit", "kraken", "krakenFutures", "bitget", "binance", "coinone"}
Tracked == {"gateio", "gateioFutures", "htx", "cryptocom", "binanceUsdm", "korbit"}
Matching == Tracked \cup Private

WireCommands == [id : Nat, op : Ops \cup {"login"}, keys : SUBSET Keys]
WireAnswers ==
  [id : Nat, op : Ops \cup {"login"}, keys : SUBSET Keys, status : {"ok", "error", "anonymous", "mismatch"}]

Pendings == [id : Nat, op : Ops, keys : SUBSET Keys]
Calls ==
  [pc : {"idle", "pick", "record", "send", "write"}, op : Ops, keys : SUBSET Keys, now : SUBSET Keys]
Logins == [asked : BOOLEAN, known : BOOLEAN, authenticated : BOOLEAN]

\* Types; and without a connection, or on a dead one, nothing is under way.
TypedInv ==
  /\ ManagedTypeOK
  /\ nextID \in Nat \ {0}
  /\ call \in Calls
  /\ call.pc = "idle" => call = Idle
  /\ auth \in Logins
  /\ wire \in Seq(WireCommands) /\ answers \in Seq(WireAnswers)
  /\ pending \subseteq Pendings
  /\ venue \in {"kucoin", "kucoinFutures"} /\ call.pc = "record" => nextID > 1
  /\ phase = "snapshot" => venue = "coinbase"
  /\ phase \in {"answered", "activating"} => venue \in Private
  /\ phase \in {"down", "stopped"} => answers = <<>>
  /\ broken \/ phase \in {"down", "stopped"} => wire = <<>> /\ server = {}

\* The subscription will be in force once the exchange has read all commands.
Comes(k) ==
  \/ k \in server /\ \A i \in DOMAIN wire : k \notin wire[i].keys
  \/ \E i \in DOMAIN wire :
       /\ k \in wire[i].keys /\ wire[i].op = "subscribe"
       /\ \A j \in DOMAIN wire : j > i => k \notin wire[j].keys

\* What a change under way has written and not yet recorded.
Written == IF venue = "coinone" /\ call.pc # "record" THEN {} ELSE call.now
Wanted(k) == IF k \in Written THEN call.op = "subscribe" ELSE k \in list

Accepted == \A i \in DOMAIN answers : answers[i].status = "ok"

\* Commands are only ever accepted, or Run ends: what the last one says is what is
\* listed.  Before the hook that holds of what is not listed; the hook writes the rest.
UntrackedInv ==
  venue \in Untracked =>
    /\ venue \notin {"kraken", "krakenFutures"} => Accepted
    /\ ~broken /\ Accepted =>
         \A k \in Keys \ told :
           /\ phase = "connected" => (Comes(k) => Wanted(k))
           /\ phase = "serving" => (Comes(k) <=> Wanted(k))
           /\ phase = "hook" => IF k \in todo THEN k \in list ELSE Comes(k) <=> Wanted(k)

\* A command that has k is pending.
Waits(k) == \E p \in pending : k \in p.keys

\* What the call still has to note, and what it looked at last.
Unnoted == IF call.pc \in {"record", "send"} THEN call.keys \cup call.now ELSE call.keys
Due == IF venue = "binanceUsdm" THEN call.keys ELSE call.now

\* Each subscription waits for one answer at most, and is listed as the command that
\* waits for it wants it.
NotedInv ==
  /\ \A p \in pending : p.keys # {} /\ p.id <= nextID /\ (p.id = nextID => call.pc = "write")
  /\ \A p, q \in pending : p # q => p.id # q.id /\ p.keys \cap q.keys = {}
  /\ \A p \in pending : \A k \in p.keys : k \in list <=> p.op = "subscribe"

\* What a call or the hook is about to write waits for nothing yet.
CallInv ==
  /\ call.keys \cap call.now = {}
  /\ \A k \in Unnoted : ~Waits(k)
  /\ call.pc \in {"record", "send"} => Due # {}
  /\ call.pc = "record" => \A k \in Due : Alters(call.op, k)
  /\ call.pc = "send" => venue # "binanceUsdm" /\ \A k \in call.now : ~Alters(call.op, k)
  /\ call.pc = "write" => Command(nextID, call.op, call.now) \in pending
TodoInv ==
  /\ \A k \in todo : k \in list /\ ~Waits(k)
  /\ phase \notin {"hook", "activating"} => todo = {}

PendingInv == venue \in Matching => NotedInv /\ CallInv /\ TodoInv

\* Command ids are used once, and name the pending command.
OrderInv ==
  venue \in Matching =>
    /\ \A i \in DOMAIN wire : wire[i].id < nextID
    /\ \A i \in DOMAIN answers : answers[i].id < nextID
    /\ \A i \in DOMAIN answers : answers[i].status \in {"ok"} \cup Errors
    /\ \A i, j \in DOMAIN wire : i # j => wire[i].id # wire[j].id
    /\ \A i, j \in DOMAIN answers : i # j => answers[i].id # answers[j].id
    /\ \A i \in DOMAIN answers, j \in DOMAIN wire : answers[i].id # wire[j].id
    /\ \A p \in pending, i \in DOMAIN wire : wire[i].id = p.id => wire[i] = p
    /\ \A p \in pending, i \in DOMAIN answers :
         answers[i].id = p.id => answers[i].op = p.op /\ answers[i].keys = p.keys

\* The list is being restored, or has been, on this connection.
Restored ==
  \/ venue \in Tracked /\ phase \in {"hook", "serving"}
  \/ venue \in Private /\ (phase = "activating" \/ (phase = "serving" /\ auth.authenticated))

\* List and exchange agree on k, and what is left of earlier commands will not
\* change it.  Korbit does not list again what it failed to unsubscribe.
Agreed(k) ==
  /\ k \in list => k \in server
  /\ venue # "korbit" => (k \in server => k \in list)
  /\ \A i \in DOMAIN wire : k \in wire[i].keys => k \notin list /\ wire[i].op = "unsubscribe"

\* A pending command that has k is not written yet, not read, or answered.
Unwritten(k, op) ==
  op = "unsubscribe" => k \in server /\ \A i \in DOMAIN wire : k \notin wire[i].keys
InWire(k, p) ==
  \E i \in DOMAIN wire :
    /\ wire[i].id = p.id
    /\ \A j \in DOMAIN wire : j > i => k \notin wire[j].keys
    /\ p.op = "unsubscribe" => k \in server /\ \A j \in DOMAIN wire : j < i => k \notin wire[j].keys
InAnswers(k, p) ==
  /\ \A i \in DOMAIN wire : k \notin wire[i].keys
  /\ \E i \in DOMAIN answers :
       answers[i].id = p.id /\ (k \in server <=> (answers[i].status = "ok" <=> p.op = "subscribe"))
Awaited(k, p) == (p.id = nextID /\ Unwritten(k, p.op)) \/ InWire(k, p) \/ InAnswers(k, p)

\* The subscription is agreed on or waits for the answer that will decide it.
Right(k) ==
  /\ ~Waits(k) => IF call.pc = "send" /\ k \in call.now THEN Unwritten(k, call.op) ELSE Agreed(k)
  /\ \A p \in pending : k \in p.keys => Awaited(k, p)

AgreementInv == Restored /\ ~broken => \A k \in Keys \ (told \cup todo) : Right(k)

\* Before the hook: what the hook will not write is not in force and will not be.
Free(k) == k \notin server /\ \A i \in DOMAIN wire : k \in wire[i].keys => wire[i].op = "unsubscribe"

ConnectedInv ==
  venue \in Tracked /\ phase = "connected" /\ ~broken =>
    \A k \in Keys \ told : k \notin list \/ ~Waits(k) => Free(k)

NoLogin(s) == \A i \in DOMAIN s : s[i].op # "login"
LoginLast(s) == s # <<>> /\ s[Len(s)].op = "login" /\ \A i \in DOMAIN s : s[i].op = "login" => i = Len(s)

\* The login is written and its answer not yet handled.
Unasked == phase = "connected" \/ (phase = "hook" /\ ~auth.asked)
LoggingIn == (phase = "hook" /\ auth.asked) \/ (phase = "serving" /\ ~auth.authenticated)

\* Private managers note and write nothing before the login is answered.
AuthInv ==
  /\ ~auth.authenticated => pending = {}
  /\ call.pc \in {"send", "write"} => auth.authenticated
  /\ phase \in {"hook", "answered"} => ~auth.authenticated
  /\ phase = "activating" => auth.authenticated
  /\ phase = "connected" => ~auth.asked
  /\ phase \in {"serving", "answered", "activating"} => auth.asked
  /\ phase = "hook" => todo = {}

\* The login is the last command before its answer; afterwards every command and answer
\* under way is a pending one's.
AnsweredInv ==
  /\ Unasked => NoLogin(answers)
  /\ LoggingIn => \A i \in DOMAIN answers : answers[i].op = "login" => i = Len(answers)
  /\ phase = "answered" => wire = <<>> /\ answers = <<>>
  /\ Restored =>
       /\ \A i \in DOMAIN wire : wire[i] \in pending
       /\ \A i \in DOMAIN answers : Command(answers[i].id, answers[i].op, answers[i].keys) \in pending
ClosedInv ==
  ~broken =>
    /\ Unasked \/ LoggingIn \/ phase = "answered" => server = {}
    /\ Unasked => ~auth.known /\ NoLogin(wire)
    /\ LoggingIn => \/ LoginLast(wire) /\ NoLogin(answers) /\ ~auth.known
                    \/ wire = <<>> /\ LoginLast(answers)

LoginInv == venue \in Private => AuthInv /\ AnsweredInv /\ ClosedInv

ManagedInv ==
  TypedInv /\ UntrackedInv /\ PendingInv /\ OrderInv /\ AgreementInv /\ ConnectedInv /\ LoginInv
-----------------------------------------------------------------------------
\* Sequences of commands and answers: one more at the end, one less at the front.
LEMMA Longer ==
  ASSUME NEW S, NEW s \in Seq(S), NEW c \in S
  PROVE  /\ Append(s, c) = s \o <<c>> /\ s \o <<c>> \in Seq(S)
         /\ Len(s \o <<c>>) = Len(s) + 1 /\ DOMAIN (s \o <<c>>) = 1..Len(s) + 1
         /\ \A i \in DOMAIN s : i \in DOMAIN (s \o <<c>>) /\ (s \o <<c>>)[i] = s[i]
         /\ (s \o <<c>>)[Len(s) + 1] = c
<1>1. <<c>> \in Seq(S) /\ Len(<<c>>) = 1 /\ <<c>>[1] = c
  OBVIOUS
<1>2. /\ s \o <<c>> \in Seq(S) /\ Len(s \o <<c>>) = Len(s) + 1
      /\ \A i \in 1..Len(s) + 1 : (s \o <<c>>)[i] = IF i <= Len(s) THEN s[i] ELSE <<c>>[i - Len(s)]
  BY <1>1, ConcatProperties
<1>3. Append(s, c) \in Seq(S) /\ Len(Append(s, c)) = Len(s) + 1
      /\ (\A i \in 1..Len(s) : Append(s, c)[i] = s[i]) /\ Append(s, c)[Len(s) + 1] = c
  BY AppendProperties
<1>4. Append(s, c) = s \o <<c>>
  <2>1. \A i \in 1..Len(s) + 1 : Append(s, c)[i] = (s \o <<c>>)[i]
    BY <1>1, <1>2, <1>3, LenProperties
  <2>2. QED
    BY <1>2, <1>3, <2>1, SeqEqual
<1>5. QED
  BY <1>1, <1>2, <1>4, LenProperties

LEMMA Shorter ==
  ASSUME NEW S, NEW s \in Seq(S), s # <<>>
  PROVE  /\ Head(s) = s[1] /\ s[1] \in S /\ Len(s) \in Nat \ {0} /\ DOMAIN s = 1..Len(s)
         /\ Tail(s) \in Seq(S) /\ Len(Tail(s)) = Len(s) - 1 /\ DOMAIN Tail(s) = 1..Len(s) - 1
         /\ \A i \in 1..Len(s) - 1 : Tail(s)[i] = s[i + 1]
<1>1. Len(s) \in Nat /\ DOMAIN s = 1..Len(s) /\ Len(s) # 0 /\ \A i \in 1..Len(s) : s[i] \in S
  BY EmptySeq, LenProperties, ElementOfSeq
<1>2. Tail(s) \in Seq(S) /\ Len(Tail(s)) = Len(s) - 1 /\ \A i \in 1..Len(Tail(s)) : Tail(s)[i] = s[i + 1]
  BY HeadTailProperties
<1>3. DOMAIN Tail(s) = 1..Len(Tail(s))
  BY <1>2, LenProperties
<1>4. Head(s) = s[1]
  OBVIOUS
<1>5. QED
  BY <1>1, <1>2, <1>3, <1>4
-----------------------------------------------------------------------------
\* Typing: what a call may do to the manager, whatever it is about.
CallKeeps == UNCHANGED <<venue, phase, broken, conns, auth, todo, answers, server>>

LEMMA CallTyped ==
  ASSUME TypedInv, CallKeeps, owner # "hook",
         owner' = IF call'.pc = "idle" THEN "none" ELSE "change",
         call' \in Calls, call'.pc = "idle" => call' = Idle,
         call'.pc = "record" /\ venue \in {"kucoin", "kucoinFutures"} => nextID' > 1,
         changes' \in 0..MaxChanges, nextID' \in {nextID, nextID + 1},
         list' \subseteq Keys, told' \subseteq Keys, wire' \in Seq(WireCommands),
         broken \/ phase \in {"down", "stopped"} => wire' = wire,
         pending' \subseteq Pendings, \A p \in pending' : p.id \in 1..nextID'
  PROVE  TypedInv'
<1>1. ManagedTypeOK'
  BY DEF TypedInv, ManagedTypeOK, Calls, Pendings, CallKeeps
<1>2. nextID' \in Nat \ {0}
  BY DEF TypedInv
<1>3. QED
  BY <1>1, <1>2 DEF TypedInv, Calls, Pendings, Logins, Idle, WireAnswers, CallKeeps

LEMMA BeginTyped ==
  ASSUME TypedInv, NEW op \in Ops, NEW keys \in SUBSET Keys, NEW pc \in {"pick", "write", "record"},
         Begin(op, keys, pc), venue \in {"kucoin", "kucoinFutures"} => pc # "record"
  PROVE  TypedInv'
<1>1. CallKeeps /\ UNCHANGED <<nextID, wire, list, told, pending>>
  BY DEF Begin, CallKeeps, sessionVars, managerVars, wireVars
<1>2. call' \in Calls /\ call'.pc = pc /\ owner' = "change" /\ owner = "none"
  BY DEF Begin, Calls
<1>3. changes' \in 0..MaxChanges
  BY ManagedStreamAssumption DEF Begin, TypedInv, ManagedTypeOK
<1>4. QED
  BY <1>1, <1>2, <1>3, CallTyped DEF TypedInv, ManagedTypeOK

\* A written command: its place on the wire, unless the connection is dead.
Sent(c) == wire' = IF broken THEN wire ELSE wire \o <<c>>

LEMMA SentTyped ==
  ASSUME TypedInv, NEW op \in Ops \cup {"login"}, NEW keys \in SUBSET Keys, Sent(Command(nextID, op, keys))
  PROVE  wire' \in Seq(WireCommands) /\ (broken => wire' = wire)
<1>1. Command(nextID, op, keys) \in WireCommands
  BY DEF TypedInv, Command, WireCommands
<1>2. wire \in Seq(WireCommands)
  BY DEF TypedInv
<1>3. wire \o <<Command(nextID, op, keys)>> \in Seq(WireCommands)
  BY <1>1, <1>2, Longer
<1>4. QED
  BY <1>2, <1>3 DEF Sent

LEMMA WriteSends ==
  ASSUME TypedInv, NEW c, Write(<<c>>)
  PROVE  Installed /\ Sent(c) /\ nextID' = nextID + 1 /\ UNCHANGED <<answers, server>>
BY DEF Write, Sent, TypedInv

LEMMA ApplyTyped ==
  ASSUME NEW op, NEW keys \in SUBSET Keys, NEW to \in SUBSET Keys
  PROVE  Apply(op, keys, to) \subseteq Keys
BY DEF Apply

LEMMA CallFacts ==
  ASSUME TypedInv
  PROVE  /\ call.op \in Ops /\ call.keys \subseteq Keys /\ call.now \subseteq Keys
         /\ list \subseteq Keys /\ told \subseteq Keys /\ Idle \in Calls
         /\ pending \subseteq Pendings /\ (\A p \in pending : p.id \in 1..nextID)
         /\ nextID \in Nat \ {0} /\ wire \in Seq(WireCommands) /\ changes \in 0..MaxChanges
         /\ (owner = "change" <=> call.pc # "idle") /\ owner \in {"none", "change", "hook"}
         /\ \A pc \in {"pick", "record", "send", "write"}, keys \in SUBSET Keys, now \in SUBSET Keys :
              /\ [call EXCEPT !.pc = pc] \in Calls /\ [call EXCEPT !.pc = pc].pc = pc
              /\ [call EXCEPT !.pc = pc, !.keys = keys, !.now = now] \in Calls
              /\ [call EXCEPT !.pc = pc, !.keys = keys, !.now = now].pc = pc
BY DEF TypedInv, ManagedTypeOK, Calls, Idle, Ops


\* A call returns, goes on with the rest, or reaches another point.
Reaches(pc) == call'.pc = pc /\ call' \in Calls /\ UNCHANGED <<owner, told>>

LEMMA StepTyped ==
  ASSUME TypedInv, CallKeeps, call.pc # "idle", UNCHANGED changes,
         \/ \E failed \in SUBSET Keys : Return(failed)
         \/ \E left \in SUBSET Keys : GoOn(left)
         \/ \E pc \in {"pick", "record", "send", "write"} :
              Reaches(pc) /\ (pc = "record" /\ venue \in {"kucoin", "kucoinFutures"} => nextID' > 1),
         list' \subseteq Keys, wire' \in Seq(WireCommands), nextID' \in {nextID, nextID + 1},
         broken \/ phase \in {"down", "stopped"} => wire' = wire,
         pending' \subseteq Pendings, \A p \in pending' : p.id \in 1..nextID'
  PROVE  TypedInv'
<1>1. owner = "change" /\ changes' \in 0..MaxChanges
  BY CallFacts
<1>2. CASE \E failed \in SUBSET Keys : Return(failed)
  <2>1. call' = Idle /\ owner' = "none" /\ told' \subseteq Keys
    BY <1>2, CallFacts DEF Return
  <2>2. call' \in Calls /\ call'.pc = "idle"
    BY <2>1, CallFacts DEF Idle
  <2>3. QED
    BY <1>1, <2>1, <2>2, CallTyped
<1>3. CASE \E left \in SUBSET Keys : GoOn(left)
  <2>1. PICK left \in SUBSET Keys : GoOn(left)
    BY <1>3
  <2>2. CASE left = {}
    BY <1>2, <2>1, <2>2 DEF GoOn
  <2>3. CASE left # {}
    <3>1. call' \in Calls /\ call'.pc = "pick" /\ told' \subseteq Keys /\ owner' = "change"
      <4>1. call' = [call EXCEPT !.pc = "pick", !.keys = left, !.now = {}] /\ UNCHANGED <<owner, told>>
        BY <2>1, <2>3 DEF GoOn
      <4>2. QED
        BY <1>1, <4>1 DEF TypedInv, ManagedTypeOK, Calls
    <3>2. QED
      BY <1>1, <3>1, CallTyped
  <2>4. QED
    BY <2>2, <2>3
<1>4. ASSUME NEW pc \in {"pick", "record", "send", "write"}, Reaches(pc),
             pc = "record" /\ venue \in {"kucoin", "kucoinFutures"} => nextID' > 1
      PROVE  TypedInv'
  BY <1>1, <1>4, CallFacts, CallTyped DEF Reaches
<1>5. QED
  BY <1>2, <1>3, <1>4

\* A command for the call keeps pending typed.
LEMMA NotedTyped ==
  ASSUME TypedInv, NEW keys \in SUBSET Keys, NEW id \in 1..nextID
  PROVE  /\ Command(id, call.op, keys) \in Pendings
         /\ pending \cup {Command(id, call.op, keys)} \subseteq Pendings
         /\ \A p \in pending \cup {Command(id, call.op, keys)} : p.id \in 1..nextID
<1>1. Command(id, call.op, keys) \in Pendings /\ Command(id, call.op, keys).id = id
  <2>0. nextID \in Nat /\ call.op \in Ops
    BY CallFacts
  <2>1. id \in Nat /\ call.op \in Ops
    BY <2>0
  <2>2. QED
    BY <2>1 DEF Command, Pendings
<1>2. pending \subseteq Pendings /\ \A p \in pending : p.id \in 1..nextID
  BY CallFacts
<1>3. QED
  BY <1>1, <1>2

LEMMA ChangeTyped ==
  ASSUME TypedInv
  PROVE  /\ \A c \in SUBSET call.keys : WriteSome(c) => TypedInv'
         /\ RecordAll \/ WriteSomeFails => TypedInv'
         /\ \A k \in call.keys, pc \in {"record", "write"} :
              Pick(k, pc) /\ (venue \in {"kucoin", "kucoinFutures"} => pc = "write") => TypedInv'
         /\ venue \notin {"kucoin", "kucoinFutures"} /\ (PrepareFails \/ Record) => TypedInv'
         /\ WriteRecorded \/ WriteRecordedFails => TypedInv'
         /\ RecordBeforeLogin \/ CryptocomRecord \/ CryptocomSend \/ CryptocomSendFails => TypedInv'
         /\ UsdmRecord \/ KorbitWriteFails \/ WriteUnrecorded \/ WriteUnrecordedFails => TypedInv'
         /\ \A k \in call.keys : MexcRefuses(k) \/ KorbitRecord(k) => TypedInv'
         /\ RecordWritten /\ venue \in WrittenEach => TypedInv'
<1> DEFINE Frame == UNCHANGED <<sessionVars, managerVars, changes, todo, nextID, wireVars>>
<1> USE DEF sessionVars, managerVars, wireVars
<1>c. pending \subseteq Pendings /\ (\A p \in pending : p.id \in 1..nextID) /\ nextID \in Nat
  BY CallFacts
<1>0. /\ list \subseteq Keys /\ pending \subseteq Pendings /\ (\A p \in pending : p.id \in 1..nextID)
      /\ (\A p \in pending : p.id \in 1..nextID + 1)
      /\ nextID \in Nat \ {0} /\ wire \in Seq(WireCommands) /\ call.keys \in SUBSET Keys /\ call.now \in SUBSET Keys
  <2>1. \A p \in pending : p.id \in 1..nextID + 1
    BY <1>c
  <2>2. QED
    BY <1>c, <2>1, CallFacts
<1>1. ASSUME NEW c \in SUBSET call.keys, WriteSome(c) PROVE TypedInv'
  <2>1. CallKeeps /\ UNCHANGED <<changes, list, pending>>
    BY <1>1, WriteSends DEF WriteSome, CallKeeps
  <2>2. wire' \in Seq(WireCommands) /\ (broken => wire' = wire) /\ nextID' = nextID + 1 /\ Installed
    BY <1>0, <1>1, WriteSends, SentTyped, CallFacts DEF WriteSome
  <2>3. \E pc \in {"record", "write"} : Reaches(pc)
    <3>1. call \in Calls /\ c \subseteq Keys
      BY <1>0, <1>1 DEF TypedInv
    <3>2. /\ call' = [call EXCEPT !.keys = @ \ c, !.now = @ \cup c, !.pc = IF call.keys = c THEN "record" ELSE "write"]
          /\ UNCHANGED <<owner, told>>
      BY <1>1 DEF WriteSome
    <3>3. call' \in Calls /\ call'.pc \in {"record", "write"}
      BY <3>1, <3>2 DEF Calls
    <3>4. QED
      BY <3>2, <3>3 DEF Reaches
  <2>4. QED
    BY <1>0, <1>1, <2>1, <2>2, <2>3, StepTyped DEF WriteSome, Installed
<1>2. ASSUME NEW failed \in SUBSET Keys, Return(failed), call.pc # "idle", Frame PROVE TypedInv'
  BY <1>0, <1>2, StepTyped DEF CallKeeps
<1>3. ASSUME RecordAll PROVE TypedInv'
  BY <1>0, <1>3, StepTyped, ApplyTyped DEF RecordAll, CallKeeps
<1>4. ASSUME NEW k \in call.keys, NEW pc \in {"record", "write"}, Pick(k, pc),
             venue \in {"kucoin", "kucoinFutures"} => pc = "write"
      PROVE TypedInv'
  <2>1. CallKeeps /\ UNCHANGED <<changes, list, pending, nextID, wire>> /\ call.pc # "idle"
    BY <1>4 DEF Pick, CallKeeps
  <2>2. Return({}) \/ GoOn(call.keys \ {k}) \/ Reaches(pc)
    <3>1. k \in Keys /\ call \in Calls
      BY <1>0, <1>4 DEF TypedInv
    <3>2. CASE call' = [call EXCEPT !.pc = pc, !.keys = @ \ {k}, !.now = {k}] /\ UNCHANGED <<owner, told>>
      BY <3>1, <3>2 DEF Reaches, Calls
    <3>3. QED
      BY <1>4, <3>2 DEF Pick
  <2>3. QED
    BY <1>0, <1>4, <2>1, <2>2, StepTyped
<1>5. ASSUME Record, venue \notin {"kucoin", "kucoinFutures"} PROVE TypedInv'
  <2>1. CallKeeps /\ UNCHANGED <<changes, nextID, wire>> /\ Reaches("write") /\ call.pc # "idle"
    BY <1>5, CallFacts DEF Record, CallKeeps, Reaches
  <2>2. list' \subseteq Keys /\ pending' \subseteq Pendings /\ \A p \in pending' : p.id \in 1..nextID
    <3>1. list' = Apply(call.op, call.now, list) /\ pending' = pending \cup {Command(nextID, call.op, call.now)}
      BY <1>5 DEF Record, Note
    <3>2. nextID \in 1..nextID
      BY <1>0
    <3>3. QED
      BY <1>0, <3>1, <3>2, ApplyTyped, NotedTyped
  <2>3. QED
    BY <1>0, <2>1, <2>2, StepTyped
<1>6. ASSUME WriteRecorded PROVE TypedInv'
  <2>1. CallKeeps /\ UNCHANGED <<changes, list, pending>> /\ GoOn(call.keys) /\ call.pc # "idle"
    BY <1>6, WriteSends DEF WriteRecorded, CallKeeps
  <2>2. wire' \in Seq(WireCommands) /\ (broken => wire' = wire) /\ nextID' = nextID + 1 /\ Installed
    BY <1>0, <1>6, WriteSends, SentTyped, CallFacts DEF WriteRecorded
  <2>3. QED
    BY <1>0, <2>1, <2>2, StepTyped DEF Installed
<1>7. ASSUME WriteRecordedFails PROVE TypedInv'
  <2>1. CallKeeps /\ UNCHANGED <<changes, wire>> /\ Return(call.now) /\ call.pc # "idle" /\ nextID' = nextID + 1
    BY <1>7 DEF WriteRecordedFails, CallKeeps
  <2>2. list' \subseteq Keys /\ pending' \subseteq pending
    BY <1>0, <1>7, ApplyTyped DEF WriteRecordedFails, Withdraw
  <2>3. QED
    BY <1>0, <2>1, <2>2, StepTyped
<1>8. ASSUME RecordBeforeLogin PROVE TypedInv'
  BY <1>0, <1>8, StepTyped, ApplyTyped DEF RecordBeforeLogin, CallKeeps
<1>9. ASSUME CryptocomRecord PROVE TypedInv'
  <2>1. CallKeeps /\ UNCHANGED <<changes, nextID, wire, pending>> /\ Reaches("send") /\ call.pc # "idle"
    BY <1>9, CallFacts DEF CryptocomRecord, CallKeeps, Reaches
  <2>2. QED
    BY <1>0, <1>9, <2>1, StepTyped, ApplyTyped DEF CryptocomRecord
<1>10. ASSUME CryptocomSend PROVE TypedInv'
  <2>1. CallKeeps /\ UNCHANGED <<changes, nextID, wire, list>> /\ Reaches("write") /\ call.pc # "idle"
    BY <1>10, CallFacts DEF CryptocomSend, CallKeeps, Reaches
  <2>2. QED
    BY <1>0, <1>10, <2>1, StepTyped, NotedTyped DEF CryptocomSend
<1>11. ASSUME UsdmRecord PROVE TypedInv'
  <2>0. call' = [call EXCEPT !.pc = "write", !.keys = {}, !.now = call.keys] /\ UNCHANGED <<owner, told>>
    BY <1>11 DEF UsdmRecord
  <2>1. CallKeeps /\ UNCHANGED <<changes, nextID, wire>> /\ Reaches("write") /\ call.pc # "idle"
    <3>1. Reaches("write")
      BY <1>0, <2>0 DEF Reaches, Calls, TypedInv
    <3>2. QED
      BY <1>11, <3>1 DEF UsdmRecord, CallKeeps
  <2>2. list' \subseteq Keys /\ pending' \subseteq Pendings /\ \A p \in pending' : p.id \in 1..nextID
    <3>1. list' = Apply(call.op, call.keys, list) /\ pending' = pending \cup {Command(nextID, call.op, call.keys)}
      BY <1>11 DEF UsdmRecord, Note
    <3>2. nextID \in 1..nextID
      BY <1>0
    <3>3. QED
      BY <1>0, <3>1, <3>2, ApplyTyped, NotedTyped
  <2>3. QED
    BY <1>0, <2>1, <2>2, StepTyped
<1>12. ASSUME KorbitWriteFails PROVE TypedInv'
  BY <1>0, <1>12, StepTyped DEF KorbitWriteFails, CallKeeps
<1>13. ASSUME WriteUnrecorded PROVE TypedInv'
  <2>1. CallKeeps /\ UNCHANGED <<changes, list, pending>> /\ Reaches("record") /\ call.pc # "idle"
    BY <1>13, WriteSends, CallFacts DEF WriteUnrecorded, CallKeeps, Reaches
  <2>2. wire' \in Seq(WireCommands) /\ (broken => wire' = wire) /\ nextID' = nextID + 1 /\ Installed
    BY <1>0, <1>13, WriteSends, SentTyped, CallFacts DEF WriteUnrecorded
  <2>3. QED
    BY <1>0, <2>1, <2>2, StepTyped DEF Installed
<1>14. ASSUME NEW k \in call.keys, KorbitRecord(k) PROVE TypedInv'
  <2>0. {k} \in SUBSET Keys /\ call \in Calls
    BY <1>0, <1>14 DEF TypedInv
  <2>1. CallKeeps /\ UNCHANGED <<changes, nextID, wire>> /\ Reaches("write") /\ call.pc # "idle"
    BY <2>0, <1>14 DEF KorbitRecord, CallKeeps, Reaches, Calls
  <2>2. list' \subseteq Keys /\ pending' \subseteq Pendings /\ \A p \in pending' : p.id \in 1..nextID
    <3>1. list' = Apply(call.op, {k}, list) /\ pending' = pending \cup {Command(nextID, call.op, {k})}
      BY <1>14 DEF KorbitRecord, Note
    <3>2. QED
      BY <1>0, <2>0, <3>1, ApplyTyped, NotedTyped
  <2>3. QED
    BY <1>0, <2>1, <2>2, StepTyped
<1>15. ASSUME RecordWritten, venue \in WrittenEach PROVE TypedInv'
  <2>1. CallKeeps /\ UNCHANGED <<changes, nextID, wire>> /\ GoOn(call.keys) /\ call.pc # "idle" /\ list' \subseteq Keys
    BY <1>0, <1>15, ApplyTyped DEF RecordWritten, CallKeeps
  <2>2. CASE venue \in {"kucoin", "kucoinFutures"}
    <3>1. nextID - 1 \in 1..nextID
      BY <1>0, <1>15, <2>2 DEF TypedInv, RecordWritten
    <3>2. pending' = pending \cup {Command(nextID - 1, call.op, call.now)}
      BY <1>15, <2>2 DEF RecordWritten
    <3>3. QED
      BY <1>0, <2>1, <3>1, <3>2, StepTyped, NotedTyped
  <2>3. CASE pending' = pending
    BY <1>0, <2>1, <2>3, StepTyped
  <2>4. QED
    BY <1>15, <2>2, <2>3 DEF RecordWritten, WrittenEach
<1>16. ASSUME WriteSomeFails \/ PrepareFails \/ CryptocomSendFails \/ WriteUnrecordedFails PROVE TypedInv'
  <2>1. Frame /\ call.pc # "idle"
    BY <1>16 DEF WriteSomeFails, PrepareFails, CryptocomSendFails, WriteUnrecordedFails
  <2>2. \E failed \in SUBSET Keys : Return(failed)
    BY <1>0, <1>16 DEF WriteSomeFails, PrepareFails, CryptocomSendFails, WriteUnrecordedFails
  <2>3. QED
    BY <1>2, <2>1, <2>2
<1>17. ASSUME NEW k \in call.keys, MexcRefuses(k) PROVE TypedInv'
  <2>1. Frame /\ call.pc # "idle" /\ Return({}) /\ {} \in SUBSET Keys
    BY <1>17 DEF MexcRefuses
  <2>2. QED
    BY <1>2, <2>1
<1> HIDE DEF Frame
<1>20. QED
  BY <1>1, <1>3, <1>4, <1>5, <1>6, <1>7, <1>8, <1>9, <1>10, <1>11, <1>12, <1>13, <1>14, <1>15, <1>16, <1>17
-----------------------------------------------------------------------------
\* The subscriptions of a finite set, counted from the smallest.
Below(keys, k) == {j \in keys : j < k}

LEMMA Ranks ==
  ASSUME NEW T \in SUBSET Nat, IsFiniteSet(T)
  PROVE  /\ Cardinality(T) \in Nat
         /\ \A k \in T : Cardinality(Below(T, k)) \in 0..Cardinality(T) - 1
         /\ \A k, l \in T : Cardinality(Below(T, k)) = Cardinality(Below(T, l)) => k = l
         /\ \A i \in 1..Cardinality(T) : \E k \in T : Cardinality(Below(T, k)) = i - 1
<1> DEFINE r == [k \in T |-> Cardinality(Below(T, k))]
           n == Cardinality(T)
<1>1. n \in Nat
  BY FS_CardinalityType
<1>2. ASSUME NEW k \in T
      PROVE  IsFiniteSet(Below(T, k)) /\ Cardinality(Below(T, k)) \in 0..n - 1
  <2>1. Below(T, k) \in SUBSET T /\ Below(T, k) # T
    BY DEF Below
  <2>2. IsFiniteSet(Below(T, k)) /\ Cardinality(Below(T, k)) <= n /\ Cardinality(Below(T, k)) # n
    BY <2>1, FS_Subset
  <2>3. Cardinality(Below(T, k)) \in Nat
    BY <2>2, FS_CardinalityType
  <2>4. QED
    BY <1>1, <2>2, <2>3
<1>3. ASSUME NEW k \in T, NEW l \in T, k < l
      PROVE  Cardinality(Below(T, k)) < Cardinality(Below(T, l))
  <2>1. Below(T, k) \in SUBSET Below(T, l)
    <3>1. \A j \in T : j < k => j < l
      BY <1>3
    <3>2. QED
      BY <3>1 DEF Below
  <2>2. k \in Below(T, l) /\ k \notin Below(T, k)
    BY <1>3 DEF Below
  <2>3. Cardinality(Below(T, k)) <= Cardinality(Below(T, l)) /\ Cardinality(Below(T, k)) # Cardinality(Below(T, l))
    BY <1>2, <2>1, <2>2, FS_Subset
  <2>4. QED
    BY <1>1, <1>2, <2>3
<1>4. ASSUME NEW k \in T, NEW l \in T, Cardinality(Below(T, k)) = Cardinality(Below(T, l)) PROVE k = l
  <2>1. k \in Nat /\ l \in Nat /\ Cardinality(Below(T, k)) \in 0..n - 1 /\ Cardinality(Below(T, l)) \in 0..n - 1
    BY <1>2
  <2>2. ~(k < l) /\ ~(l < k)
    BY <1>1, <1>3, <1>4, <2>1
  <2>3. QED
    BY <2>1, <2>2
<1>5. r \in Injection(T, 0..n - 1)
  <2>1. r \in [T -> 0..n - 1] /\ \A k \in T : r[k] = Cardinality(Below(T, k))
    BY <1>2
  <2>2. \A k, l \in T : r[k] = r[l] => k = l
    BY <1>4, <2>1
  <2>3. QED
    BY <2>1, <2>2 DEF Injection, IsInjective
<1>6. IsFiniteSet(0..n - 1) /\ Cardinality(0..n - 1) = n
  <2>1. 0 \in Int /\ n - 1 \in Int /\ (0 > n - 1 <=> n = 0)
    BY <1>1
  <2>2. IsFiniteSet(0..n - 1) /\ Cardinality(0..n - 1) = IF 0 > n - 1 THEN 0 ELSE n - 1 - 0 + 1
    BY <2>1, FS_Interval
  <2>3. QED
    BY <1>1, <2>1, <2>2
<1>7. r \in Surjection(T, 0..n - 1)
  BY <1>5, <1>6, FS_Injection
<1>8. \A i \in 1..n : \E k \in T : Cardinality(Below(T, k)) = i - 1
  <2>1. ASSUME NEW i \in 1..n PROVE \E k \in T : Cardinality(Below(T, k)) = i - 1
    <3>1. i - 1 \in 0..n - 1
      BY <1>1
    <3>2. PICK k \in T : r[k] = i - 1
      BY <1>7, <3>1 DEF Surjection
    <3>3. QED
      BY <3>2
  <2>2. QED
    BY <2>1
<1>9. QED
  BY <1>1, <1>2, <1>4, <1>8
-----------------------------------------------------------------------------
\* Typing: the hook, the handler, the session and the exchange.
Item(k) == Command(nextID + Cardinality(Below(todo, k)), "subscribe", {k})

\* Korbit's frame: an item for each subscription, each with its id.
LEMMA KorbitWrites ==
  ASSUME TypedInv, KorbitRewrite
  PROVE  /\ nextID \in Nat /\ nextID' \in Nat /\ nextID < nextID'
         /\ \A k \in todo : Item(k) \in Pendings /\ Item(k).id \in nextID..nextID' - 1
         /\ \A k, l \in todo : Item(k).id = Item(l).id => k = l
         /\ pending' = pending \cup {Item(k) : k \in todo}
         /\ wire' \in Seq(WireCommands) /\ (broken => wire' = wire)
         /\ ~broken =>
              /\ DOMAIN wire \subseteq DOMAIN wire' /\ \A i \in DOMAIN wire : wire'[i] = wire[i]
              /\ \A i \in DOMAIN wire' \ DOMAIN wire : \E k \in todo : wire'[i] = Item(k)
              /\ \A k \in todo : \E i \in DOMAIN wire' \ DOMAIN wire : wire'[i] = Item(k)
              /\ \A i \in DOMAIN wire, j \in DOMAIN wire' \ DOMAIN wire : i < j
              /\ \A i, j \in DOMAIN wire' \ DOMAIN wire : wire'[i] = wire'[j] => i = j
<1> DEFINE n == Cardinality(todo)
           At(i) == CHOOSE k \in todo : Cardinality(Below(todo, k)) = i - 1
           s == [i \in 1..n |-> Item(At(i))]
<1>1. todo \in SUBSET Nat /\ IsFiniteSet(todo) /\ todo # {} /\ todo \subseteq Keys /\ nextID \in Nat \ {0}
  BY ManagedStreamAssumption, FS_Subset DEF TypedInv, ManagedTypeOK, KorbitRewrite
<1>2. /\ n \in Nat /\ \A k \in todo : Cardinality(Below(todo, k)) \in 0..n - 1
      /\ \A k, l \in todo : Cardinality(Below(todo, k)) = Cardinality(Below(todo, l)) => k = l
      /\ \A i \in 1..n : \E k \in todo : Cardinality(Below(todo, k)) = i - 1
  BY <1>1, Ranks
<1>3. n # 0
  BY <1>1, FS_EmptySet
<1>4. \A i \in 1..n : At(i) \in todo /\ Cardinality(Below(todo, At(i))) = i - 1
  BY <1>2
<1>5. \A k \in todo : /\ Item(k) \in Pendings /\ Item(k) \in WireCommands
                      /\ Item(k).id = nextID + Cardinality(Below(todo, k)) /\ Item(k).id \in nextID..nextID + n - 1
  <2>1. ASSUME NEW k \in todo
        PROVE  /\ Item(k) \in Pendings /\ Item(k) \in WireCommands
               /\ Item(k).id = nextID + Cardinality(Below(todo, k)) /\ Item(k).id \in nextID..nextID + n - 1
    <3>1. nextID + Cardinality(Below(todo, k)) \in nextID..nextID + n - 1 /\ {k} \in SUBSET Keys
      BY <1>1, <1>2
    <3>2. nextID + Cardinality(Below(todo, k)) \in Nat
      BY <1>1, <1>2
    <3>3. QED
      BY <3>1, <3>2 DEF Item, Command, Pendings, WireCommands, Ops
  <2>2. QED
    BY <2>1
<1>6. s \in Seq(WireCommands) /\ Len(s) = n /\ \A i \in 1..n : s[i] = Item(At(i))
  BY <1>2, <1>4, <1>5
<1>7. /\ wire' = (IF broken THEN wire ELSE wire \o s) /\ nextID' = nextID + n
      /\ pending' = pending \cup {Item(k) : k \in todo}
  BY <1>6 DEF KorbitRewrite, HookWrite, Below, Item
<1> HIDE DEF s, n, At
<1>8. wire \in Seq(WireCommands)
  BY DEF TypedInv
<1>9. wire \o s \in Seq(WireCommands) /\ Len(wire \o s) = Len(wire) + n
      /\ \A i \in 1..Len(wire) + n : (wire \o s)[i] = IF i <= Len(wire) THEN wire[i] ELSE s[i - Len(wire)]
  BY <1>6, <1>8, ConcatProperties
<1>10. Len(wire) \in Nat /\ DOMAIN wire = 1..Len(wire) /\ DOMAIN (wire \o s) = 1..Len(wire) + n
  BY <1>8, <1>9, LenProperties
<1>11. ASSUME ~broken
       PROVE  /\ DOMAIN wire \subseteq DOMAIN wire' /\ \A i \in DOMAIN wire : wire'[i] = wire[i]
              /\ \A i \in DOMAIN wire' \ DOMAIN wire : i - Len(wire) \in 1..n /\ wire'[i] = Item(At(i - Len(wire)))
              /\ \A i \in 1..n : i + Len(wire) \in DOMAIN wire' \ DOMAIN wire
              /\ \A i \in DOMAIN wire, j \in DOMAIN wire' \ DOMAIN wire : i < j
  <2>1. wire' = wire \o s
    BY <1>7, <1>11
  <2>2. \A i \in 1..Len(wire) + n : i \notin 1..Len(wire) => i - Len(wire) \in 1..n /\ wire'[i] = Item(At(i - Len(wire)))
    BY <1>2, <1>6, <1>9, <1>10, <2>1
  <2>3. \A i \in 1..n : i + Len(wire) \in DOMAIN wire' \ DOMAIN wire
    BY <1>2, <1>10, <2>1
  <2>4. \A i \in DOMAIN wire : i \in DOMAIN wire' /\ wire'[i] = wire[i]
    BY <1>2, <1>9, <1>10, <2>1
  <2>5. \A i \in DOMAIN wire, j \in DOMAIN wire' \ DOMAIN wire : i < j
    BY <1>2, <1>10, <2>1
  <2>6. QED
    BY <1>10, <2>1, <2>2, <2>3, <2>4, <2>5
<1>12. ASSUME ~broken, NEW k \in todo PROVE \E i \in DOMAIN wire' \ DOMAIN wire : wire'[i] = Item(k)
  <2>1. Cardinality(Below(todo, k)) + 1 \in 1..n
    BY <1>2
  <2>2. At(Cardinality(Below(todo, k)) + 1) = k
    BY <1>2, <1>4, <2>1
  <2>3. PICK i \in DOMAIN wire' \ DOMAIN wire : i - Len(wire) = Cardinality(Below(todo, k)) + 1
    <3>1. Cardinality(Below(todo, k)) + 1 + Len(wire) \in DOMAIN wire' \ DOMAIN wire
      BY <1>11, <1>12, <2>1
    <3>2. Cardinality(Below(todo, k)) \in Nat
      BY <1>2
    <3>3. QED
      BY <1>10, <3>1, <3>2
  <2>4. QED
    BY <1>11, <1>12, <2>2, <2>3
<1>13. ASSUME ~broken, NEW i \in DOMAIN wire' \ DOMAIN wire, NEW j \in DOMAIN wire' \ DOMAIN wire, wire'[i] = wire'[j]
       PROVE  i = j
  <2>1. i - Len(wire) \in 1..n /\ j - Len(wire) \in 1..n /\ Item(At(i - Len(wire))) = Item(At(j - Len(wire)))
    BY <1>11, <1>13
  <2>2. At(i - Len(wire)) = At(j - Len(wire))
    <3> DEFINE a == At(i - Len(wire))
               b == At(j - Len(wire))
    <3>1. a \in todo /\ b \in todo
      BY <1>4, <2>1
    <3> HIDE DEF a, b
    <3>2. Item(a).id = Item(b).id
      BY <2>1 DEF a, b
    <3>3. Cardinality(Below(todo, a)) = Cardinality(Below(todo, b))
      BY <1>1, <1>2, <1>5, <3>1, <3>2
    <3>4. a = b
      BY <1>2, <3>1, <3>3
    <3>5. QED
      BY <3>4 DEF a, b
  <2>3. i - Len(wire) - 1 = j - Len(wire) - 1
    BY <1>4, <2>1, <2>2
  <2>4. i \in Nat /\ j \in Nat
    BY <1>7, <1>10, <1>13
  <2>5. QED
    BY <1>10, <2>3, <2>4
<1>14. \A k \in todo : Item(k).id \in nextID..nextID' - 1
  <2>1. nextID' = nextID + n /\ n \in Nat /\ nextID \in Nat
    BY <1>1, <1>2, <1>7
  <2>2. ASSUME NEW k \in todo PROVE Item(k).id \in nextID..nextID' - 1
    <3>1. Cardinality(Below(todo, k)) \in 0..n - 1 /\ Item(k).id = nextID + Cardinality(Below(todo, k))
      BY <1>2, <1>5
    <3> HIDE DEF n
    <3>2. QED
      BY <2>1, <3>1
  <2>3. QED
    BY <2>2
<1>15. \A k, l \in todo : Item(k).id = Item(l).id => k = l
  BY <1>1, <1>2, <1>5
<1>16. nextID \in Nat /\ nextID' \in Nat /\ nextID < nextID'
  BY <1>1, <1>2, <1>3, <1>7
<1>17. ~broken => \A i \in DOMAIN wire' \ DOMAIN wire : \E k \in todo : wire'[i] = Item(k)
  BY <1>4, <1>11
<1>18. QED
  BY <1>5, <1>7, <1>8, <1>9, <1>11, <1>12, <1>13, <1>14, <1>15, <1>16, <1>17
\* What the session, the hook, the handler and the exchange may do.
Phases == {"down", "connected", "snapshot", "hook", "serving", "stopped", "answered", "activating"}
LoopKeeps == UNCHANGED <<venue, call, changes>>

LEMMA LoopTyped ==
  ASSUME TypedInv, LoopKeeps, phase' \in Phases, broken' \in BOOLEAN, conns' \in 0..MaxConns,
         nextID' \in Nat, nextID <= nextID',
         owner' = IF phase' \in {"hook", "activating"} THEN "hook" ELSE IF call.pc = "idle" THEN "none" ELSE "change",
         phase' \in {"hook", "activating"} => call.pc = "idle",
         auth' \in Logins, list' \subseteq Keys, todo' \subseteq Keys, server' \subseteq Keys, told' \subseteq Keys,
         pending' \subseteq Pendings, \A p \in pending' : p.id \in 1..nextID',
         wire' \in Seq(WireCommands), answers' \in Seq(WireAnswers),
         phase' \in {"down", "stopped"} => answers' = <<>>,
         broken' \/ phase' \in {"down", "stopped"} => wire' = <<>> /\ server' = {},
         phase' = "snapshot" => venue = "coinbase", phase' \in {"answered", "activating"} => venue \in Private
  PROVE  TypedInv'
<1>1. call' = call /\ call.pc \in {"idle", "pick", "record", "send", "write"} /\ call.op \in Ops
  BY DEF LoopKeeps, TypedInv, ManagedTypeOK
<1>2. owner' \in {"none", "change", "hook"} /\ (owner' = "change" <=> call'.pc # "idle")
  BY <1>1
<1>3. owner' = "hook" <=> phase' \in {"hook", "activating"}
  BY <1>1
<1>4. venue' \in Venues /\ changes' \in 0..MaxChanges
  BY DEF LoopKeeps, TypedInv, ManagedTypeOK
<1>5. \A p \in pending' : p.id \in 1..nextID' /\ p.op \in Ops /\ p.keys \subseteq Keys
  BY DEF Pendings
<1>6. ManagedTypeOK'
  BY <1>1, <1>2, <1>3, <1>4, <1>5 DEF ManagedTypeOK, Phases
<1>7. /\ (nextID \in Nat \ {0})' /\ (call \in Calls)' /\ (call.pc = "idle" => call = Idle)'
      /\ (venue \in {"kucoin", "kucoinFutures"} /\ call.pc = "record" => nextID > 1)'
      /\ (phase = "snapshot" => venue = "coinbase")' /\ (phase \in {"answered", "activating"} => venue \in Private)'
  BY DEF LoopKeeps, TypedInv, Calls, Idle
<1>8. QED
  BY <1>6, <1>7 DEF TypedInv, Pendings, Logins, WireAnswers, WireCommands, Calls

\* The facts of TypedInv that a step mostly keeps.
LEMMA LoopFacts ==
  ASSUME TypedInv
  PROVE  /\ phase \in Phases /\ broken \in BOOLEAN /\ conns \in 0..MaxConns /\ nextID \in Nat \ {0} /\ nextID <= nextID
         /\ owner = IF phase \in {"hook", "activating"} THEN "hook" ELSE IF call.pc = "idle" THEN "none" ELSE "change"
         /\ phase \in {"hook", "activating"} => call.pc = "idle"
         /\ owner = "none" => call.pc = "idle"
         /\ auth \in Logins /\ list \subseteq Keys /\ todo \subseteq Keys /\ server \subseteq Keys /\ told \subseteq Keys
         /\ pending \subseteq Pendings /\ (\A p \in pending : p.id \in 1..nextID)
         /\ wire \in Seq(WireCommands) /\ answers \in Seq(WireAnswers) /\ <<>> \in Seq(WireCommands) /\ <<>> \in Seq(WireAnswers)
         /\ phase \in {"down", "stopped"} => answers = <<>>
         /\ broken \/ phase \in {"down", "stopped"} => wire = <<>> /\ server = {}
         /\ phase = "snapshot" => venue = "coinbase"
         /\ phase \in {"answered", "activating"} => venue \in Private
BY DEF TypedInv, ManagedTypeOK, Phases

LEMMA HookTyped ==
  ASSUME TypedInv
  PROVE  /\ CoinbaseSnapshot \/ CoinbaseLock \/ Lock \/ HookDone \/ HookFails => TypedInv'
         /\ Authenticate \/ Login \/ LoginFails \/ RewriteUntracked \/ RewriteTracked \/ KorbitRewrite => TypedInv'
<1> USE DEF sessionVars, managerVars, wireVars
<1>1. ASSUME CoinbaseSnapshot PROVE TypedInv'
  BY <1>1, LoopFacts, LoopTyped DEF CoinbaseSnapshot, LoopKeeps, Phases
<1>2. ASSUME CoinbaseLock PROVE TypedInv'
  BY <1>2, LoopFacts, LoopTyped DEF CoinbaseLock, LoopKeeps, Phases
<1>3. ASSUME Lock PROVE TypedInv'
  BY <1>3, LoopFacts, LoopTyped DEF Lock, LoopKeeps, Phases
<1>4. ASSUME HookDone PROVE TypedInv'
  BY <1>4, LoopFacts, LoopTyped DEF HookDone, LoopKeeps, Phases
<1>5. ASSUME HookFails PROVE TypedInv'
  BY <1>5, LoopFacts, LoopTyped DEF HookFails, LoopKeeps, Phases, Disconnected
<1>6. ASSUME Authenticate PROVE TypedInv'
  <2>1. auth' \in Logins
    BY <1>6, LoopFacts DEF Authenticate, Logins
  <2>2. QED
    BY <1>6, <2>1, LoopFacts, LoopTyped DEF Authenticate, LoopKeeps, Phases
<1>7. ASSUME LoginFails PROVE TypedInv'
  BY <1>7, LoopFacts, LoopTyped DEF LoginFails, LoopKeeps, Phases, Disconnected
<1>8. ASSUME Login PROVE TypedInv'
  <2>1. auth' \in Logins
    BY <1>8, LoopFacts DEF Login, Logins
  <2>2. Sent(Command(nextID, "login", {})) /\ nextID' = nextID + 1
    <3>1. wire \in Seq(WireCommands) /\ Command(nextID, "login", {}) \in WireCommands
      BY LoopFacts DEF Command, WireCommands
    <3>2. Append(wire, Command(nextID, "login", {})) = wire \o <<Command(nextID, "login", {})>>
      BY <3>1, Longer
    <3>3. QED
      BY <1>8, <3>2 DEF Login, Sent
  <2>3. wire' \in Seq(WireCommands) /\ (broken => wire' = wire)
    BY <2>2, SentTyped
  <2>4. /\ LoopKeeps /\ UNCHANGED <<phase, broken, conns, owner, list, todo, server, told, pending, answers>> /\ phase = "hook"
    BY <1>8 DEF Login, LoopKeeps
  <2>5. nextID' \in Nat /\ nextID <= nextID' /\ \A p \in pending : p.id \in 1..nextID'
    BY <2>2, LoopFacts
  <2>6. QED
    BY <2>1, <2>3, <2>4, <2>5, LoopFacts, LoopTyped
<1>9. ASSUME FirstPortion(todo) # {}, HookWrite(<<Command(nextID, "subscribe", FirstPortion(todo))>>),
             todo' = todo \ FirstPortion(todo), pending' \subseteq pending \cup {Command(nextID, "subscribe", FirstPortion(todo))}
      PROVE  TypedInv'
  <2>1. FirstPortion(todo) \in SUBSET Keys /\ "subscribe" \in Ops
    BY LoopFacts DEF FirstPortion, Ops
  <2>2. Sent(Command(nextID, "subscribe", FirstPortion(todo))) /\ nextID' = nextID + 1
    BY <1>9, LoopFacts DEF HookWrite, Sent
  <2>3. wire' \in Seq(WireCommands) /\ (broken => wire' = wire)
    BY <2>1, <2>2, SentTyped
  <2>4. LoopKeeps /\ UNCHANGED <<phase, broken, conns, owner, list, server, told, answers, auth>> /\ phase = "hook"
    BY <1>9 DEF HookWrite, LoopKeeps
  <2>5. Command(nextID, "subscribe", FirstPortion(todo)) \in Pendings /\ Command(nextID, "subscribe", FirstPortion(todo)).id = nextID
    BY <2>1, LoopFacts DEF Pendings, Command
  <2>6. nextID' \in Nat /\ nextID <= nextID' /\ pending' \subseteq Pendings /\ \A p \in pending' : p.id \in 1..nextID'
    BY <1>9, <2>2, <2>5, LoopFacts
  <2>7. QED
    BY <1>9, <2>3, <2>4, <2>6, LoopFacts, LoopTyped
<1>10. ASSUME RewriteUntracked PROVE TypedInv'
  BY <1>9, <1>10 DEF RewriteUntracked
<1>11. ASSUME RewriteTracked PROVE TypedInv'
  BY <1>9, <1>11 DEF RewriteTracked
<1>12. ASSUME KorbitRewrite PROVE TypedInv'
  <2>1. LoopKeeps /\ UNCHANGED <<phase, broken, conns, owner, list, server, told, answers, auth>> /\ phase = "hook" /\ todo' = {}
    BY <1>12 DEF KorbitRewrite, HookWrite, LoopKeeps
  <2>2. /\ nextID \in Nat /\ nextID' \in Nat /\ nextID < nextID' /\ wire' \in Seq(WireCommands) /\ (broken => wire' = wire)
        /\ pending' = pending \cup {Item(k) : k \in todo} /\ \A k \in todo : Item(k) \in Pendings /\ Item(k).id \in nextID..nextID' - 1
    BY <1>12, KorbitWrites
  <2>3. pending' \subseteq Pendings /\ \A p \in pending' : p.id \in 1..nextID'
    BY <2>2, LoopFacts
  <2>4. QED
    BY <2>1, <2>2, <2>3, LoopFacts, LoopTyped
<1>13. QED
  BY <1>1, <1>2, <1>3, <1>4, <1>5, <1>6, <1>7, <1>8, <1>10, <1>11, <1>12
LEMMA UndoneTyped ==
  ASSUME TypedInv
  PROVE  /\ \A p \in pending : Undone(p) \subseteq Keys
         /\ UndoneByMatch \subseteq Keys
<1>1. ASSUME NEW p \in pending PROVE Undone(p) \subseteq Keys
  BY LoopFacts DEF Undone, Pendings, Apply
<1>2. Matched # {} => (CHOOSE p \in Matched : TRUE) \in pending
  BY DEF Matched
<1>3. QED
  BY <1>1, <1>2, LoopFacts DEF UndoneByMatch

LEMMA HandleTyped ==
  ASSUME TypedInv, Handle
  PROVE  TypedInv'
<1>1. /\ UNCHANGED <<venue, broken, conns, auth, owner, call, changes, todo, nextID, told>> /\ phase = "serving"
      /\ IF phase' = "stopped" THEN wire' = <<>> /\ answers' = <<>> /\ server' = {}
         ELSE answers' = Tail(answers) /\ UNCHANGED <<wire, server>>
      /\ answers # <<>>
  BY DEF Handle, Disconnected
<1>2. list' \subseteq Keys /\ pending' \subseteq pending /\ phase' \in {"serving", "answered", "stopped"}
      /\ (phase' = "answered" => venue \in Private)
  <2>1. ASSUME NEW undone \in SUBSET Keys, Settle(undone)
        PROVE  list' \subseteq Keys /\ pending' \subseteq pending /\ phase' = "serving"
    BY <1>1, <2>1, LoopFacts DEF Settle
  <2>2. UndoneByMatch \in SUBSET Keys /\ list \in SUBSET Keys
    BY UndoneTyped, LoopFacts
  <2>3. CASE \/ GateioHandleControl \/ GateioFuturesHandleControl \/ HtxHandleControl
             \/ KucoinHandleControl \/ KucoinFuturesHandleControl \/ BinanceUsdmHandleControl \/ KorbitHandleControl
    BY <2>1, <2>2, <2>3 DEF GateioHandleControl, GateioFuturesHandleControl, HtxHandleControl,
       KucoinHandleControl, KucoinFuturesHandleControl, BinanceUsdmHandleControl, KorbitHandleControl
  <2>4. CASE CryptocomHandleControl
    BY <1>1, <2>2, <2>4 DEF CryptocomHandleControl
  <2>5. ASSUME NEW found \in SUBSET pending, pending' = pending \ found,
               list' = IF Answer.status = "ok" \/ found = {} THEN list ELSE Undone(CHOOSE p \in found : TRUE)
        PROVE  list' \subseteq Keys /\ pending' \subseteq pending
    BY <2>2, <2>5, UndoneTyped
  <2>6. CASE MexcHandleControl
    <3> DEFINE named == {p \in pending : p.keys = Answer.keys /\ Answer.status # "anonymous"}
               oldest == {p \in pending : order # <<>> /\ p.keys = {Head(order)}}
               found == IF named # {} THEN named ELSE oldest
    <3>1. found \in SUBSET pending
      OBVIOUS
    <3>2. phase' = phase /\ pending' = pending \ found
          /\ list' = IF Answer.status = "ok" \/ found = {} THEN list ELSE Undone(CHOOSE p \in found : TRUE)
      BY <2>6 DEF MexcHandleControl
    <3> HIDE DEF found
    <3>3. QED
      BY <1>1, <2>5, <3>1, <3>2
  <2>7. CASE HtxPrivateHandleControl
    <3> DEFINE found == {p \in pending : p.op = Answer.op /\ p.keys = Answer.keys}
    <3>1. found \in SUBSET pending
      OBVIOUS
    <3>2. phase' = phase /\ pending' = pending \ found
          /\ list' = IF Answer.status = "ok" \/ found = {} THEN list ELSE Undone(CHOOSE p \in found : TRUE)
      BY <2>7 DEF HtxPrivateHandleControl
    <3> HIDE DEF found
    <3>3. QED
      BY <1>1, <2>5, <3>1, <3>2
  <2>8. CASE HandleLogin \/ KrakenRun \/ KrakenFuturesRun \/ PassOn
    BY <1>1, <2>2, <2>8 DEF HandleLogin, KrakenRun, KrakenFuturesRun, PassOn, managerVars
  <2>9. QED
    BY <2>3, <2>4, <2>6, <2>7, <2>8 DEF Handle
<1>3. Tail(answers) \in Seq(WireAnswers)
  BY <1>1, LoopFacts, Shorter
<1>4. LoopKeeps /\ call.pc = IF owner = "none" THEN "idle" ELSE call.pc
  BY <1>1, LoopFacts DEF LoopKeeps
<1>5. QED
  BY <1>1, <1>2, <1>3, <1>4, LoopFacts, LoopTyped DEF Phases

LEMMA ActivationTyped ==
  ASSUME TypedInv, Activation
  PROVE  TypedInv'
<1> USE DEF sessionVars, managerVars, wireVars
<1>1. ASSUME Activate PROVE TypedInv'
  <2>1. auth' \in Logins
    BY <1>1, LoopFacts DEF Activate, Logins
  <2>2. QED
    BY <1>1, <2>1, LoopFacts, LoopTyped DEF Activate, LoopKeeps, Phases
<1>2. ASSUME ActivateNext PROVE TypedInv'
  <2>1. PICK k \in FirstPortion(todo) :
          /\ pending' = pending \cup {Command(nextID, "subscribe", {k})}
          /\ wire' = IF broken THEN wire ELSE Append(wire, Command(nextID, "subscribe", {k}))
          /\ todo' = todo \ {k}
    BY <1>2 DEF ActivateNext
  <2> DEFINE c == Command(nextID, "subscribe", {k})
  <2>2. {k} \in SUBSET Keys /\ "subscribe" \in Ops
    BY LoopFacts DEF FirstPortion, Ops
  <2>3. wire \in Seq(WireCommands) /\ c \in WireCommands /\ c \in Pendings /\ c.id = nextID
    BY <2>2, LoopFacts DEF Command, WireCommands, Pendings
  <2>4. pending' = pending \cup {c} /\ wire' = IF broken THEN wire ELSE Append(wire, c)
    BY <2>1
  <2> HIDE DEF c
  <2>5. Append(wire, c) = wire \o <<c>>
    BY <2>3, Longer
  <2>6. Sent(c)
    BY <2>4, <2>5 DEF Sent
  <2>7. wire' \in Seq(WireCommands) /\ (broken => wire' = wire)
    BY <2>2, <2>6, SentTyped DEF c
  <2>8. LoopKeeps /\ UNCHANGED <<phase, broken, conns, auth, owner, list, server, told, answers>> /\ nextID' = nextID + 1 /\ phase = "activating"
    BY <1>2 DEF ActivateNext, LoopKeeps
  <2>9. nextID \in Nat \ {0} /\ pending \subseteq Pendings /\ \A p \in pending : p.id \in 1..nextID
    BY LoopFacts
  <2>10. nextID' \in Nat /\ nextID <= nextID' /\ pending' \subseteq Pendings /\ \A p \in pending' : p.id \in 1..nextID'
    BY <2>3, <2>4, <2>8, <2>9
  <2>11. QED
    BY <2>1, <2>7, <2>8, <2>10, LoopFacts, LoopTyped
<1>3. ASSUME ActivateFails PROVE TypedInv'
  <2>1. auth' \in Logins
    BY <1>3, LoopFacts DEF ActivateFails, Logins
  <2>2. QED
    BY <1>3, <2>1, LoopFacts, LoopTyped DEF ActivateFails, LoopKeeps, Phases, Disconnected
<1>4. ASSUME ActivateDone PROVE TypedInv'
  BY <1>4, LoopFacts, LoopTyped DEF ActivateDone, LoopKeeps, Phases
<1>5. QED
  BY <1>1, <1>2, <1>3, <1>4 DEF Activation

LEMMA SessionTyped ==
  ASSUME TypedInv, Connect \/ Break \/ Disconnect \/ Serve \/ Over
  PROVE  TypedInv'
<1> USE DEF sessionVars, managerVars, wireVars
<1>1. ASSUME Connect PROVE TypedInv'
  <2>1. auth' \in Logins /\ conns' \in 0..MaxConns
    <3>1. auth' \in Logins
      BY <1>1, LoopFacts DEF Connect, Logins
    <3>2. conns \in 0..MaxConns /\ conns < MaxConns /\ conns' = conns + 1 /\ MaxConns \in Nat
      BY <1>1, LoopFacts, ManagedStreamAssumption DEF Connect
    <3>3. QED
      BY <3>1, <3>2
  <2>2. QED
    BY <1>1, <2>1, LoopFacts, LoopTyped DEF Connect, LoopKeeps, Phases
<1>2. ASSUME Break PROVE TypedInv'
  BY <1>2, LoopFacts, LoopTyped DEF Break, LoopKeeps, Phases
<1>3. ASSUME Disconnect PROVE TypedInv'
  BY <1>3, LoopFacts, LoopTyped DEF Disconnect, LoopKeeps, Phases, Disconnected
<1>4. ASSUME NEW status \in {"ok", "error", "anonymous", "mismatch"}, AnswerWith(status), wire # <<>>,
             server' \subseteq Keys, auth' \in Logins
      PROVE  TypedInv'
  <2>1. Head(wire) \in WireCommands /\ Tail(wire) \in Seq(WireCommands)
    BY <1>4, LoopFacts, Shorter
  <2> DEFINE a == [id |-> Head(wire).id, op |-> Head(wire).op, keys |-> Head(wire).keys, status |-> status]
  <2>2. a \in WireAnswers
    BY <2>1 DEF WireAnswers, WireCommands
  <2>3. answers' = Append(answers, a) /\ wire' = Tail(wire)
    BY <1>4 DEF AnswerWith
  <2> HIDE DEF a
  <2>4. answers' \in Seq(WireAnswers)
    BY <2>2, <2>3, LoopFacts
  <2>5. LoopKeeps /\ UNCHANGED <<phase, broken, conns, owner, list, todo, nextID, told, pending>>
    BY <1>4 DEF AnswerWith, LoopKeeps
  <2>6. QED
    BY <1>4, <2>1, <2>3, <2>4, <2>5, LoopFacts, LoopTyped
<1>5. ASSUME Serve PROVE TypedInv'
  <2>1. ASSUME Accept PROVE TypedInv'
    <3>1. Head(wire) \in WireCommands /\ wire # <<>>
      BY <2>1, LoopFacts, Shorter DEF Accept
    <3>2. server' \subseteq Keys /\ auth' \in Logins
      BY <2>1, <3>1, LoopFacts DEF Accept, Apply, WireCommands, Logins
    <3>3. QED
      BY <1>4, <2>1, <3>1, <3>2 DEF Accept
  <2>2. ASSUME Reject PROVE TypedInv'
    BY <1>4, <2>2, LoopFacts DEF Reject, Errors
  <2>3. QED
    BY <1>5, <2>1, <2>2 DEF Serve
<1>6. ASSUME Over PROVE TypedInv'
  BY <1>6, LoopFacts, LoopTyped DEF Over, LoopKeeps, managedVars
<1>7. QED
  BY <1>1, <1>2, <1>3, <1>5, <1>6

\* The bounds, types and locks of ManagedTypeOK hold after every step.
LEMMA NextTyped ==
  ASSUME TypedInv, [ManagedNext]_managedVars
  PROVE  TypedInv'
<1>1. CASE UNCHANGED managedVars
  BY <1>1, LoopFacts, LoopTyped DEF managedVars, sessionVars, managerVars, wireVars, LoopKeeps
<1>2. CASE Change
  <2>1. ASSUME NEW op \in Ops, NEW keys \in SUBSET Keys, Begin(op, keys, "pick") PROVE TypedInv'
    BY <2>1, BeginTyped
  <2>2. ASSUME NEW op \in Ops, NEW keys \in SUBSET Keys, NEW pc \in {"write", "record"}, Select(op, keys, pc),
               venue \notin {"kucoin", "kucoinFutures"}
        PROVE  TypedInv'
    <3>1. {k \in keys : Alters(op, k)} \in SUBSET Keys /\ Begin(op, {k \in keys : Alters(op, k)}, pc)
      BY <2>2 DEF Select
    <3>2. QED
      BY <2>2, <3>1, BeginTyped
  <2>3. CASE ChangeWrittenFirst /\ venue \in WrittenFirst
    BY <2>2, <2>3, ChangeTyped DEF ChangeWrittenFirst, WrittenFirst
  <2>4. CASE ChangeOptimistic /\ venue \notin {"kucoin", "kucoinFutures"}
    BY <2>1, <2>4, ChangeTyped DEF ChangeOptimistic
  <2>5. CASE ChangeWrittenEach /\ venue \in WrittenEach
    BY <2>1, <2>5, ChangeTyped DEF ChangeWrittenEach
  <2>6. CASE BinanceUsdmChange
    BY <2>2, <2>6, ChangeTyped DEF BinanceUsdmChange
  <2>7. CASE MexcChange
    BY <2>1, <2>7, ChangeTyped DEF MexcChange, MexcPick
  <2>8. CASE KorbitChange
    BY <2>1, <2>8, ChangeTyped DEF KorbitChange, KorbitPasses
  <2>9. CASE HtxPrivateChange
    BY <2>1, <2>9, ChangeTyped DEF HtxPrivateChange
  <2>10. CASE CryptocomPrivateChange
    BY <2>1, <2>10, ChangeTyped DEF CryptocomPrivateChange
  <2>11. QED
    BY <1>2, <2>3, <2>4, <2>5, <2>6, <2>7, <2>8, <2>9, <2>10
       DEF Change, OkxChange, BybitChange, CoinbaseChange, KrakenChange, KrakenFuturesChange, BitgetChange, BinanceChange,
           GateioChange, GateioFuturesChange, HtxChange, CryptocomChange, KucoinChange, KucoinFuturesChange, CoinoneChange,
           WrittenFirst, WrittenEach
<1>3. CASE ManagedNext /\ ~Change
  BY <1>3, HookTyped, HandleTyped, ActivationTyped, SessionTyped
     DEF ManagedNext, Loop, Hook, Resubscribe, OkxResubscribe, BybitResubscribe, CoinbaseResubscribe, KrakenResubscribe,
         KrakenFuturesResubscribe, BitgetResubscribe, BinanceResubscribe, CoinoneResubscribe, GateioResubscribe,
         GateioFuturesResubscribe, HtxResubscribe, CryptocomResubscribe, KucoinResubscribe, KucoinFuturesResubscribe,
         MexcResubscribe, BinanceUsdmResubscribe, KorbitResubscribe
<1>4. QED
  BY <1>1, <1>2, <1>3
-----------------------------------------------------------------------------
\* What comes: one more command decides about its own subscriptions, and reading one
\* changes nothing.
LEMMA SentComes ==
  ASSUME NEW k, NEW c \in WireCommands, wire \in Seq(WireCommands), wire' = wire \o <<c>>, server' = server
  PROVE  Comes(k)' <=> IF k \in c.keys THEN c.op = "subscribe" ELSE Comes(k)
<1>1. /\ Len(wire) \in Nat /\ DOMAIN wire = 1..Len(wire) /\ DOMAIN wire' = 1..Len(wire) + 1
      /\ \A i \in 1..Len(wire) : wire'[i] = wire[i]
      /\ wire'[Len(wire) + 1] = c
  BY Longer, LenProperties
<1>2. CASE k \in c.keys
  <2>1. ASSUME Comes(k)' PROVE c.op = "subscribe"
    <3>1. Len(wire) + 1 \in DOMAIN wire' /\ \A i \in DOMAIN wire' : i # Len(wire) + 1 => Len(wire) + 1 > i
      BY <1>1
    <3>2. QED
      BY <1>1, <1>2, <2>1, <3>1 DEF Comes
  <2>2. ASSUME c.op = "subscribe" PROVE Comes(k)'
    <3>1. Len(wire) + 1 \in DOMAIN wire' /\ \A i \in DOMAIN wire' : ~(i > Len(wire) + 1)
      BY <1>1
    <3>2. QED
      BY <1>1, <1>2, <2>2, <3>1 DEF Comes
  <2>3. QED
    BY <1>2, <2>1, <2>2
<1>3. CASE k \notin c.keys
  <2>1. \A i \in 1..Len(wire) + 1 : i \in 1..Len(wire) \/ i = Len(wire) + 1
    BY <1>1
  <2>2. (\A i \in DOMAIN wire' : k \notin wire'[i].keys) <=> \A i \in DOMAIN wire : k \notin wire[i].keys
    BY <1>1, <1>3, <2>1
  <2>3. ASSUME NEW i \in 1..Len(wire)
        PROVE  (\A j \in DOMAIN wire' : j > i => k \notin wire'[j].keys) <=> \A j \in DOMAIN wire : j > i => k \notin wire[j].keys
    BY <1>1, <1>3, <2>1
  <2>4. QED
    BY <1>1, <1>3, <2>1, <2>2, <2>3 DEF Comes
<1>4. QED
  BY <1>2, <1>3

LEMMA ReadComes ==
  ASSUME NEW k, wire \in Seq(WireCommands), wire # <<>>, wire' = Tail(wire),
         server' = Apply(Head(wire).op, Head(wire).keys, server)
  PROVE  Comes(k)' <=> Comes(k)
<1>1. /\ Head(wire) = wire[1] /\ wire[1] \in WireCommands /\ Len(wire) \in Nat \ {0} /\ DOMAIN wire = 1..Len(wire)
      /\ DOMAIN wire' = 1..Len(wire) - 1 /\ \A i \in 1..Len(wire) - 1 : wire'[i] = wire[i + 1]
  BY Shorter
<1>2. \A i \in 2..Len(wire) : i - 1 \in DOMAIN wire' /\ wire'[i - 1] = wire[i]
  BY <1>1
<1>3. \A i \in DOMAIN wire' : i + 1 \in 2..Len(wire) /\ wire'[i] = wire[i + 1]
  BY <1>1
<1>4. (\A i \in DOMAIN wire' : k \notin wire'[i].keys) <=> \A i \in 2..Len(wire) : k \notin wire[i].keys
  BY <1>2, <1>3
<1> DEFINE Last(i) == k \in wire[i].keys /\ wire[i].op = "subscribe" /\ \A j \in DOMAIN wire : j > i => k \notin wire[j].keys
           LastNow(i) == k \in wire'[i].keys /\ wire'[i].op = "subscribe" /\ \A j \in DOMAIN wire' : j > i => k \notin wire'[j].keys
<1>5. ASSUME NEW i \in DOMAIN wire', LastNow(i) PROVE Last(i + 1)
  <2>1. ASSUME NEW j \in DOMAIN wire, j > i + 1 PROVE k \notin wire[j].keys
    <3>1. j - 1 \in DOMAIN wire' /\ wire'[j - 1] = wire[j] /\ j - 1 > i
      BY <1>1, <1>2, <2>1
    <3>2. QED
      BY <1>5, <3>1
  <2>2. QED
    BY <1>3, <1>5, <2>1
<1>6. ASSUME NEW i \in 2..Len(wire), Last(i) PROVE LastNow(i - 1)
  <2>1. ASSUME NEW j \in DOMAIN wire', j > i - 1 PROVE k \notin wire'[j].keys
    <3>1. j + 1 \in DOMAIN wire /\ wire'[j] = wire[j + 1] /\ j + 1 > i
      BY <1>1, <2>1
    <3>2. QED
      BY <1>6, <3>1
  <2>2. QED
    BY <1>2, <1>6, <2>1
<1>7. Comes(k)' <=> (k \in server' /\ \A i \in 2..Len(wire) : k \notin wire[i].keys) \/ \E i \in 2..Len(wire) : Last(i)
  <2>1. (\E i \in DOMAIN wire' : LastNow(i)) <=> \E i \in 2..Len(wire) : Last(i)
    BY <1>2, <1>3, <1>5, <1>6
  <2>2. Comes(k)' <=> (k \in server' /\ \A i \in DOMAIN wire' : k \notin wire'[i].keys) \/ \E i \in DOMAIN wire' : LastNow(i)
    BY DEF Comes
  <2> HIDE DEF Last, LastNow
  <2>3. QED
    BY <1>4, <2>1, <2>2
<1>8. Comes(k) <=> (k \in server /\ \A i \in 1..Len(wire) : k \notin wire[i].keys) \/ Last(1) \/ \E i \in 2..Len(wire) : Last(i)
  <2>1. \A i \in 1..Len(wire) : i = 1 \/ i \in 2..Len(wire)
    BY <1>1
  <2>2. 1 \in DOMAIN wire /\ \A i \in 2..Len(wire) : i \in DOMAIN wire
    BY <1>1
  <2>3. QED
    BY <1>1, <2>1, <2>2 DEF Comes
<1>9. Last(1) <=> k \in wire[1].keys /\ wire[1].op = "subscribe" /\ \A i \in 2..Len(wire) : k \notin wire[i].keys
  BY <1>1
<1>10. (\A i \in 1..Len(wire) : k \notin wire[i].keys) <=> k \notin wire[1].keys /\ \A i \in 2..Len(wire) : k \notin wire[i].keys
  BY <1>1
<1>11. k \in server' <=> IF k \in wire[1].keys THEN wire[1].op = "subscribe" ELSE k \in server
  BY <1>1 DEF Apply, WireCommands
<1> HIDE DEF Last
<1>12. QED
  BY <1>7, <1>8, <1>9, <1>10, <1>11
-----------------------------------------------------------------------------
\* The managers that leave answers to the application.
LEMMA UntrackedSame ==
  ASSUME UntrackedInv, UNCHANGED <<venue, phase, broken, answers>>, phase # "hook", told \subseteq told',
         ~broken => \A k \in Keys \ told' :
           \/ (Comes(k)' <=> Comes(k)) /\ (Wanted(k)' <=> Wanted(k))
           \/ Comes(k)' <=> Wanted(k)'
  PROVE  UntrackedInv'
BY DEF UntrackedInv, Accepted

\* A command that says what is wanted is written, for the subscriptions in keys.
LEMMA SentWanted ==
  ASSUME TypedInv, UntrackedInv, UNCHANGED <<venue, phase, broken, answers, told, server>>, phase # "hook",
         NEW keys \in SUBSET Keys, Sent(Command(nextID, call.op, keys)),
         \A k \in Keys : IF k \in keys THEN Wanted(k)' <=> call.op = "subscribe" ELSE Wanted(k)' <=> Wanted(k)
  PROVE  UntrackedInv'
<1> DEFINE c == Command(nextID, call.op, keys)
<1>1. c \in WireCommands /\ c.op = call.op /\ c.keys = keys /\ wire \in Seq(WireCommands)
  BY CallFacts, LoopFacts DEF WireCommands, Command
<1>2. ~broken => wire' = wire \o <<c>>
  BY DEF Sent
<1> HIDE DEF c
<1>3. ~broken => \A k \in Keys : Comes(k)' <=> IF k \in c.keys THEN c.op = "subscribe" ELSE Comes(k)
  BY <1>1, <1>2, SentComes
<1>4. QED
  BY <1>1, <1>3, UntrackedSame

LEMMA KeptComes ==
  ASSUME UNCHANGED <<wire, server>>, NEW k
  PROVE  Comes(k)' <=> Comes(k)
BY DEF Comes

LEMMA UntrackedChange ==
  ASSUME TypedInv, UntrackedInv, venue \in Untracked, Change
  PROVE  UntrackedInv'
<1> USE DEF sessionVars, managerVars, wireVars
<1>1. ASSUME NEW op, NEW keys, NEW pc, Begin(op, keys, pc) PROVE UntrackedInv'
  <2>1. phase # "hook" /\ call = Idle
    BY <1>1, LoopFacts DEF Begin, TypedInv
  <2>2. UNCHANGED <<venue, phase, broken, answers, told, wire, server, list>> /\ call'.now = {} /\ call.now = {}
    BY <1>1, <2>1 DEF Begin, Idle
  <2>3. \A k \in Keys : Wanted(k)' <=> Wanted(k)
    BY <2>2 DEF Wanted, Written
  <2>4. QED
    BY <2>1, <2>2, <2>3, KeptComes, UntrackedSame
<1>2. ASSUME call.pc # "idle" PROVE phase # "hook"
  BY <1>2, LoopFacts
<1>3. ASSUME NEW c \in SUBSET call.keys, WriteSome(c), venue # "coinone" PROVE UntrackedInv'
  <2>1. Sent(Command(nextID, call.op, c)) /\ UNCHANGED <<venue, phase, broken, answers, told, server, list>> /\ call.pc # "idle"
    BY <1>3, WriteSends DEF WriteSome
  <2>2. call'.now = call.now \cup c /\ call'.op = call.op
    BY <1>3, CallFacts DEF WriteSome, TypedInv, Calls
  <2>3. \A k \in Keys : IF k \in c THEN Wanted(k)' <=> call.op = "subscribe" ELSE Wanted(k)' <=> Wanted(k)
    BY <1>3, <2>1, <2>2 DEF Wanted, Written
  <2>4. c \in SUBSET Keys
    BY CallFacts
  <2>5. QED
    BY <1>2, <2>1, <2>3, <2>4, SentWanted
<1>4. ASSUME call.pc = "record", list' = Apply(call.op, call.now, list), call'.now = {},
             UNCHANGED <<venue, phase, broken, answers, told, wire, server>>
      PROVE  UntrackedInv'
  <2>1. \A k \in Keys : Wanted(k)' <=> Wanted(k)
    BY <1>4 DEF Wanted, Written, Apply
  <2>2. QED
    BY <1>2, <1>4, <2>1, KeptComes, UntrackedSame
<1>5. ASSUME WriteSomeFails, venue # "coinone" PROVE UntrackedInv'
  <2>1. /\ UNCHANGED <<venue, phase, broken, answers, wire, server, list>> /\ call.pc # "idle"
        /\ told' = told \cup call.keys \cup call.now /\ call'.now = {}
    BY <1>5 DEF WriteSomeFails, Return, Idle
  <2>2. \A k \in Keys \ told' : Wanted(k)' <=> Wanted(k)
    BY <1>5, <2>1 DEF Wanted, Written
  <2>3. QED
    BY <1>2, <2>1, <2>2, KeptComes, UntrackedSame
<1>6. ASSUME call.pc # "idle", call.pc # "record", call'.pc # "record", venue = "coinone", told \subseteq told',
             UNCHANGED <<venue, phase, broken, answers, wire, server, list>>
      PROVE  UntrackedInv'
  <2>1. \A k \in Keys : Wanted(k)' <=> Wanted(k)
    BY <1>6 DEF Wanted, Written
  <2>2. QED
    BY <1>2, <1>6, <2>1, KeptComes, UntrackedSame
<1>7. ASSUME RecordAll, venue # "coinone" PROVE UntrackedInv'
  BY <1>4, <1>7 DEF RecordAll, Return, Idle
<1>8. CASE venue # "coinone"
  <2>1. ChangeWrittenFirst
    BY <1>8 DEF Untracked, Change, OkxChange, BybitChange, CoinbaseChange, KrakenChange, KrakenFuturesChange, BitgetChange,
       BinanceChange, GateioChange, GateioFuturesChange, HtxChange, CryptocomChange, KucoinChange, KucoinFuturesChange,
       CoinoneChange, BinanceUsdmChange, MexcChange, KorbitChange, HtxPrivateChange, CryptocomPrivateChange
  <2>2. ASSUME NEW op \in Ops, NEW keys \in SUBSET Keys, Select(op, keys, "write") PROVE UntrackedInv'
    BY <1>1, <2>2 DEF Select
  <2>3. QED
    BY <1>3, <1>5, <1>7, <1>8, <2>1, <2>2 DEF ChangeWrittenFirst
<1>9. CASE venue = "coinone"
  <2>1. ChangeWrittenEach
    BY <1>9 DEF Change, OkxChange, BybitChange, CoinbaseChange, KrakenChange, KrakenFuturesChange, BitgetChange,
       BinanceChange, GateioChange, GateioFuturesChange, HtxChange, CryptocomChange, KucoinChange, KucoinFuturesChange,
       CoinoneChange, BinanceUsdmChange, MexcChange, KorbitChange, HtxPrivateChange, CryptocomPrivateChange
  <2>2. ASSUME NEW k \in call.keys, Pick(k, "write") PROVE UntrackedInv'
    <3>1. call.pc = "pick" /\ told \subseteq told' /\ UNCHANGED <<venue, phase, broken, answers, wire, server, list>>
      BY <2>2 DEF Pick, Return, GoOn
    <3>2. call'.pc # "record"
      <4>1. \/ call' = Idle
            \/ call' = [call EXCEPT !.pc = "pick", !.keys = call.keys \ {k}, !.now = {}]
            \/ call' = [call EXCEPT !.pc = "write", !.keys = call.keys \ {k}, !.now = {k}]
        BY <2>2 DEF Pick, Return, GoOn
      <4>2. call \in Calls
        BY DEF TypedInv
      <4>3. Idle.pc = "idle"
        BY DEF Idle
      <4>4. CASE call' = [call EXCEPT !.pc = "pick", !.keys = call.keys \ {k}, !.now = {}]
        BY <4>2, <4>4 DEF Calls
      <4>5. CASE call' = [call EXCEPT !.pc = "write", !.keys = call.keys \ {k}, !.now = {k}]
        BY <4>2, <4>5 DEF Calls
      <4>6. QED
        BY <4>1, <4>3, <4>4, <4>5
    <3>3. QED
      BY <1>6, <1>9, <3>1, <3>2
  <2>3. ASSUME WriteUnrecorded PROVE UntrackedInv'
    <3>1. /\ Sent(Command(nextID, call.op, call.now)) /\ call.pc = "write"
          /\ UNCHANGED <<venue, phase, broken, answers, told, server, list>>
      BY <2>3, WriteSends DEF WriteUnrecorded
    <3>2. call'.now = call.now /\ call'.op = call.op /\ call'.pc = "record"
      BY <2>3 DEF WriteUnrecorded, TypedInv, Calls
    <3>3. \A k \in Keys : IF k \in call.now THEN Wanted(k)' <=> call.op = "subscribe" ELSE Wanted(k)' <=> Wanted(k)
      BY <1>9, <3>1, <3>2 DEF Wanted, Written
    <3>4. QED
      BY <1>2, <3>1, <3>3, SentWanted, CallFacts
  <2>4. ASSUME RecordWritten PROVE UntrackedInv'
    <3>1. call'.now = {} /\ told' = told
      <4>1. (call' = Idle \/ call' = [call EXCEPT !.pc = "pick", !.keys = call.keys, !.now = {}]) /\ told' = told
        BY <2>4 DEF RecordWritten, GoOn, Return
      <4>2. call \in Calls
        BY DEF TypedInv
      <4>3. Idle.now = {}
        BY DEF Idle
      <4>4. [call EXCEPT !.pc = "pick", !.keys = call.keys, !.now = {}].now = {}
        BY <4>2 DEF Calls
      <4>5. QED
        BY <4>1, <4>3, <4>4
    <3>2. QED
      BY <1>4, <2>4, <3>1 DEF RecordWritten
  <2>5. ASSUME WriteUnrecordedFails PROVE UntrackedInv'
    BY <1>6, <1>9, <2>5 DEF WriteUnrecordedFails, Return, Idle
  <2>6. QED
    BY <1>1, <2>1, <2>2, <2>3, <2>4, <2>5 DEF ChangeWrittenEach
<1>10. QED
  BY <1>8, <1>9
LEMMA UntrackedLoop ==
  ASSUME TypedInv, UntrackedInv, venue \in Untracked, Hook \/ Handle \/ Activation \/ Connect \/ Disconnect \/ Break \/ Serve \/ Over
  PROVE  UntrackedInv'
<1> USE DEF sessionVars, managerVars, wireVars
<1>0. venue \notin Private \cup {"coinbase", "korbit"} \cup Tracking
  BY DEF Untracked, Private, Tracking, Optimistic, WrittenEach
<1>1. ASSUME Lock PROVE UntrackedInv'
  <2>1. /\ call.pc = "idle" /\ phase = "connected" /\ phase' = "hook" /\ todo' = list
        /\ UNCHANGED <<venue, broken, answers, told, wire, server, list, call>>
    BY <1>1, LoopFacts DEF Lock
  <2>2. call.now = {}
    BY <2>1 DEF TypedInv, Idle
  <2>3. \A k \in Keys : Wanted(k) <=> k \in list
    BY <2>2 DEF Wanted, Written
  <2>4. \A k \in Keys : Wanted(k)' <=> k \in list
    BY <2>1, <2>2 DEF Wanted, Written
  <2>5. QED
    BY <2>1, <2>3, <2>4, KeptComes DEF UntrackedInv, Accepted
<1>2. ASSUME RewriteUntracked PROVE UntrackedInv'
  <2> DEFINE c == Command(nextID, "subscribe", FirstPortion(todo))
  <2>1. /\ phase = "hook" /\ todo' = todo \ FirstPortion(todo) /\ Sent(c)
        /\ UNCHANGED <<venue, phase, broken, answers, told, server, list, call>>
    BY <1>2 DEF RewriteUntracked, HookWrite, Sent
  <2>2. FirstPortion(todo) \subseteq todo /\ FirstPortion(todo) \in SUBSET Keys
    BY LoopFacts DEF FirstPortion
  <2>3. c \in WireCommands /\ c.op = "subscribe" /\ c.keys = FirstPortion(todo) /\ wire \in Seq(WireCommands)
    BY <2>2, LoopFacts DEF WireCommands, Command, Ops
  <2>4. call.now = {}
    BY <2>1, LoopFacts DEF TypedInv, Idle
  <2>5. \A k \in Keys : (Wanted(k) <=> k \in list) /\ (Wanted(k)' <=> k \in list)
    BY <2>1, <2>4 DEF Wanted, Written
  <2> HIDE DEF c
  <2>6. ~broken => \A k \in Keys : Comes(k)' <=> IF k \in FirstPortion(todo) THEN TRUE ELSE Comes(k)
    BY <2>1, <2>3, SentComes DEF Sent
  <2>7. QED
    BY <2>1, <2>2, <2>5, <2>6 DEF UntrackedInv, Accepted
<1>3. ASSUME HookDone PROVE UntrackedInv'
  <2>1. \A k \in Keys : (Wanted(k)' <=> Wanted(k)) /\ (Comes(k)' <=> Comes(k))
    BY <1>3, KeptComes DEF HookDone, Wanted, Written
  <2>2. QED
    BY <1>3, <2>1 DEF HookDone, UntrackedInv, Accepted
<1>4. ASSUME phase' \in {"down", "stopped"}, answers' = <<>>, venue' = venue PROVE UntrackedInv'
  BY <1>4 DEF UntrackedInv, Accepted
<1>5. ASSUME Handle PROVE UntrackedInv'
  <2>1. /\ UNCHANGED <<venue, broken, call, todo, told>> /\ phase = "serving" /\ answers # <<>>
        /\ IF phase' = "stopped" THEN Disconnected
           ELSE answers' = Tail(answers) /\ UNCHANGED <<wire, server>>
    BY <1>5 DEF Handle
  <2>2. /\ list' = list
        /\ \/ phase' = "stopped"
           \/ phase' = phase /\ (venue \in {"kraken", "krakenFutures"} => Answer.status = "ok")
    BY <1>0, <1>5, <2>1 DEF Handle, GateioHandleControl, GateioFuturesHandleControl, HtxHandleControl, KucoinHandleControl,
       KucoinFuturesHandleControl, BinanceUsdmHandleControl, KorbitHandleControl, CryptocomHandleControl, MexcHandleControl,
       KrakenRun, KrakenFuturesRun, PassOn, HtxPrivateHandleControl, HandleLogin, Tracking, Optimistic, WrittenEach, Private, Untracked
  <2>3. CASE phase' = "stopped"
    BY <1>4, <2>1, <2>3 DEF Disconnected
  <2>4. CASE phase' = phase
    <3>1. answers' = Tail(answers) /\ UNCHANGED <<wire, server>>
      BY <2>1, <2>4
    <3>2. /\ Head(answers) = answers[1] /\ DOMAIN answers = 1..Len(answers) /\ DOMAIN answers' = 1..Len(answers) - 1
          /\ Len(answers) \in Nat \ {0} /\ \A i \in DOMAIN answers' : answers'[i] = answers[i + 1]
      BY <2>1, <3>1, LoopFacts, Shorter
    <3>3. Answer.status = "ok" => (Accepted' <=> Accepted)
      <4>1. \A i \in 1..Len(answers) - 1 : i + 1 \in 1..Len(answers)
        BY <3>2
      <4>3. QED
        <5>1. Accepted <=> \A i \in 1..Len(answers) : answers[i].status = "ok"
          BY <3>2 DEF Accepted
        <5>2. Accepted' <=> \A i \in 1..Len(answers) - 1 : answers[i + 1].status = "ok"
          BY <3>2 DEF Accepted
        <5>3. Answer = answers[1]
          BY <3>2 DEF Answer
        <5>4. \A i \in 2..Len(answers) : i - 1 \in 1..Len(answers) - 1 /\ i = (i - 1) + 1
          BY <3>2
        <5>5. \A i \in 1..Len(answers) : i = 1 \/ i \in 2..Len(answers)
          BY <3>2
        <5>6. QED
          BY <4>1, <5>1, <5>2, <5>3, <5>4, <5>5
    <3>4. Accepted => Answer.status = "ok"
      BY <3>2 DEF Accepted, Answer
    <3>5. Answer.status = "ok"
      BY <2>1, <2>2, <2>4, <3>4 DEF UntrackedInv
    <3>6. \A k \in Keys : (Wanted(k)' <=> Wanted(k)) /\ (Comes(k)' <=> Comes(k))
      BY <2>1, <2>2, <3>1, KeptComes DEF Wanted, Written
    <3>7. QED
      BY <2>1, <2>4, <3>3, <3>5, <3>6 DEF UntrackedInv
  <2>5. QED
    BY <2>2, <2>3, <2>4
<1>6. ASSUME Connect PROVE UntrackedInv'
  <2>1. wire' = <<>> /\ server' = {} /\ phase' = "connected" /\ answers' = <<>> /\ venue' = venue
    BY <1>6, LoopFacts DEF Connect
  <2>2. \A k \in Keys : ~Comes(k)'
    BY <2>1 DEF Comes
  <2>3. QED
    BY <2>1, <2>2 DEF UntrackedInv, Accepted
<1>7. ASSUME Break PROVE UntrackedInv'
  BY <1>7 DEF Break, UntrackedInv, Accepted
<1>8. ASSUME NEW status, AnswerWith(status), wire # <<>>,
             status = "ok" => server' = Apply(Head(wire).op, Head(wire).keys, server),
             status # "ok" => venue \in {"kraken", "krakenFutures"}
      PROVE  UntrackedInv'
  <2>1. UNCHANGED <<venue, phase, broken, told, list, todo, call>>
    BY <1>8 DEF AnswerWith
  <2> DEFINE a == [id |-> Head(wire).id, op |-> Head(wire).op, keys |-> Head(wire).keys, status |-> status]
  <2>2. a.status = status /\ answers' = Append(answers, a) /\ wire' = Tail(wire)
    BY <1>8 DEF AnswerWith
  <2> HIDE DEF a
  <2>3. /\ DOMAIN answers = 1..Len(answers) /\ DOMAIN answers' = 1..Len(answers) + 1 /\ Len(answers) \in Nat
        /\ (\A i \in 1..Len(answers) : answers'[i] = answers[i]) /\ answers'[Len(answers) + 1] = a
    <3>1. answers \in Seq(WireAnswers \cup {a}) /\ a \in WireAnswers \cup {a}
      BY LoopFacts
    <3>2. QED
      BY <2>2, <3>1, Longer, LenProperties
  <2>4. Accepted' <=> Accepted /\ status = "ok"
    <3>1. \A i \in 1..Len(answers) + 1 : i \in 1..Len(answers) \/ i = Len(answers) + 1
      BY <2>3
    <3>2. Len(answers) + 1 \in DOMAIN answers' /\ \A i \in DOMAIN answers : i \in DOMAIN answers'
      BY <2>3
    <3>3. QED
      BY <2>2, <2>3, <3>1, <3>2 DEF Accepted
  <2>5. status = "ok" => \A k \in Keys : (Comes(k)' <=> Comes(k)) /\ (Wanted(k)' <=> Wanted(k))
    BY <1>8, <2>1, <2>2, LoopFacts, ReadComes DEF Wanted, Written
  <2>6. QED
    BY <1>8, <2>1, <2>4, <2>5 DEF UntrackedInv
<1>9. ASSUME Serve PROVE UntrackedInv'
  <2>1. ASSUME Accept PROVE UntrackedInv'
    BY <1>8, <2>1 DEF Accept
  <2>2. ASSUME Reject PROVE UntrackedInv'
    <3>1. PICK status \in Errors : AnswerWith(status) /\ wire # <<>>
      BY <2>2 DEF Reject
    <3>2. status # "ok" /\ venue \in {"kraken", "krakenFutures"}
      <4>1. IF venue \in {"kraken", "krakenFutures"} THEN Errors = {"error"} ELSE Errors = {}
        <5>1. venue \notin Tracking /\ venue # "mexc" /\ venue \notin {"cryptocom", "cryptocomPrivate"}
          BY <1>0 DEF Tracking, Optimistic, WrittenEach
        <5>2. QED
          BY <5>1 DEF Errors
      <4>2. QED
        BY <3>1, <4>1
    <3>3. QED
      BY <1>8, <3>1, <3>2
  <2>3. QED
    BY <1>9, <2>1, <2>2 DEF Serve
<1>10. ASSUME Over PROVE UntrackedInv'
  BY <1>10 DEF Over, managedVars, UntrackedInv, Accepted, Comes, Wanted, Written
<1>11. ASSUME Hook PROVE UntrackedInv'
  <2>1. Lock \/ RewriteUntracked \/ HookDone \/ HookFails
    BY <1>0, <1>11 DEF Hook, Resubscribe, OkxResubscribe, BybitResubscribe, CoinbaseResubscribe, KrakenResubscribe,
        KrakenFuturesResubscribe, BitgetResubscribe, BinanceResubscribe, CoinoneResubscribe, GateioResubscribe,
        GateioFuturesResubscribe, HtxResubscribe, CryptocomResubscribe, KucoinResubscribe, KucoinFuturesResubscribe,
        MexcResubscribe, BinanceUsdmResubscribe, KorbitResubscribe, Tracking, Optimistic, WrittenEach,
        CoinbaseSnapshot, CoinbaseLock, Authenticate, Login, LoginFails
  <2>2. ASSUME HookFails PROVE UntrackedInv'
    BY <1>4, <2>2 DEF HookFails, Disconnected
  <2>3. QED
    BY <1>1, <1>2, <1>3, <2>1, <2>2
<1>12. ASSUME Disconnect PROVE UntrackedInv'
  BY <1>4, <1>12 DEF Disconnect, Disconnected
<1>13. ASSUME Activation PROVE UntrackedInv'
  BY <1>0, <1>13, LoopFacts DEF Activation, Activate, ActivateNext, ActivateFails, ActivateDone
<1>20. QED
  BY <1>5, <1>6, <1>7, <1>9, <1>10, <1>11, <1>12, <1>13
-----------------------------------------------------------------------------
\* The managers that match answers with pending commands.
MatchInv == TypedInv /\ PendingInv /\ OrderInv /\ AgreementInv /\ ConnectedInv /\ LoginInv

LEMMA PendingFacts ==
  ASSUME TypedInv, PendingInv, venue \in Matching
  PROVE  /\ NotedInv /\ CallInv /\ TodoInv /\ nextID \in Nat \ {0} /\ call \in Calls /\ pending \subseteq Pendings
         /\ call.pc # "idle" => todo = {}
         /\ phase \in {"hook", "activating"} \/ owner = "none" \/ call.pc = "idle" => call = Idle
         /\ Unnoted \subseteq Keys /\ call.keys \subseteq Unnoted
         /\ call.pc \in {"record", "send"} => call.now \subseteq Unnoted
<1>1. call.pc # "idle" => todo = {}
  BY LoopFacts DEF PendingInv, TodoInv
<1>2. phase \in {"hook", "activating"} \/ owner = "none" \/ call.pc = "idle" => call = Idle
  BY LoopFacts DEF TypedInv
<1>3. call.keys \subseteq Keys /\ call.now \subseteq Keys
  BY CallFacts
<1>4. QED
  BY <1>1, <1>2, <1>3 DEF PendingInv, TypedInv, Unnoted

\* A command for subscriptions that wait for nothing, listed as it wants them.
LEMMA NoteOne ==
  ASSUME NotedInv, nextID \in Nat, NEW op, NEW keys, NEW id \in Nat, id <= nextID', nextID \in Nat, nextID' \in Nat, 
         \A p \in pending : p.id # id /\ p.id # nextID' /\ p.id <= nextID',
         keys # {}, \A k \in keys : ~Waits(k) /\ (k \in list' <=> op = "subscribe"),
         \A k : k \notin keys => (k \in list' <=> k \in list), id = nextID' => call'.pc = "write",
         pending' = pending \cup {Command(id, op, keys)}
  PROVE  NotedInv' /\ \A k : Waits(k)' <=> Waits(k) \/ k \in keys
<1> DEFINE c == Command(id, op, keys)
<1>1. c.id = id /\ c.op = op /\ c.keys = keys
  BY DEF Command
<1>2. pending' = pending \cup {c}
  OBVIOUS
<1> HIDE DEF c
<1>3. \A k : Waits(k)' <=> Waits(k) \/ k \in keys
  BY <1>1, <1>2 DEF Waits
<1>4. \A p \in pending : p.keys \cap keys = {}
  BY DEF Waits
<1>5. (\A p \in pending : p.keys # {} /\ p.id <= nextID /\ (p.id = nextID => call.pc = "write"))'
  BY <1>1, <1>2 DEF NotedInv
<1>6. (\A p, q \in pending : p # q => p.id # q.id /\ p.keys \cap q.keys = {})'
  BY <1>1, <1>2, <1>4 DEF NotedInv
<1>7. (\A p \in pending : \A k \in p.keys : k \in list <=> p.op = "subscribe")'
  BY <1>1, <1>2, <1>4 DEF NotedInv
<1>8. QED
  BY <1>3, <1>5, <1>6, <1>7 DEF NotedInv

\* Commands that no longer wait, and a list that differs at most in their subscriptions.
LEMMA DropSome ==
  ASSUME NotedInv, NEW found \in SUBSET pending, pending' = pending \ found, nextID \in Nat, nextID' \in Nat, nextID <= nextID',
         \A p \in pending' : p.id = nextID' => call'.pc = "write",
         \A p \in pending \ found : \A k \in p.keys : k \in list' <=> k \in list,
         \A p \in pending : p.id \in Nat
  PROVE  NotedInv' /\ \A k : Waits(k)' => Waits(k)
BY DEF NotedInv, Waits
\* The steps of a call that the managers which match answers take.
LEMMA MatchingChange ==
  ASSUME venue \in Matching, Change
  PROVE  \/ \E op \in Ops, keys \in SUBSET Keys : venue # "binanceUsdm" /\ Patient(keys) /\ Begin(op, keys, "pick")
         \/ \E op \in Ops, keys \in SUBSET Keys : venue = "binanceUsdm" /\ Patient(keys) /\ Select(op, keys, "record")
         \/ \E k \in call.keys, pc \in {"record", "write"} :
              venue # "binanceUsdm" /\ Pick(k, pc) /\ (pc = "write" => ~Alters(call.op, k) \/ AtLimit)
         \/ PrepareFails
         \/ Record /\ venue # "binanceUsdm" /\ (venue \in Private => auth.authenticated)
         \/ WriteRecorded \/ WriteRecordedFails
         \/ venue \in Private /\ RecordBeforeLogin
         \/ venue \in Private /\ (CryptocomRecord \/ CryptocomSend \/ CryptocomSendFails)
         \/ venue = "binanceUsdm" /\ UsdmRecord
         \/ venue = "korbit" /\ ((\E k \in call.keys : KorbitRecord(k)) \/ KorbitWriteFails)
<1> USE DEF Matching, Tracked, Private
<1>1. CASE ChangeOptimistic /\ venue \in {"gateio", "gateioFutures", "htx", "cryptocom"}
  BY <1>1 DEF ChangeOptimistic
<1>2. CASE BinanceUsdmChange
  BY <1>2 DEF BinanceUsdmChange
<1>3. CASE KorbitChange
  BY <1>3 DEF KorbitChange, KorbitPasses
<1>4. CASE HtxPrivateChange
  BY <1>4 DEF HtxPrivateChange
<1>5. CASE CryptocomPrivateChange
  BY <1>5 DEF CryptocomPrivateChange
<1>6. QED
  BY <1>1, <1>2, <1>3, <1>4, <1>5
     DEF Change, OkxChange, BybitChange, CoinbaseChange, KrakenChange, KrakenFuturesChange, BitgetChange, BinanceChange,
         GateioChange, GateioFuturesChange, HtxChange, CryptocomChange, KucoinChange, KucoinFuturesChange, CoinoneChange,
         MexcChange

LEMMA GoesOn ==
  ASSUME call \in Calls, NEW left, GoOn(left)
  PROVE  /\ call'.pc \in {"idle", "pick"} /\ call'.keys \subseteq left /\ call'.now = {} /\ told' = told
<1>1. CASE left = {}
  BY <1>1 DEF GoOn, Return, Idle
<1>2. CASE left # {}
  <2>1. call' = [call EXCEPT !.pc = "pick", !.keys = left, !.now = {}] /\ told' = told
    BY <1>2 DEF GoOn
  <2>2. QED
    BY <2>1 DEF Calls
<1>3. QED
  BY <1>1, <1>2

\* A call that notes nothing: it returns, or goes on with less.
LEMMA NothingNoted ==
  ASSUME TypedInv, PendingInv, venue \in Matching, UNCHANGED <<venue, phase, list, pending, todo>>,
         nextID' \in Nat, nextID <= nextID', \A p \in pending : p.id = nextID' => call'.pc = "write",
         call'.pc \in {"idle", "pick"}, call'.keys \subseteq Unnoted, call'.now = {}
  PROVE  NotedInv' /\ CallInv' /\ TodoInv'
<1>1. NotedInv' /\ \A k : Waits(k)' <=> Waits(k)
  <2>1. NotedInv /\ nextID \in Nat /\ \A p \in pending : p.id \in Nat
    BY PendingFacts DEF Pendings
  <2>2. \A p \in pending : p.id <= nextID'
    BY <2>1 DEF NotedInv
  <2>3. QED
    BY <2>1, <2>2 DEF NotedInv, Waits
<1>2. CallInv'
  BY <1>1, PendingFacts DEF CallInv, Unnoted
<1>3. TodoInv'
  BY <1>1, PendingFacts DEF TodoInv
<1>4. QED
  BY <1>1, <1>2, <1>3

LEMMA PendingChange ==
  ASSUME TypedInv, PendingInv, OrderInv, LoginInv, venue \in Matching, Change
  PROVE  PendingInv'
<1> USE DEF sessionVars, managerVars, wireVars
<1>0. /\ NotedInv /\ CallInv /\ TodoInv /\ nextID \in Nat /\ nextID + 1 \in Nat /\ call \in Calls
      /\ call.pc # "idle" => todo = {}
      /\ \A p \in pending : p.id \in Nat /\ p.id <= nextID /\ p.id # nextID + 1
      /\ call.pc # "write" => \A p \in pending : p.id # nextID
  BY PendingFacts, LoopFacts DEF NotedInv, Pendings
<1>1. ASSUME NEW op \in Ops, NEW keys \in SUBSET Keys, venue # "binanceUsdm", Patient(keys), Begin(op, keys, "pick")
      PROVE  NotedInv' /\ CallInv' /\ TodoInv'
  <2>1. UNCHANGED <<venue, phase, list, pending, todo, nextID>> /\ call' = [pc |-> "pick", op |-> op, keys |-> keys, now |-> {}]
    BY <1>1 DEF Begin
  <2>2. \A k \in keys : ~Waits(k)
    BY <1>1 DEF Patient, Waits
  <2>3. NotedInv' /\ \A k : Waits(k)' <=> Waits(k)
    BY <1>0, <1>1, <2>1 DEF NotedInv, Waits, Begin
  <2>4. CallInv' /\ TodoInv'
    BY <1>0, <2>1, <2>2, <2>3 DEF CallInv, TodoInv, Unnoted
  <2>5. QED
    BY <2>3, <2>4
<1>2. ASSUME NEW op \in Ops, NEW keys \in SUBSET Keys, venue = "binanceUsdm", Patient(keys), Select(op, keys, "record")
      PROVE  NotedInv' /\ CallInv' /\ TodoInv'
  <2> DEFINE selected == {k \in keys : Alters(op, k)}
  <2>1. UNCHANGED <<venue, phase, list, pending, todo, nextID>> /\ call' = [pc |-> "record", op |-> op, keys |-> selected, now |-> {}]
        /\ selected # {} /\ call.pc = "idle"
    BY <1>2 DEF Select, Begin
  <2>2. \A k \in selected : ~Waits(k) /\ Alters(op, k)
    BY <1>2 DEF Patient, Waits
  <2> HIDE DEF selected
  <2>3. NotedInv' /\ \A k : Waits(k)' <=> Waits(k)
    <3>1. (\A p \in pending : p.id # nextID) /\ UNCHANGED <<list, pending, nextID>>
      BY <1>0, <2>1
    <3>2. QED
      BY <1>0, <3>1 DEF NotedInv, Waits
  <2>4. CallInv' /\ TodoInv'
    BY <1>0, <1>2, <2>1, <2>2, <2>3 DEF CallInv, TodoInv, Unnoted, Due, Alters
  <2>5. QED
    BY <2>3, <2>4
<1>3. ASSUME NEW left \in SUBSET call.keys, GoOn(left), call.pc # "idle", nextID' \in {nextID, nextID + 1},
             call.pc = "write" => nextID' = nextID + 1, UNCHANGED <<venue, phase, list, pending, todo>>
      PROVE  NotedInv' /\ CallInv' /\ TodoInv'
  <2>2. call'.pc \in {"idle", "pick"} /\ call'.keys \subseteq left /\ call'.now = {}
    BY <1>0, <1>3, GoesOn
  <2>3. call'.keys \subseteq Unnoted
    BY <2>2 DEF Unnoted
  <2>4. \A p \in pending : p.id # nextID'
    BY <1>0, <1>3
  <2>5. QED
    BY <1>0, <1>3, <2>2, <2>3, <2>4, NothingNoted
<1>4. ASSUME NEW failed, Return(failed), call.pc # "idle", nextID' \in {nextID, nextID + 1},
             call.pc = "write" => nextID' = nextID + 1, UNCHANGED <<venue, phase, list, pending, todo>>
      PROVE  NotedInv' /\ CallInv' /\ TodoInv'
  <2>1. call'.pc \in {"idle", "pick"} /\ call'.keys \subseteq Unnoted /\ call'.now = {}
    BY <1>4 DEF Return, Idle
  <2>2. \A p \in pending : p.id # nextID'
    BY <1>0, <1>4
  <2>3. QED
    BY <1>0, <1>4, <2>1, <2>2, NothingNoted
<1>5. ASSUME NEW k \in call.keys, NEW pc \in {"record", "write"}, venue # "binanceUsdm", Pick(k, pc),
             pc = "write" => ~Alters(call.op, k) \/ AtLimit
      PROVE  NotedInv' /\ CallInv' /\ TodoInv'
  <2>1. call.pc = "pick" /\ UNCHANGED <<venue, phase, list, pending, todo, nextID>>
    BY <1>5 DEF Pick
  <2>2. CASE GoOn(call.keys \ {k}) \/ Return({})
    BY <1>3, <1>4, <2>1, <2>2
  <2>3. CASE Alters(call.op, k) /\ pc = "record" /\ call' = [call EXCEPT !.pc = pc, !.keys = @ \ {k}, !.now = {k}]
    <3>1. call'.pc = "record" /\ call'.keys = call.keys \ {k} /\ call'.now = {k} /\ call'.op = call.op
      BY <1>0, <2>3 DEF Calls
    <3>2. NotedInv' /\ \A j : Waits(j)' <=> Waits(j)
      BY <1>0, <2>1 DEF NotedInv, Waits
    <3>3. \A j \in call.keys : ~Waits(j)
      BY <1>0, <2>1 DEF CallInv, Unnoted
    <3>4. CallInv'
      BY <1>5, <2>1, <2>3, <3>1, <3>2, <3>3 DEF CallInv, Unnoted, Due, Alters
    <3>5. TodoInv'
      BY <1>0, <2>1, <3>2 DEF TodoInv
    <3>6. QED
      BY <3>2, <3>4, <3>5
  <2>4. QED
    BY <1>5, <2>2, <2>3 DEF Pick
<1>6. ASSUME NEW keys, keys # {}, keys \subseteq Unnoted, \A k \in keys : Alters(call.op, k), call.pc # "write", call.pc # "idle",
             list' = Apply(call.op, keys, list), pending' = pending \cup {Command(nextID, call.op, keys)},
             call'.pc = "write", call'.keys \subseteq Unnoted \ keys, call'.now = keys, call'.op = call.op,
             UNCHANGED <<venue, phase, todo, nextID>>
      PROVE  NotedInv' /\ CallInv' /\ TodoInv'
  <2>1. \A k \in keys : ~Waits(k)
    BY <1>0, <1>6 DEF CallInv
  <2>2. \A k : IF k \in keys THEN k \in list' <=> call.op = "subscribe" ELSE k \in list' <=> k \in list
    BY <1>6 DEF Apply
  <2>3. \A p \in pending : p.id # nextID
    BY <1>0, <1>6
  <2>4. NotedInv' /\ \A k : Waits(k)' <=> Waits(k) \/ k \in keys
    BY <1>0, <1>6, <2>1, <2>2, <2>3, NoteOne
  <2>5. CallInv'
    BY <1>0, <1>6, <2>4 DEF CallInv, Unnoted
  <2>6. TodoInv'
    BY <1>0, <1>6, <2>4 DEF TodoInv
  <2>7. QED
    BY <2>4, <2>5, <2>6
<1>7. ASSUME Record, venue # "binanceUsdm" PROVE NotedInv' /\ CallInv' /\ TodoInv'
  <2>1. /\ call.pc = "record" /\ list' = Apply(call.op, call.now, list) /\ pending' = pending \cup {Command(nextID, call.op, call.now)}
        /\ UNCHANGED <<venue, phase, todo, nextID>> /\ call' = [call EXCEPT !.pc = "write"]
    BY <1>7 DEF Record, Note
  <2>2. call.now # {} /\ call.now \subseteq Unnoted /\ (\A k \in call.now : Alters(call.op, k)) /\ call.keys \subseteq Unnoted \ call.now
    BY <1>0, <1>7, <2>1 DEF CallInv, Due, Unnoted
  <2>3. call'.pc = "write" /\ call'.keys = call.keys /\ call'.now = call.now /\ call'.op = call.op
    BY <1>0, <2>1 DEF Calls
  <2>4. QED
    BY <1>6, <2>1, <2>2, <2>3
<1>8. ASSUME UsdmRecord, venue = "binanceUsdm" PROVE NotedInv' /\ CallInv' /\ TodoInv'
  <2>1. /\ call.pc = "record" /\ list' = Apply(call.op, call.keys, list) /\ pending' = pending \cup {Command(nextID, call.op, call.keys)}
        /\ UNCHANGED <<venue, phase, todo, nextID>> /\ call' = [call EXCEPT !.pc = "write", !.keys = {}, !.now = call.keys]
    BY <1>8 DEF UsdmRecord, Note
  <2>2. call.keys # {} /\ call.keys \subseteq Unnoted /\ (\A k \in call.keys : Alters(call.op, k))
    BY <1>0, <1>8, <2>1 DEF CallInv, Due, Unnoted
  <2>3. call'.pc = "write" /\ call'.keys = {} /\ call'.now = call.keys /\ call'.op = call.op
    BY <1>0, <2>1 DEF Calls
  <2>4. QED
    BY <1>6, <2>1, <2>2, <2>3
<1>9. ASSUME NEW k \in call.keys, KorbitRecord(k) PROVE NotedInv' /\ CallInv' /\ TodoInv'
  <2>1. /\ call.pc = "pick" /\ list' = Apply(call.op, {k}, list) /\ pending' = pending \cup {Command(nextID, call.op, {k})}
        /\ UNCHANGED <<venue, phase, todo, nextID>> /\ Alters(call.op, k)
        /\ call' = [call EXCEPT !.pc = "write", !.keys = @ \ {k}, !.now = {k}]
    BY <1>9 DEF KorbitRecord, Note
  <2>2. {k} # {} /\ {k} \subseteq Unnoted /\ (\A j \in {k} : Alters(call.op, j)) /\ call.keys \ {k} \subseteq Unnoted \ {k}
    BY <2>1 DEF Unnoted
  <2>3. call'.pc = "write" /\ call'.keys = call.keys \ {k} /\ call'.now = {k} /\ call'.op = call.op
    BY <1>0, <2>1 DEF Calls
  <2>4. QED
    BY <1>6, <2>1, <2>2, <2>3
<1>10. ASSUME WriteRecorded PROVE NotedInv' /\ CallInv' /\ TodoInv'
  <2>1. GoOn(call.keys) /\ call.pc = "write" /\ nextID' = nextID + 1 /\ UNCHANGED <<venue, phase, list, pending, todo>>
    BY <1>10, WriteSends DEF WriteRecorded
  <2>2. QED
    BY <1>3, <2>1
<1>11. ASSUME WriteRecordedFails PROVE NotedInv' /\ CallInv' /\ TodoInv'
  <2> DEFINE mine == {p \in pending : p.id = nextID}
             c == Command(nextID, call.op, call.now)
  <2>1. /\ pending' = pending \ mine /\ list' = (IF mine = {} THEN list ELSE Apply(Opposite(call.op), call.now, list))
        /\ call.pc = "write" /\ call' = Idle /\ nextID' = nextID + 1 /\ UNCHANGED <<venue, phase, todo>>
    BY <1>11 DEF WriteRecordedFails, Withdraw, Return
  <2>2. c \in pending /\ c.id = nextID /\ c.keys = call.now
    BY <1>0, <2>1 DEF CallInv, Command
  <2>3. \A p \in pending \ mine : p.keys \cap call.now = {}
    BY <1>0, <2>2 DEF NotedInv
  <2>4. \A k : k \notin call.now => (k \in list' <=> k \in list)
    BY <2>1 DEF Apply
  <2>5. mine \in SUBSET pending
    OBVIOUS
  <2> HIDE DEF mine, c
  <2>6. \A p \in pending \ mine : \A k \in p.keys : k \in list' <=> k \in list
    BY <2>3, <2>4
  <2>7. \A p \in pending' : p.id # nextID'
    BY <1>0, <2>1
  <2>8. NotedInv' /\ \A k : Waits(k)' => Waits(k)
    BY <1>0, <2>1, <2>5, <2>6, <2>7, DropSome
  <2>9. CallInv' /\ TodoInv'
    BY <1>0, <2>1, <2>8 DEF CallInv, TodoInv, Unnoted, Idle
  <2>10. QED
    BY <2>8, <2>9
<1>12. ASSUME RecordBeforeLogin, venue \in Private PROVE NotedInv' /\ CallInv' /\ TodoInv'
  <2>1. pending = {} /\ pending' = {} /\ call.pc = "record" /\ GoOn(call.keys) /\ UNCHANGED <<venue, phase, todo>>
    BY <1>12 DEF RecordBeforeLogin, LoginInv, AuthInv
  <2>3. call'.pc \in {"idle", "pick"} /\ call'.now = {}
    BY <1>0, <2>1, GoesOn
  <2>4. QED
    BY <1>0, <2>1, <2>3 DEF NotedInv, CallInv, TodoInv, Waits
<1>13. ASSUME CryptocomRecord, venue \in Private PROVE NotedInv' /\ CallInv' /\ TodoInv'
  <2>1. /\ call.pc = "record" /\ list' = Apply(call.op, call.now, list) /\ call' = [call EXCEPT !.pc = "send"]
        /\ UNCHANGED <<venue, phase, todo, nextID, pending>> /\ venue # "binanceUsdm"
    BY <1>13 DEF CryptocomRecord, Private
  <2>2. call.now # {} /\ \A k \in call.keys \cup call.now : ~Waits(k)
    BY <1>0, <2>1 DEF CallInv, Due, Unnoted
  <2>3. call'.pc = "send" /\ call'.keys = call.keys /\ call'.now = call.now /\ call'.op = call.op
    BY <1>0, <2>1 DEF Calls
  <2>4. \A k : IF k \in call.now THEN k \in list' <=> call.op = "subscribe" ELSE k \in list' <=> k \in list
    BY <2>1 DEF Apply
  <2>5. \A k : Waits(k)' <=> Waits(k)
    BY <2>1 DEF Waits
  <2>6. NotedInv'
    <3>1. \A p \in pending : \A k \in p.keys : k \notin call.now
      BY <2>2 DEF Waits
    <3>2. QED
      BY <1>0, <2>1, <2>4, <3>1 DEF NotedInv
  <2>7. CallInv' /\ TodoInv'
    BY <1>0, <2>1, <2>2, <2>3, <2>4, <2>5 DEF CallInv, TodoInv, Unnoted, Due, Alters
  <2>8. QED
    BY <2>6, <2>7
<1>14. ASSUME CryptocomSend, venue \in Private PROVE NotedInv' /\ CallInv' /\ TodoInv'
  <2>1. /\ call.pc = "send" /\ pending' = pending \cup {Command(nextID, call.op, call.now)} /\ call' = [call EXCEPT !.pc = "write"]
        /\ UNCHANGED <<venue, phase, todo, nextID, list>>
    BY <1>14 DEF CryptocomSend
  <2>2. call.now # {} /\ (\A k \in call.keys \cup call.now : ~Waits(k)) /\ \A k \in call.now : k \in list <=> call.op = "subscribe"
    BY <1>0, <2>1 DEF CallInv, Due, Unnoted, Alters
  <2>3. call'.pc = "write" /\ call'.keys = call.keys /\ call'.now = call.now /\ call'.op = call.op
    BY <1>0, <2>1 DEF Calls
  <2>4. NotedInv' /\ \A k : Waits(k)' <=> Waits(k) \/ k \in call.now
    BY <1>0, <2>1, <2>2, <2>3, NoteOne
  <2>5. CallInv' /\ TodoInv'
    BY <1>0, <2>1, <2>2, <2>3, <2>4 DEF CallInv, TodoInv, Unnoted
  <2>6. QED
    BY <2>4, <2>5
<1>15. ASSUME PrepareFails \/ CryptocomSendFails PROVE NotedInv' /\ CallInv' /\ TodoInv'
  BY <1>4, <1>15 DEF PrepareFails, CryptocomSendFails
<1>16. ASSUME KorbitWriteFails PROVE NotedInv' /\ CallInv' /\ TodoInv'
  BY <1>4, <1>16 DEF KorbitWriteFails
<1>17. QED
  BY <1>1, <1>2, <1>5, <1>7, <1>8, <1>9, <1>10, <1>11, <1>12, <1>13, <1>14, <1>15, <1>16, MatchingChange DEF PendingInv
-----------------------------------------------------------------------------
\* However the handler looks an answer up, it finds the command with the answer's id, or
\* nothing when that command waits no more.
Found == {p \in pending : p.id = Answer.id}
Undoes == Answer.status # "ok" /\ Found # {} /\ (venue = "korbit" => Answer.op = "subscribe")

LEMMA FirstAnswer ==
  ASSUME TypedInv, answers # <<>>
  PROVE  /\ Answer = answers[1] /\ 1 \in DOMAIN answers /\ DOMAIN answers = 1..Len(answers) /\ Len(answers) \in Nat \ {0}
         /\ Answer \in WireAnswers
         /\ DOMAIN Tail(answers) = 1..Len(answers) - 1
         /\ \A i \in 1..Len(answers) - 1 : Tail(answers)[i] = answers[i + 1] /\ i + 1 \in DOMAIN answers /\ i + 1 # 1
BY LoopFacts, Shorter DEF Answer

LEMMA MatchingErrors ==
  ASSUME venue \in Matching
  PROVE  IF venue \in {"cryptocom", "cryptocomPrivate"} THEN Errors = {"error", "mismatch"} ELSE Errors = {"error"}
<1>1. venue # "mexc" /\ venue \in Tracking
  BY DEF Matching, Tracked, Private, Tracking, Optimistic, WrittenEach
<1>2. QED
  BY <1>1 DEF Errors

LEMMA HandleFinds ==
  ASSUME TypedInv, PendingInv, OrderInv, LoginInv, venue \in Matching, Handle
  PROVE  /\ answers # <<>> /\ phase = "serving" /\ UNCHANGED <<venue, broken, conns, auth, owner, call, changes, todo, nextID, told>>
         /\ IF phase' = "stopped" THEN Disconnected ELSE answers' = Tail(answers) /\ UNCHANGED <<wire, server>>
         /\ phase' = IF venue \in Private /\ Answer.op = "login" /\ Answer.status = "ok" THEN "answered"
                     ELSE IF phase' = "stopped" THEN "stopped" ELSE "serving"
         /\ pending' = pending \ Found
         /\ \A p \in Found : p.op = Answer.op /\ p.keys = Answer.keys /\ Found = {p}
         /\ list' = IF Undoes THEN Apply(Opposite(Answer.op), Answer.keys, list) ELSE list
<1>1. /\ answers # <<>> /\ phase = "serving" /\ UNCHANGED <<venue, broken, conns, auth, owner, call, changes, todo, nextID, told>>
      /\ IF phase' = "stopped" THEN Disconnected ELSE answers' = Tail(answers) /\ UNCHANGED <<wire, server>>
  BY DEF Handle
<1>2. NotedInv /\ Answer = answers[1] /\ 1 \in DOMAIN answers
  BY <1>1, PendingFacts, FirstAnswer
<1>3. \A p \in Found : p.op = Answer.op /\ p.keys = Answer.keys /\ Found = {p}
  BY <1>2 DEF Found, OrderInv, NotedInv
<1>4. Answer.status \in {"ok"} \cup Errors
  BY <1>2 DEF OrderInv
<1>5. Matched = Found
  BY DEF Matched, Found
<1>6. Found # {} => Undone(CHOOSE p \in Found : TRUE) = Apply(Opposite(Answer.op), Answer.keys, list)
  BY <1>3 DEF Undone
<1>7. UndoneByMatch = IF Found = {} THEN list ELSE Apply(Opposite(Answer.op), Answer.keys, list)
  BY <1>5, <1>6 DEF UndoneByMatch
<1>8. CASE venue \in {"gateio", "gateioFutures", "htx", "binanceUsdm"}
  <2>1. Settle(UndoneByMatch)
    BY <1>1, <1>8 DEF Handle, GateioHandleControl, GateioFuturesHandleControl, HtxHandleControl, KucoinHandleControl,
       KucoinFuturesHandleControl, BinanceUsdmHandleControl, KorbitHandleControl, CryptocomHandleControl, MexcHandleControl,
       KrakenRun, KrakenFuturesRun, PassOn, HtxPrivateHandleControl, HandleLogin, Private
  <2>2. Answer.status # "ok" <=> Answer.status = "error"
    BY <1>4, <1>8, MatchingErrors
  <2>3. QED
    BY <1>1, <1>3, <1>5, <1>7, <1>8, <2>1, <2>2 DEF Settle, Undoes, Private
<1>9. CASE venue = "korbit"
  <2>1. Settle(IF Answer.op = "subscribe" THEN UndoneByMatch ELSE list)
    BY <1>1, <1>9 DEF Handle, GateioHandleControl, GateioFuturesHandleControl, HtxHandleControl, KucoinHandleControl,
       KucoinFuturesHandleControl, BinanceUsdmHandleControl, KorbitHandleControl, CryptocomHandleControl, MexcHandleControl,
       KrakenRun, KrakenFuturesRun, PassOn, HtxPrivateHandleControl, HandleLogin, Private
  <2>2. Answer.status # "ok" <=> Answer.status = "error"
    BY <1>4, <1>9, MatchingErrors
  <2>3. QED
    BY <1>1, <1>3, <1>5, <1>7, <1>9, <2>1, <2>2 DEF Settle, Undoes, Private
<1>10. CASE Answer.op = "login" /\ venue \in Private
  <2>1. HandleLogin
    BY <1>1, <1>10 DEF Handle, GateioHandleControl, GateioFuturesHandleControl, HtxHandleControl, KucoinHandleControl,
       KucoinFuturesHandleControl, BinanceUsdmHandleControl, KorbitHandleControl, CryptocomHandleControl, MexcHandleControl,
       KrakenRun, KrakenFuturesRun, PassOn, HtxPrivateHandleControl, HandleLogin, Private
  <2>2. Found = {}
    BY <1>3, <1>10, PendingFacts DEF Pendings, Ops, Found
  <2>3. QED
    BY <1>1, <1>3, <1>10, <2>1, <2>2 DEF HandleLogin, managerVars, Undoes
<1>11. CASE venue \in {"cryptocom", "cryptocomPrivate"} /\ (venue \in Private => Answer.op # "login")
  <2>1. CryptocomHandleControl
    BY <1>1, <1>11 DEF Handle, GateioHandleControl, GateioFuturesHandleControl, HtxHandleControl, KucoinHandleControl,
       KucoinFuturesHandleControl, BinanceUsdmHandleControl, KorbitHandleControl, CryptocomHandleControl, MexcHandleControl,
       KrakenRun, KrakenFuturesRun, PassOn, HtxPrivateHandleControl, HandleLogin, Private
  <2>2. phase' \in {"serving", "stopped"}
    BY <1>1, <2>1 DEF CryptocomHandleControl
  <2>3. QED
    BY <1>1, <1>3, <1>5, <1>7, <1>11, <2>1, <2>2 DEF CryptocomHandleControl, Undoes, Private
<1>12. CASE venue = "htxPrivate" /\ Answer.op # "login"
  <2> DEFINE found == {p \in pending : p.op = Answer.op /\ p.keys = Answer.keys}
  <2>1. /\ pending' = pending \ found /\ phase' = phase
        /\ list' = IF Answer.status = "ok" \/ found = {} THEN list ELSE Undone(CHOOSE p \in found : TRUE)
    BY <1>1, <1>12 DEF Handle, GateioHandleControl, GateioFuturesHandleControl, HtxHandleControl, KucoinHandleControl,
       KucoinFuturesHandleControl, BinanceUsdmHandleControl, KorbitHandleControl, CryptocomHandleControl, MexcHandleControl,
       KrakenRun, KrakenFuturesRun, PassOn, HtxPrivateHandleControl, HandleLogin, Private
  <2>2. found = Found
    <3>1. CASE pending = {}
      BY <3>1 DEF Found
    <3>2. CASE pending # {}
      <4>1. Restored
        BY <1>1, <1>12, <3>2 DEF LoginInv, AuthInv, Restored, Private
      <4>2. Command(Answer.id, Answer.op, Answer.keys) \in pending
        BY <1>2, <1>12, <4>1 DEF LoginInv, AnsweredInv, Private
      <4>3. PICK c \in pending : c.id = Answer.id /\ c.op = Answer.op /\ c.keys = Answer.keys
        BY <4>2 DEF Command
      <4>4. \A p \in found : p = c
        BY <1>2, <4>3 DEF NotedInv
      <4>5. QED
        BY <1>3, <4>3, <4>4 DEF Found
    <3>3. QED
      BY <3>1, <3>2
  <2> HIDE DEF found
  <2>3. QED
    BY <1>1, <1>3, <1>6, <1>12, <2>1, <2>2 DEF Undoes
<1>13. QED
  BY <1>8, <1>9, <1>10, <1>11, <1>12 DEF Matching, Tracked, Private
LEMMA PendingLoop ==
  ASSUME TypedInv, PendingInv, OrderInv, LoginInv, venue \in Matching,
         Hook \/ Handle \/ Activation \/ Connect \/ Disconnect \/ Break \/ Serve \/ Over
  PROVE  PendingInv'
<1> USE DEF sessionVars, managerVars, wireVars
<1>0. /\ NotedInv /\ CallInv /\ TodoInv /\ nextID \in Nat /\ nextID + 1 \in Nat /\ call \in Calls
      /\ phase \in {"hook", "activating"} \/ owner = "none" => call = Idle
      /\ \A p \in pending : p.id \in Nat /\ p.id <= nextID /\ p.id # nextID + 1
      /\ call.pc # "write" => \A p \in pending : p.id # nextID
      /\ call = Idle => call.pc = "idle" /\ call.keys = {} /\ call.now = {}
  BY PendingFacts, LoopFacts DEF NotedInv, Pendings, Idle
\* The pending commands are kept or forgotten.
<1>1. ASSUME UNCHANGED <<venue, list, call>>, pending' \in {pending, {}},
             nextID' = nextID \/ (nextID' = nextID + 1 /\ call.pc # "write"), pending' = {} => call.pc # "write",
             todo' \subseteq todo \/ (pending' = {} /\ todo' = list), phase' \notin {"hook", "activating"} => todo' = {}
      PROVE  PendingInv'
  <2>1. NotedInv' /\ \A k : Waits(k)' => Waits(k)
    <3>1. CASE pending' = {}
      BY <3>1 DEF NotedInv, Waits
    <3>2. CASE pending' = pending
      BY <1>0, <1>1, <3>2 DEF NotedInv, Waits
    <3>3. QED
      BY <1>1, <3>1, <3>2
  <2>2. CallInv'
    BY <1>0, <1>1, <2>1 DEF CallInv, Unnoted, Due, Alters
  <2>3. TodoInv'
    BY <1>0, <1>1, <2>1 DEF TodoInv, Waits
  <2>4. QED
    BY <2>1, <2>2, <2>3 DEF PendingInv
<1>2. ASSUME NEW c \in SUBSET todo, c # {}, pending' = pending \cup {Command(nextID, "subscribe", c)},
             nextID' = nextID + 1, todo' = todo \ c, phase \in {"hook", "activating"}, UNCHANGED <<venue, phase, list, call>>
      PROVE  PendingInv'
  <2>1. \A k \in c : ~Waits(k) /\ k \in list
    BY <1>0 DEF TodoInv
  <2>2. NotedInv' /\ \A k : Waits(k)' <=> Waits(k) \/ k \in c
    BY <1>0, <1>2, <2>1, NoteOne
  <2>3. CallInv'
    BY <1>0, <1>2, <2>2 DEF CallInv, Unnoted, Idle
  <2>4. TodoInv'
    BY <1>0, <1>2, <2>2 DEF TodoInv
  <2>5. QED
    BY <2>2, <2>3, <2>4 DEF PendingInv
<1>3. ASSUME RewriteTracked PROVE PendingInv'
  <2>1. FirstPortion(todo) \in SUBSET todo /\ nextID' = nextID + 1
    BY <1>0, <1>3 DEF FirstPortion, RewriteTracked, HookWrite
  <2>2. QED
    BY <1>2, <1>3, <2>1 DEF RewriteTracked, HookWrite
<1>4. ASSUME KorbitRewrite PROVE PendingInv'
  <2>1. /\ pending' = pending \cup {Item(k) : k \in todo} /\ todo' = {} /\ UNCHANGED <<venue, phase, list, call>> /\ phase = "hook"
        /\ nextID' \in Nat /\ nextID < nextID'
        /\ \A k \in todo : Item(k).id \in nextID..nextID' - 1 /\ Item(k).keys = {k} /\ Item(k).op = "subscribe"
        /\ \A k, l \in todo : Item(k).id = Item(l).id => k = l
    BY <1>4, KorbitWrites DEF KorbitRewrite, HookWrite, Item, Command
  <2>2. \A k \in todo : ~Waits(k) /\ k \in list
    BY <1>0 DEF TodoInv
  <2>3. \A p \in pending : \A k \in todo : k \notin p.keys /\ p.id # Item(k).id
    BY <1>0, <2>1, <2>2 DEF Waits, Idle
  <2>4. (\A p \in pending : p.keys # {} /\ p.id <= nextID /\ (p.id = nextID => call.pc = "write"))'
    BY <1>0, <2>1 DEF NotedInv
  <2>5. (\A p, q \in pending : p # q => p.id # q.id /\ p.keys \cap q.keys = {})'
    BY <1>0, <2>1, <2>3 DEF NotedInv
  <2>6. (\A p \in pending : \A k \in p.keys : k \in list <=> p.op = "subscribe")'
    BY <1>0, <2>1, <2>2 DEF NotedInv
  <2>7. CallInv' /\ TodoInv'
    BY <1>0, <2>1 DEF CallInv, TodoInv, Unnoted, Idle
  <2>8. QED
    BY <2>4, <2>5, <2>6, <2>7 DEF PendingInv, NotedInv
<1>5. ASSUME Lock \/ HookDone \/ HookFails PROVE PendingInv'
  BY <1>0, <1>1, <1>5 DEF Lock, HookDone, HookFails, TodoInv
<1>6. ASSUME Authenticate \/ Login PROVE PendingInv'
  BY <1>0, <1>1, <1>6 DEF Authenticate, Login, TodoInv
<1>7. ASSUME LoginFails PROVE PendingInv'
  <2>1. todo = {}
    BY <1>7 DEF LoginFails, LoginInv, AuthInv
  <2>2. QED
    BY <1>0, <1>1, <1>7, <2>1 DEF LoginFails
<1>8. ASSUME Handle PROVE PendingInv'
  <2>1. /\ phase = "serving" /\ UNCHANGED <<venue, call, todo, nextID>> /\ phase' \in {"serving", "stopped", "answered"}
        /\ pending' = pending \ Found /\ todo = {} /\ Found \in SUBSET pending
        /\ list' = IF Undoes THEN Apply(Opposite(Answer.op), Answer.keys, list) ELSE list
        /\ \A p \in Found : p.keys = Answer.keys /\ Found = {p}
    BY <1>0, <1>8, HandleFinds DEF TodoInv, Found
  <2>2. \A p \in pending : p.id = nextID => p \notin Found
    <3>1. answers # <<>>
      BY <1>8, HandleFinds
    <3>2. Answer.id < nextID /\ Answer.id \in Nat
      BY <3>1, FirstAnswer DEF OrderInv, WireAnswers
    <3>3. QED
      BY <1>0, <3>2 DEF Found
  <2>3. \A k : ~(k \in list' <=> k \in list) => Found # {} /\ k \in Answer.keys
    BY <2>1 DEF Undoes, Apply
  <2>4. \A p \in pending \ Found : \A k \in p.keys : k \in list' <=> k \in list
    BY <1>0, <2>1, <2>3 DEF NotedInv
  <2>5. \A p \in pending' : p.id = nextID' => call'.pc = "write"
    BY <1>0, <2>1
  <2>6. NotedInv' /\ \A k : Waits(k)' => Waits(k)
    BY <1>0, <2>1, <2>4, <2>5, DropSome
  <2>7. \A k \in Unnoted : k \in list' <=> k \in list
    BY <1>0, <2>1, <2>3 DEF CallInv, Waits
  <2>8. CallInv'
    <3>1. call.pc = "write" => Command(nextID, call.op, call.now) \in pending'
      BY <1>0, <2>1, <2>2 DEF CallInv, Command
    <3>2. call.pc = "record" => Due \subseteq Unnoted
      BY DEF Due, Unnoted
    <3>3. call.pc = "send" => call.now \subseteq Unnoted
      BY DEF Unnoted
    <3>4. QED
      BY <1>0, <2>1, <2>6, <2>7, <3>1, <3>2, <3>3 DEF CallInv, Unnoted, Due, Alters
  <2>9. TodoInv'
    BY <2>1 DEF TodoInv
  <2>10. QED
    BY <2>6, <2>8, <2>9 DEF PendingInv
<1>9. ASSUME Activate PROVE PendingInv'
  BY <1>0, <1>1, <1>9 DEF Activate
<1>10. ASSUME ActivateNext PROVE PendingInv'
  <2>1. PICK k \in FirstPortion(todo) : pending' = pending \cup {Command(nextID, "subscribe", {k})} /\ todo' = todo \ {k}
    BY <1>10 DEF ActivateNext
  <2>2. {k} \in SUBSET todo /\ nextID' = nextID + 1 /\ phase = "activating" /\ UNCHANGED <<venue, phase, list, call>>
    BY <1>10 DEF ActivateNext, FirstPortion
  <2>3. QED
    BY <1>2, <2>1, <2>2
<1>11. ASSUME ActivateFails \/ ActivateDone PROVE PendingInv'
  BY <1>0, <1>1, <1>11 DEF ActivateFails, ActivateDone
<1>12. ASSUME Connect \/ Disconnect \/ Break \/ Serve \/ Over PROVE PendingInv'
  <2>1. /\ UNCHANGED <<venue, list, call, pending, todo, nextID>>
        /\ phase' \in {"hook", "activating"} => phase' = phase
    BY <1>12 DEF Connect, Disconnect, Break, Serve, Accept, Reject, AnswerWith, Over, managedVars
  <2>2. phase' # phase => phase \notin {"hook", "activating"}
    BY <1>12 DEF Connect, Disconnect, Break, Serve, Accept, Reject, AnswerWith, Over, managedVars
  <2>3. QED
    <3>1. phase' \notin {"hook", "activating"} => todo' = {}
      BY <1>0, <2>1, <2>2 DEF TodoInv
    <3>2. pending' = {} => call.pc # "write"
      BY <1>0, <2>1 DEF CallInv
    <3>3. QED
      BY <1>1, <2>1, <3>1, <3>2
<1>13. ASSUME Hook PROVE PendingInv'
  <2>1. venue \notin {"coinbase", "kucoin", "kucoinFutures", "mexc"} \cup Untracked
    BY DEF Matching, Tracked, Private, Untracked
  <2>2. Lock \/ RewriteTracked \/ KorbitRewrite \/ HookDone \/ HookFails \/ Authenticate \/ Login \/ LoginFails
    BY <1>13, <2>1 DEF Hook, Resubscribe, OkxResubscribe, BybitResubscribe, CoinbaseResubscribe, KrakenResubscribe,
        KrakenFuturesResubscribe, BitgetResubscribe, BinanceResubscribe, CoinoneResubscribe, GateioResubscribe,
        GateioFuturesResubscribe, HtxResubscribe, CryptocomResubscribe, KucoinResubscribe, KucoinFuturesResubscribe,
        MexcResubscribe, BinanceUsdmResubscribe, KorbitResubscribe, CoinbaseSnapshot, CoinbaseLock, Untracked
  <2>3. QED
    BY <1>3, <1>4, <1>5, <1>6, <1>7, <2>2
<1>14. QED
  BY <1>8, <1>9, <1>10, <1>11, <1>12, <1>13 DEF Activation
-----------------------------------------------------------------------------
\* The order of commands, pending ones and answers.
LEMMA Elements ==
  ASSUME TypedInv
  PROVE  /\ nextID \in Nat /\ Len(wire) \in Nat /\ Len(answers) \in Nat
         /\ DOMAIN wire = 1..Len(wire) /\ DOMAIN answers = 1..Len(answers)
         /\ \A i \in DOMAIN wire : wire[i] \in WireCommands /\ wire[i].id \in Nat
         /\ \A i \in DOMAIN answers : answers[i] \in WireAnswers /\ answers[i].id \in Nat
         /\ \A p \in pending : p.id \in Nat
<1>1. nextID \in Nat /\ wire \in Seq(WireCommands) /\ answers \in Seq(WireAnswers) /\ pending \subseteq Pendings
  BY LoopFacts
<1>2. (\A i \in DOMAIN wire : wire[i] \in WireCommands) /\ (\A i \in DOMAIN answers : answers[i] \in WireAnswers)
  BY <1>1, ElementOfSeq, LenProperties
<1>3. QED
  BY <1>1, <1>2, LenProperties DEF WireCommands, WireAnswers, Pendings

\* Nothing is written or read; a new pending command has a new id.
LEMMA OrderKept ==
  ASSUME TypedInv, OrderInv, venue' = venue, nextID' \in Nat, nextID <= nextID',
         wire' \in {wire, <<>>}, answers' \in {answers, <<>>},
         \A p \in pending' : p \in pending \/ p.id \notin 0..nextID - 1
  PROVE  OrderInv'
<1>1. /\ nextID \in Nat /\ (\A i \in DOMAIN wire : wire[i].id \in Nat) /\ (\A i \in DOMAIN answers : answers[i].id \in Nat)
      /\ DOMAIN (<<>>) = {}
  BY Elements
<1>2. DOMAIN wire' \subseteq DOMAIN wire /\ \A i \in DOMAIN wire' : wire'[i] = wire[i]
  BY <1>1
<1>3. DOMAIN answers' \subseteq DOMAIN answers /\ \A i \in DOMAIN answers' : answers'[i] = answers[i]
  BY <1>1
<1>4. Errors' = Errors
  BY DEF Errors
<1>5. CASE venue \in Matching
  <2>1. (\A i \in DOMAIN wire : wire[i].id < nextID /\ wire[i].id \in 0..nextID - 1)
        /\ (\A i \in DOMAIN answers : answers[i].id < nextID /\ answers[i].id \in 0..nextID - 1)
    BY <1>1, <1>5 DEF OrderInv
  <2>2. (\A i \in DOMAIN wire' : wire'[i].id < nextID') /\ (\A i \in DOMAIN answers' : answers'[i].id < nextID')
    BY <1>1, <1>2, <1>3, <2>1
  <2>3. \A p \in pending', i \in DOMAIN wire' : wire'[i].id = p.id => wire'[i] = p
    BY <1>2, <1>5, <2>1 DEF OrderInv
  <2>4. \A p \in pending', i \in DOMAIN answers' : answers'[i].id = p.id => answers'[i].op = p.op /\ answers'[i].keys = p.keys
    BY <1>3, <1>5, <2>1 DEF OrderInv
  <2>5. /\ \A i \in DOMAIN answers' : answers'[i].status \in {"ok"} \cup Errors'
        /\ \A i, j \in DOMAIN wire' : i # j => wire'[i].id # wire'[j].id
        /\ \A i, j \in DOMAIN answers' : i # j => answers'[i].id # answers'[j].id
        /\ \A i \in DOMAIN answers', j \in DOMAIN wire' : answers'[i].id # wire'[j].id
    BY <1>2, <1>3, <1>4, <1>5 DEF OrderInv
  <2>6. QED
    BY <2>2, <2>3, <2>4, <2>5 DEF OrderInv
<1>6. QED
  BY <1>5 DEF OrderInv

\* One command is written, with the next id.
LEMMA OrderSent ==
  ASSUME TypedInv, OrderInv, NEW c \in WireCommands, Sent(c), c.id = nextID, nextID' = nextID + 1, UNCHANGED <<venue, answers>>,
         pending' \subseteq pending \cup {c}, \A p \in pending' : p.id = nextID => p = c
  PROVE  OrderInv'
<1>1. CASE broken
  <2>1. wire' = wire /\ \A p \in pending' : p \in pending \/ p.id \notin 0..nextID - 1
    BY <1>1, Elements DEF Sent
  <2>2. QED
    BY <2>1, Elements, OrderKept
<1>2. CASE ~broken
  <2>1. wire' = wire \o <<c>> /\ wire \in Seq(WireCommands)
    BY <1>2, LoopFacts DEF Sent
  <2>2. /\ DOMAIN wire' = 1..Len(wire) + 1 /\ (\A i \in DOMAIN wire : wire'[i] = wire[i]) /\ wire'[Len(wire) + 1] = c
    BY <2>1, Longer
  <2>3. \A i \in DOMAIN wire' : i \in DOMAIN wire \/ i = Len(wire) + 1
    BY <2>2, Elements
  <2>4. CASE venue \in Matching
    <3>1. /\ \A i \in DOMAIN wire : wire[i].id < nextID /\ wire[i].id # nextID
          /\ \A i \in DOMAIN answers : answers[i].id < nextID /\ answers[i].id # nextID
      BY <2>4, Elements DEF OrderInv
    <3>2. (\A i \in DOMAIN wire' : wire'[i].id < nextID') /\ (\A i \in DOMAIN answers' : answers'[i].id < nextID')
      BY <2>2, <2>3, <3>1, Elements
    <3>3. \A p \in pending', i \in DOMAIN wire' : wire'[i].id = p.id => wire'[i] = p
      BY <2>2, <2>3, <2>4, <3>1 DEF OrderInv
    <3>4. \A p \in pending', i \in DOMAIN answers' : answers'[i].id = p.id => answers'[i].op = p.op /\ answers'[i].keys = p.keys
      BY <2>4, <3>1 DEF OrderInv
    <3>5. Errors' = Errors
      BY DEF Errors
    <3>6. /\ \A i \in DOMAIN answers' : answers'[i].status \in {"ok"} \cup Errors'
          /\ \A i, j \in DOMAIN wire' : i # j => wire'[i].id # wire'[j].id
          /\ \A i, j \in DOMAIN answers' : i # j => answers'[i].id # answers'[j].id
          /\ \A i \in DOMAIN answers', j \in DOMAIN wire' : answers'[i].id # wire'[j].id
      BY <2>2, <2>3, <2>4, <3>1, <3>5 DEF OrderInv
    <3>7. QED
      BY <3>2, <3>3, <3>4, <3>6 DEF OrderInv
  <2>5. QED
    BY <2>4 DEF OrderInv
<1>3. QED
  BY <1>1, <1>2

\* The answer to the command the exchange reads.
Reply(status) == [id |-> wire[1].id, op |-> wire[1].op, keys |-> wire[1].keys, status |-> status]

LEMMA AnswerSent ==
  ASSUME TypedInv, wire # <<>>, NEW status, AnswerWith(status)
  PROVE  /\ Head(wire) = wire[1] /\ 1 \in DOMAIN wire /\ Len(wire) \in Nat \ {0} /\ DOMAIN wire = 1..Len(wire)
         /\ DOMAIN wire' = 1..Len(wire) - 1 /\ \A i \in DOMAIN wire' : i + 1 \in DOMAIN wire /\ i + 1 # 1 /\ wire'[i] = wire[i + 1]
         /\ Len(answers) \in Nat /\ DOMAIN answers = 1..Len(answers) /\ DOMAIN answers' = 1..Len(answers) + 1
         /\ \A i \in DOMAIN answers : i \in DOMAIN answers' /\ i # Len(answers) + 1 /\ answers'[i] = answers[i]
         /\ \A i \in DOMAIN answers' : i \in DOMAIN answers \/ i = Len(answers) + 1
         /\ answers'[Len(answers) + 1] = Reply(status)
         /\ UNCHANGED <<venue, phase, broken, conns, owner, list, pending, order, call, changes, todo, nextID, told>>
<1>1. wire \in Seq(WireCommands) /\ answers \in Seq(WireAnswers)
  BY LoopFacts
<1>2. /\ Head(wire) = wire[1] /\ Len(wire) \in Nat \ {0} /\ DOMAIN wire = 1..Len(wire)
      /\ DOMAIN wire' = 1..Len(wire) - 1 /\ \A i \in 1..Len(wire) - 1 : wire'[i] = wire[i + 1]
  BY <1>1, Shorter DEF AnswerWith
<1>3. /\ answers' = Append(answers, Reply(status))
      /\ UNCHANGED <<venue, phase, broken, conns, owner, list, pending, order, call, changes, todo, nextID, told>>
  BY <1>2 DEF AnswerWith, Reply, managerVars
<1> DEFINE a == Reply(status)
<1>4. answers \in Seq(WireAnswers \cup {a}) /\ a \in WireAnswers \cup {a}
  BY <1>1
<1> HIDE DEF a
<1>5. /\ Len(answers) \in Nat /\ DOMAIN answers = 1..Len(answers) /\ DOMAIN answers' = 1..Len(answers) + 1
      /\ (\A i \in 1..Len(answers) : answers'[i] = answers[i]) /\ answers'[Len(answers) + 1] = a
  BY <1>3, <1>4, Longer, LenProperties DEF a
<1>6. QED
  BY <1>2, <1>3, <1>5 DEF a

LEMMA OrderAnswered ==
  ASSUME TypedInv, OrderInv, wire # <<>>, NEW status \in {"ok"} \cup Errors, AnswerWith(status)
  PROVE  OrderInv'
<1> DEFINE a == Reply(status)
<1>1. a.id = wire[1].id /\ a.op = wire[1].op /\ a.keys = wire[1].keys /\ a.status = status
  BY DEF Reply
<1>2. /\ 1 \in DOMAIN wire /\ (\A i \in DOMAIN wire' : i + 1 \in DOMAIN wire /\ i + 1 # 1 /\ wire'[i] = wire[i + 1])
      /\ (\A i, j \in DOMAIN wire' : i # j => i + 1 # j + 1)
      /\ \A i \in DOMAIN answers : i \in DOMAIN answers' /\ i # Len(answers) + 1 /\ answers'[i] = answers[i]
      /\ \A i \in DOMAIN answers' : i \in DOMAIN answers \/ i = Len(answers) + 1
      /\ answers'[Len(answers) + 1] = a /\ UNCHANGED <<venue, nextID, pending>>
  BY AnswerSent
<1> HIDE DEF a
<1>3. CASE venue \in Matching
  <2>1. /\ \A i \in DOMAIN wire' : wire'[i].id < nextID' /\ wire'[i].id # a.id
        /\ a.id < nextID' /\ (\A i \in DOMAIN answers : answers[i].id # a.id)
    BY <1>1, <1>2, <1>3 DEF OrderInv
  <2>2. \A i \in DOMAIN answers' : answers'[i].id < nextID'
    BY <1>2, <1>3, <2>1 DEF OrderInv
  <2>3. \A p \in pending', i \in DOMAIN wire' : wire'[i].id = p.id => wire'[i] = p
    BY <1>2, <1>3 DEF OrderInv
  <2>4. \A p \in pending', i \in DOMAIN answers' : answers'[i].id = p.id => answers'[i].op = p.op /\ answers'[i].keys = p.keys
    BY <1>1, <1>2, <1>3 DEF OrderInv
  <2>5. Errors' = Errors
    BY <1>2 DEF Errors
  <2>6. \A i \in DOMAIN answers' : answers'[i].status \in {"ok"} \cup Errors'
    BY <1>1, <1>2, <1>3, <2>5 DEF OrderInv
  <2>7. \A i, j \in DOMAIN wire' : i # j => wire'[i].id # wire'[j].id
    BY <1>2, <1>3 DEF OrderInv
  <2>8. \A i, j \in DOMAIN answers' : i # j => answers'[i].id # answers'[j].id
    BY <1>2, <1>3, <2>1 DEF OrderInv
  <2>9. \A i \in DOMAIN answers', j \in DOMAIN wire' : answers'[i].id # wire'[j].id
    BY <1>2, <1>3, <2>1 DEF OrderInv
  <2>10. QED
    BY <2>1, <2>2, <2>3, <2>4, <2>6, <2>7, <2>8, <2>9 DEF OrderInv
<1>4. QED
  BY <1>2, <1>3 DEF OrderInv

LEMMA OrderHandled ==
  ASSUME TypedInv, OrderInv, answers # <<>>, answers' = Tail(answers), UNCHANGED <<venue, wire, nextID>>, pending' \subseteq pending
  PROVE  OrderInv'
<1>1. \A i \in DOMAIN answers' : i + 1 \in DOMAIN answers /\ answers'[i] = answers[i + 1]
  BY FirstAnswer
<1>2. \A i, j \in DOMAIN answers' : i # j => i + 1 # j + 1
  BY FirstAnswer
<1>3. Errors' = Errors
  BY DEF Errors
<1>4. QED
  BY <1>1, <1>2, <1>3 DEF OrderInv
LEMMA OrderChange ==
  ASSUME TypedInv, PendingInv, OrderInv, venue \in Matching, Change
  PROVE  OrderInv'
<1> USE DEF sessionVars, managerVars, wireVars
<1>0. /\ NotedInv /\ CallInv /\ nextID \in Nat /\ nextID + 1 \in Nat /\ nextID <= nextID + 1 /\ nextID <= nextID
      /\ nextID \notin 0..nextID - 1 /\ call \in Calls
  BY PendingFacts
<1>1. ASSUME UNCHANGED <<venue, wire, answers, pending>>, nextID' \in {nextID, nextID + 1} PROVE OrderInv'
  BY <1>0, <1>1, OrderKept
<1>2. ASSUME NEW op, NEW keys, pending' = pending \cup {Command(nextID, op, keys)}, UNCHANGED <<venue, wire, answers, nextID>>
      PROVE  OrderInv'
  <2>1. \A p \in pending' : p \in pending \/ p.id \notin 0..nextID - 1
    BY <1>0, <1>2 DEF Command
  <2>2. QED
    BY <1>0, <1>2, <2>1, OrderKept
<1>3. ASSUME WriteRecorded PROVE OrderInv'
  <2> DEFINE c == Command(nextID, call.op, call.now)
  <2>1. c \in WireCommands /\ c.id = nextID
    <3>1. nextID \in Nat /\ call.op \in Ops /\ call.now \subseteq Keys
      BY CallFacts
    <3>2. QED
      BY <3>1 DEF Command, WireCommands
  <2>2. c \in pending /\ Sent(c) /\ nextID' = nextID + 1 /\ UNCHANGED <<venue, answers, pending>>
    BY <1>0, <1>3, WriteSends DEF WriteRecorded, CallInv
  <2> HIDE DEF c
  <2>3. \A p \in pending' : p.id = nextID => p = c
    BY <1>0, <2>1, <2>2 DEF NotedInv
  <2>4. QED
    BY <2>1, <2>2, <2>3, OrderSent
<1>4. ASSUME WriteRecordedFails PROVE OrderInv'
  <2>1. UNCHANGED <<venue, wire, answers>> /\ nextID' = nextID + 1 /\ pending' \subseteq pending
    BY <1>4 DEF WriteRecordedFails, Withdraw
  <2>2. QED
    BY <1>0, <2>1, OrderKept
<1>5. ASSUME Record \/ UsdmRecord \/ CryptocomSend PROVE OrderInv'
  BY <1>2, <1>5 DEF Record, UsdmRecord, CryptocomSend, Note
<1>6. ASSUME NEW k, KorbitRecord(k) PROVE OrderInv'
  BY <1>2, <1>6 DEF KorbitRecord, Note
<1>7. ASSUME NEW op, NEW keys, NEW pc, Begin(op, keys, pc) \/ Select(op, keys, pc) PROVE OrderInv'
  BY <1>1, <1>7 DEF Begin, Select
<1>8. ASSUME NEW k, NEW pc, Pick(k, pc) PROVE OrderInv'
  BY <1>1, <1>8 DEF Pick
<1>9. ASSUME PrepareFails \/ RecordBeforeLogin \/ CryptocomRecord \/ CryptocomSendFails \/ KorbitWriteFails PROVE OrderInv'
  BY <1>1, <1>9 DEF PrepareFails, RecordBeforeLogin, CryptocomRecord, CryptocomSendFails, KorbitWriteFails
<1>10. QED
  BY <1>3, <1>4, <1>5, <1>6, <1>7, <1>8, <1>9, MatchingChange

LEMMA OrderKorbit ==
  ASSUME TypedInv, PendingInv, OrderInv, KorbitRewrite, venue \in Matching
  PROVE  OrderInv'
<1>1. UNCHANGED <<venue, phase, call, answers, broken>> /\ phase = "hook"
  BY DEF KorbitRewrite, HookWrite, sessionVars
<1>2. /\ nextID \in Nat /\ nextID' \in Nat /\ nextID < nextID' /\ (broken => wire' = wire)
      /\ pending' = pending \cup {Item(k) : k \in todo}
      /\ \A k \in todo : Item(k).id \in Nat /\ nextID <= Item(k).id /\ Item(k).id < nextID'
      /\ \A k, l \in todo : Item(k).id = Item(l).id => k = l
  BY KorbitWrites
<1>3. \A p \in pending : p.id < nextID
  <2>1. call.pc # "write" /\ NotedInv
    BY <1>1, PendingFacts DEF Idle
  <2>2. \A p \in pending : p.id \in Nat /\ p.id <= nextID /\ p.id # nextID
    BY <2>1, Elements DEF NotedInv
  <2>3. QED
    BY <1>2, <2>2
<1>4. CASE broken
  <2>1. \A p \in pending' : p \in pending \/ p.id \notin 0..nextID - 1
    BY <1>2
  <2>2. QED
    BY <1>1, <1>2, <1>4, <2>1, OrderKept
<1>5. CASE ~broken
  <2> DEFINE New == DOMAIN wire' \ DOMAIN wire
  <2>1. /\ (\A i \in DOMAIN wire : wire'[i] = wire[i]) /\ (\A i \in New : \E k \in todo : wire'[i] = Item(k))
        /\ \A i, j \in New : wire'[i] = wire'[j] => i = j
    BY <1>5, KorbitWrites
  <2> HIDE DEF New
  <2>2. \A i \in DOMAIN wire' : i \in DOMAIN wire \/ i \in New
    BY DEF New
  <2>3. /\ \A i \in DOMAIN wire : wire[i].id < nextID /\ wire[i].id \in Nat
        /\ \A i \in DOMAIN answers : answers[i].id < nextID /\ answers[i].id \in Nat
    BY Elements DEF OrderInv
  <2>4. \A i \in New : wire'[i].id \in Nat /\ nextID <= wire'[i].id /\ wire'[i].id < nextID'
    BY <1>2, <2>1
  <2>5. (\A i \in DOMAIN wire' : wire'[i].id < nextID') /\ (\A i \in DOMAIN answers' : answers'[i].id < nextID')
    BY <1>1, <1>2, <2>1, <2>2, <2>3, <2>4
  <2>6. \A i, j \in New : i # j => wire'[i].id # wire'[j].id
    BY <1>2, <2>1
  <2>7. \A i, j \in DOMAIN wire' : i # j => wire'[i].id # wire'[j].id
    <3>1. \A i \in DOMAIN wire, j \in New : wire'[i].id # wire'[j].id
      BY <1>2, <2>1, <2>3, <2>4
    <3>2. \A i, j \in DOMAIN wire : i # j => wire'[i].id # wire'[j].id
      BY <2>1 DEF OrderInv
    <3>3. QED
      BY <2>2, <2>6, <3>1, <3>2
  <2>8. \A p \in pending', i \in DOMAIN wire' : wire'[i].id = p.id => wire'[i] = p
    <3>1. \A p \in pending, i \in DOMAIN wire : wire'[i].id = p.id => wire'[i] = p
      BY <2>1 DEF OrderInv
    <3>2. \A p \in pending, i \in New : wire'[i].id # p.id
      BY <1>2, <1>3, <2>4, Elements
    <3>3. \A k \in todo, i \in DOMAIN wire : wire'[i].id # Item(k).id
      BY <1>2, <2>1, <2>3
    <3>4. \A k \in todo, i \in New : wire'[i].id = Item(k).id => wire'[i] = Item(k)
      BY <1>2, <2>1
    <3>5. QED
      BY <1>2, <2>2, <3>1, <3>2, <3>3, <3>4
  <2>9. \A p \in pending', i \in DOMAIN answers' : answers'[i].id = p.id => answers'[i].op = p.op /\ answers'[i].keys = p.keys
    <3>1. \A k \in todo, i \in DOMAIN answers : answers[i].id # Item(k).id
      BY <1>2, <2>3
    <3>2. QED
      BY <1>1, <1>2, <3>1 DEF OrderInv
  <2>10. \A i \in DOMAIN answers', j \in DOMAIN wire' : answers'[i].id # wire'[j].id
    <3>1. \A i \in DOMAIN answers, j \in New : answers[i].id # wire'[j].id
      BY <1>2, <2>3, <2>4
    <3>2. QED
      BY <1>1, <2>1, <2>2, <3>1 DEF OrderInv
  <2>11. Errors' = Errors
    BY <1>1 DEF Errors
  <2>12. /\ \A i \in DOMAIN answers' : answers'[i].status \in {"ok"} \cup Errors'
         /\ \A i, j \in DOMAIN answers' : i # j => answers'[i].id # answers'[j].id
    BY <1>1, <2>11 DEF OrderInv
  <2>13. QED
    BY <2>5, <2>7, <2>8, <2>9, <2>10, <2>12 DEF OrderInv
<1>6. QED
  BY <1>4, <1>5

\* The steps of the hook that the managers which match answers take.
LEMMA MatchingHook ==
  ASSUME venue \in Matching, Hook
  PROVE  \/ venue # "korbit" /\ venue \notin Private /\ RewriteTracked
         \/ venue = "korbit" /\ KorbitRewrite
         \/ venue \notin Private /\ Lock
         \/ HookDone \/ HookFails \/ Authenticate \/ Login \/ LoginFails
<1>1. venue \notin {"coinbase", "kucoin", "kucoinFutures", "mexc"} \cup Untracked
  BY DEF Matching, Tracked, Private, Untracked
<1>2. QED
  BY <1>1 DEF Hook, Resubscribe, OkxResubscribe, BybitResubscribe, CoinbaseResubscribe, KrakenResubscribe,
     KrakenFuturesResubscribe, BitgetResubscribe, BinanceResubscribe, CoinoneResubscribe, GateioResubscribe,
     GateioFuturesResubscribe, HtxResubscribe, CryptocomResubscribe, KucoinResubscribe, KucoinFuturesResubscribe,
     MexcResubscribe, BinanceUsdmResubscribe, KorbitResubscribe, CoinbaseSnapshot, CoinbaseLock, Untracked, Private, Lock

\* One command of the hook or of activate: for subscriptions still to be restored.
LEMMA RestoresSome ==
  ASSUME TypedInv, PendingInv, venue \in Matching, RewriteTracked \/ ActivateNext
  PROVE  \E c \in (SUBSET todo) \ {{}} :
           /\ Command(nextID, "subscribe", c) \in WireCommands /\ Sent(Command(nextID, "subscribe", c))
           /\ pending' = pending \cup {Command(nextID, "subscribe", c)}
           /\ \A p \in pending : p.id # nextID
           /\ todo' = todo \ c /\ nextID' = nextID + 1 /\ call = Idle
           /\ UNCHANGED <<venue, phase, broken, auth, list, call, answers, server, told>>
           /\ phase \in {"hook", "activating"}
<1>1. phase \in {"hook", "activating"} /\ call = Idle
  BY PendingFacts DEF RewriteTracked, HookWrite, ActivateNext
<1>2. \A p \in pending : p.id # nextID
  BY <1>1, PendingFacts DEF NotedInv, Idle
<1>3. ASSUME NEW c \in SUBSET todo PROVE Command(nextID, "subscribe", c) \in WireCommands
  <2>1. nextID \in Nat /\ todo \subseteq Keys
    BY LoopFacts
  <2>2. QED
    BY <2>1 DEF Command, WireCommands, Ops
<1>4. CASE RewriteTracked
  <2>1. FirstPortion(todo) \in (SUBSET todo) \ {{}} /\ todo' = todo \ FirstPortion(todo)
    BY <1>4 DEF RewriteTracked, FirstPortion
  <2>2. /\ Sent(Command(nextID, "subscribe", FirstPortion(todo))) /\ nextID' = nextID + 1
        /\ pending' = pending \cup {Command(nextID, "subscribe", FirstPortion(todo))}
        /\ UNCHANGED <<venue, phase, broken, auth, list, call, answers, server, told>>
    BY <1>4, LoopFacts DEF RewriteTracked, HookWrite, Sent, sessionVars
  <2>3. QED
    BY <1>1, <1>2, <1>3, <2>1, <2>2
<1>5. CASE ActivateNext
  <2>1. PICK k \in FirstPortion(todo) :
          /\ pending' = pending \cup {Command(nextID, "subscribe", {k})}
          /\ wire' = IF broken THEN wire ELSE Append(wire, Command(nextID, "subscribe", {k}))
          /\ todo' = todo \ {k}
    BY <1>5 DEF ActivateNext
  <2> DEFINE c == Command(nextID, "subscribe", {k})
  <2>2. {k} \in (SUBSET todo) \ {{}}
    BY DEF FirstPortion
  <2>3. c \in WireCommands /\ wire \in Seq(WireCommands)
    BY <1>3, <2>2, LoopFacts
  <2>4. wire' = IF broken THEN wire ELSE Append(wire, c)
    BY <2>1
  <2> HIDE DEF c
  <2>5. Sent(c)
    <3>1. Append(wire, c) = wire \o <<c>>
      BY <2>3, Longer
    <3>2. QED
      BY <2>4, <3>1 DEF Sent
  <2>6. nextID' = nextID + 1 /\ UNCHANGED <<venue, phase, broken, auth, list, call, answers, server, told>>
    BY <1>5 DEF ActivateNext, sessionVars
  <2>7. QED
    BY <1>1, <1>2, <1>3, <2>1, <2>2, <2>5, <2>6 DEF c
<1>6. QED
  BY <1>4, <1>5

\* The login as a command.
LEMMA LoginSends ==
  ASSUME TypedInv, Login
  PROVE  /\ Command(nextID, "login", {}) \in WireCommands /\ Sent(Command(nextID, "login", {})) /\ nextID' = nextID + 1
         /\ auth'.asked = TRUE /\ auth'.known = auth.known /\ auth'.authenticated = auth.authenticated
         /\ venue \in Private /\ phase = "hook" /\ ~auth.asked
         /\ UNCHANGED <<venue, phase, broken, list, pending, call, todo, answers, server, told>>
<1> DEFINE c == Command(nextID, "login", {})
<1>1. c \in WireCommands /\ wire \in Seq(WireCommands)
  BY LoopFacts DEF Command, WireCommands
<1>2. wire' = IF broken THEN wire ELSE Append(wire, c)
  BY DEF Login
<1> HIDE DEF c
<1>3. Sent(c)
  <2>1. Append(wire, c) = wire \o <<c>>
    BY <1>1, Longer
  <2>2. QED
    BY <1>2, <2>1 DEF Sent
<1>4. auth \in Logins
  BY LoopFacts
<1>5. QED
  BY <1>1, <1>3, <1>4 DEF Login, managerVars, Logins, c

LEMMA OrderLoop ==
  ASSUME TypedInv, PendingInv, OrderInv, LoginInv, venue \in Matching,
         Hook \/ Handle \/ Activation \/ Connect \/ Disconnect \/ Break \/ Serve \/ Over
  PROVE  OrderInv'
<1> USE DEF sessionVars, managerVars, wireVars
<1>0. nextID \in Nat /\ nextID <= nextID
  BY Elements
<1>1. ASSUME wire' \in {wire, <<>>}, answers' \in {answers, <<>>}, pending' \in {pending, {}}, nextID' = nextID, venue' = venue
      PROVE  OrderInv'
  BY <1>0, <1>1, OrderKept
<1>2. ASSUME RewriteTracked \/ ActivateNext PROVE OrderInv'
  <2>1. PICK keys \in (SUBSET todo) \ {{}} :
           /\ Command(nextID, "subscribe", keys) \in WireCommands /\ Sent(Command(nextID, "subscribe", keys))
           /\ pending' = pending \cup {Command(nextID, "subscribe", keys)}
           /\ \A p \in pending : p.id # nextID
           /\ nextID' = nextID + 1
           /\ UNCHANGED <<venue, answers>>
    BY <1>2, RestoresSome
  <2>2. Command(nextID, "subscribe", keys).id = nextID
    BY DEF Command
  <2>3. QED
    BY <2>1, <2>2, OrderSent
<1>3. ASSUME Login PROVE OrderInv'
  <2>1. /\ Command(nextID, "login", {}) \in WireCommands /\ Sent(Command(nextID, "login", {})) /\ nextID' = nextID + 1
        /\ UNCHANGED <<venue, answers, pending>> /\ phase = "hook"
    BY <1>3, LoginSends
  <2>2. \A p \in pending : p.id # nextID
    BY <2>1, PendingFacts DEF NotedInv, Idle
  <2>3. Command(nextID, "login", {}).id = nextID
    BY DEF Command
  <2>4. QED
    BY <2>1, <2>2, <2>3, OrderSent
<1>4. ASSUME Hook PROVE OrderInv'
  <2>1. CASE Lock \/ HookDone \/ HookFails \/ Authenticate \/ LoginFails
    BY <1>1, <2>1 DEF Lock, HookDone, HookFails, Authenticate, LoginFails, Disconnected
  <2>2. QED
    BY <1>2, <1>3, <1>4, <2>1, MatchingHook, OrderKorbit
<1>5. ASSUME Handle PROVE OrderInv'
  <2>1. /\ answers # <<>> /\ UNCHANGED <<venue, nextID>> /\ pending' \subseteq pending
        /\ IF phase' = "stopped" THEN Disconnected ELSE answers' = Tail(answers) /\ UNCHANGED <<wire, server>>
    BY <1>5, HandleFinds
  <2>2. CASE phase' = "stopped"
    BY <1>0, <2>1, <2>2, OrderKept DEF Disconnected
  <2>3. CASE phase' # "stopped"
    BY <2>1, <2>3, OrderHandled
  <2>4. QED
    BY <2>2, <2>3
<1>6. ASSUME Activation PROVE OrderInv'
  <2>1. CASE Activate \/ ActivateFails \/ ActivateDone
    BY <1>1, <2>1 DEF Activate, ActivateFails, ActivateDone, Disconnected
  <2>2. QED
    BY <1>2, <1>6, <2>1 DEF Activation
<1>7. ASSUME Connect \/ Disconnect \/ Break \/ Over PROVE OrderInv'
  BY <1>1, <1>7 DEF Connect, Disconnect, Break, Over, Disconnected, managedVars
<1>8. ASSUME Serve PROVE OrderInv'
  <2>1. \E status \in {"ok"} \cup Errors : AnswerWith(status) /\ wire # <<>>
    BY <1>8 DEF Serve, Accept, Reject
  <2>2. QED
    BY <2>1, OrderAnswered
<1>9. QED
  BY <1>4, <1>5, <1>6, <1>7, <1>8
-----------------------------------------------------------------------------
\* The login of the private managers.

\* What a step of a call does to the commands, the pending ones and the list.
LEMMA ChangeEffects ==
  ASSUME TypedInv, PendingInv, venue \in Matching, Change
  PROVE  /\ UNCHANGED <<venue, phase, broken, auth, todo, answers, server>> /\ told \subseteq told'
         /\ \/ /\ UNCHANGED <<wire, pending, list>> /\ call'.pc \in {"idle", "pick", "record"}
               /\ call.pc = "send" => call.now \subseteq told'
               /\ nextID' = nextID \/ (venue = "korbit" /\ call.pc = "write" /\ call.now \subseteq told')
            \/ \E keys \in SUBSET Unnoted :
                 /\ call.pc \in {"pick", "record"} /\ (venue \in Private => auth.authenticated)
                 /\ \A k \in keys : Alters(call.op, k)
                 /\ list' = Apply(call.op, keys, list) /\ pending' = pending \cup {Command(nextID, call.op, keys)}
                 /\ UNCHANGED <<wire, nextID>> /\ call'.pc = "write"
            \/ /\ venue \in Private /\ auth.authenticated /\ call.pc = "record" /\ list' = Apply(call.op, call.now, list)
               /\ UNCHANGED <<wire, pending, nextID>> /\ call'.pc = "send" /\ call'.op = call.op /\ call'.now = call.now
            \/ /\ venue \in Private /\ call.pc = "send" /\ pending' = pending \cup {Command(nextID, call.op, call.now)}
               /\ UNCHANGED <<wire, list, nextID>> /\ call'.pc = "write"
            \/ /\ call.pc = "write" /\ Sent(Command(nextID, call.op, call.now)) /\ nextID' = nextID + 1
               /\ Command(nextID, call.op, call.now) \in pending
               /\ UNCHANGED <<list, pending>> /\ call'.pc \in {"idle", "pick"}
            \/ /\ call.pc = "write" /\ pending' = pending \ {Command(nextID, call.op, call.now)} /\ nextID' = nextID + 1
               /\ Command(nextID, call.op, call.now) \in pending /\ call.now \subseteq told'
               /\ \A k : k \notin call.now => (k \in list' <=> k \in list)
               /\ UNCHANGED wire /\ call'.pc = "idle"
            \/ /\ venue \in Private /\ ~auth.authenticated /\ call'.pc \in {"idle", "pick"}
               /\ UNCHANGED <<wire, pending, nextID>>
<1> USE DEF sessionVars, managerVars, wireVars
<1>0. call \in Calls /\ CallInv /\ NotedInv /\ Idle.pc = "idle"
  BY PendingFacts DEF Idle
<1>1. ASSUME NEW left, GoOn(left) PROVE call'.pc \in {"idle", "pick"} /\ told' = told
  BY <1>0, <1>1, GoesOn
<1>2. ASSUME NEW failed, Return(failed) PROVE call'.pc = "idle" /\ told \subseteq told' /\ failed \subseteq told'
  BY <1>0, <1>2 DEF Return
<1> HIDE DEF Idle
<1>3. CASE \E op \in Ops, keys \in SUBSET Keys : Begin(op, keys, "pick") \/ Select(op, keys, "record")
  BY <1>3 DEF Begin, Select
<1>4. CASE \E k \in call.keys, pc \in {"record", "write"} : venue # "binanceUsdm" /\ Pick(k, pc) /\ (pc = "write" => ~Alters(call.op, k) \/ AtLimit)
  <2>1. PICK k \in call.keys, pc \in {"record", "write"} : Pick(k, pc) /\ (pc = "write" => ~Alters(call.op, k) \/ AtLimit)
    BY <1>4
  <2>2. CASE Alters(call.op, k) /\ ~AtLimit /\ call' = [call EXCEPT !.pc = pc, !.keys = @ \ {k}, !.now = {k}] /\ UNCHANGED <<owner, told>>
    BY <1>0, <2>1, <2>2 DEF Pick, Calls
  <2>3. QED
    BY <1>1, <1>2, <2>1, <2>2 DEF Pick
<1>5. CASE PrepareFails \/ CryptocomSendFails
  BY <1>2, <1>5 DEF PrepareFails, CryptocomSendFails
<1>6. CASE venue = "korbit" /\ KorbitWriteFails
  BY <1>2, <1>6 DEF KorbitWriteFails
<1>7. CASE Record /\ venue # "binanceUsdm" /\ (venue \in Private => auth.authenticated)
  <2>1. call.now \in SUBSET Unnoted /\ \A k \in call.now : Alters(call.op, k)
    BY <1>0, <1>7 DEF Record, Unnoted, CallInv, Due
  <2>2. call'.pc = "write"
    BY <1>0, <1>7 DEF Record, Calls
  <2>3. QED
    BY <1>7, <2>1, <2>2 DEF Record, Note
<1>8. CASE venue = "binanceUsdm" /\ UsdmRecord
  <2>1. call.keys \in SUBSET Unnoted /\ \A k \in call.keys : Alters(call.op, k)
    BY <1>0, <1>8 DEF UsdmRecord, Unnoted, CallInv, Due
  <2>2. call'.pc = "write"
    BY <1>0, <1>8 DEF UsdmRecord, Calls
  <2>3. QED
    BY <1>8, <2>1, <2>2 DEF UsdmRecord, Note, Private
<1>9. CASE venue = "korbit" /\ \E k \in call.keys : KorbitRecord(k)
  <2>1. PICK k \in call.keys : KorbitRecord(k)
    BY <1>9
  <2>2. {k} \in SUBSET Unnoted /\ call'.pc = "write"
    BY <1>0, <2>1 DEF KorbitRecord, Unnoted, Calls
  <2>3. QED
    BY <1>9, <2>1, <2>2 DEF KorbitRecord, Note, Private
<1>10. CASE WriteRecorded
  <2>1. Sent(Command(nextID, call.op, call.now)) /\ nextID' = nextID + 1 /\ UNCHANGED <<answers, server>>
    BY <1>10, WriteSends DEF WriteRecorded
  <2>2. QED
    BY <1>0, <1>1, <1>10, <2>1 DEF WriteRecorded, CallInv
<1>11. CASE WriteRecordedFails
  <2>1. /\ call.pc = "write" /\ pending' = pending \ {p \in pending : p.id = nextID} /\ nextID' = nextID + 1
        /\ list' \in {list, Apply(Opposite(call.op), call.now, list)} /\ Return(call.now)
        /\ UNCHANGED <<venue, phase, broken, auth, todo, answers, server, wire>>
    BY <1>11 DEF WriteRecordedFails, Withdraw
  <2>2. Command(nextID, call.op, call.now) \in pending /\ Command(nextID, call.op, call.now).id = nextID
    BY <1>0, <2>1 DEF CallInv, Command
  <2>3. {p \in pending : p.id = nextID} = {Command(nextID, call.op, call.now)}
    BY <1>0, <2>2 DEF NotedInv
  <2>4. \A k : k \notin call.now => (k \in list' <=> k \in list)
    BY <2>1 DEF Apply
  <2>5. QED
    BY <1>2, <2>1, <2>2, <2>3, <2>4
<1>12. CASE venue \in Private /\ RecordBeforeLogin
  BY <1>1, <1>12 DEF RecordBeforeLogin
<1>13. CASE venue \in Private /\ CryptocomRecord
  <2>1. call'.pc = "send" /\ call'.op = call.op /\ call'.now = call.now
    BY <1>0, <1>13 DEF CryptocomRecord, Calls
  <2>2. QED
    BY <1>13, <2>1 DEF CryptocomRecord
<1>14. CASE venue \in Private /\ CryptocomSend
  <2>1. call'.pc = "write"
    BY <1>0, <1>14 DEF CryptocomSend, Calls
  <2>2. QED
    BY <1>14, <2>1 DEF CryptocomSend
<1>15. QED
  BY <1>3, <1>4, <1>5, <1>6, <1>7, <1>8, <1>9, <1>10, <1>11, <1>12, <1>13, <1>14, MatchingChange

LEMMA LoginChange ==
  ASSUME TypedInv, PendingInv, OrderInv, LoginInv, venue \in Private, Change
  PROVE  LoginInv'
<1>0. /\ venue \in Matching /\ AuthInv /\ AnsweredInv /\ ClosedInv /\ UNCHANGED <<venue, phase, broken, auth, todo, answers, server>>
      /\ (Unasked' <=> Unasked) /\ (LoggingIn' <=> LoggingIn) /\ (Restored' <=> Restored)
      /\ LoggingIn \/ phase = "answered" => ~auth.authenticated
  BY ChangeEffects DEF Matching, LoginInv, Unasked, LoggingIn, Restored, AuthInv
<1>1. AuthInv'
  BY <1>0, ChangeEffects DEF AuthInv
<1> DEFINE c == Command(nextID, call.op, call.now)
<1>2. \/ wire' = wire
      \/ call.pc = "write" /\ Sent(c) /\ c \in pending /\ UNCHANGED pending
  BY <1>0, ChangeEffects
<1>3. c.op \in Ops /\ c.id = nextID /\ c.op # "login"
  BY CallFacts DEF Command, Ops
<1>4. c \in WireCommands /\ wire \in Seq(WireCommands)
  <2>1. nextID \in Nat /\ call.op \in Ops /\ call.now \subseteq Keys /\ wire \in Seq(WireCommands)
    BY CallFacts
  <2>2. QED
    BY <2>1 DEF Command, WireCommands
<1>4a. \A p \in pending : p \in pending' \/ p = c
  BY <1>0, ChangeEffects
<1> HIDE DEF c
<1>5. /\ \A i \in DOMAIN wire' : wire'[i] = c \/ (i \in DOMAIN wire /\ wire'[i] = wire[i])
      /\ wire' = wire \/ (call.pc = "write" /\ c \in pending')
  <2>1. CASE wire' = wire
    BY <2>1
  <2>2. CASE call.pc = "write" /\ Sent(c) /\ c \in pending /\ UNCHANGED pending
    <3>1. wire \o <<c>> \in Seq(WireCommands) /\ \A i \in DOMAIN (wire \o <<c>>) : (wire \o <<c>>)[i] = c \/ (i \in DOMAIN wire /\ (wire \o <<c>>)[i] = wire[i])
      <4>1. DOMAIN (wire \o <<c>>) = 1..Len(wire) + 1 /\ DOMAIN wire = 1..Len(wire) /\ Len(wire) \in Nat
        BY <1>4, Longer, LenProperties
      <4>2. \A i \in 1..Len(wire) + 1 : i = Len(wire) + 1 \/ i \in 1..Len(wire)
        BY <4>1
      <4>3. QED
        BY <1>4, <4>1, <4>2, Longer
    <3>2. QED
      BY <2>2, <3>1 DEF Sent
  <2>3. QED
    BY <1>2, <2>1, <2>2
<1>6. AnsweredInv'
  <2>1. phase = "answered" => wire' = <<>> /\ answers' = <<>>
    BY <1>0, <1>5 DEF AnsweredInv, AuthInv
  <2>2. Restored => \A i \in DOMAIN wire' : wire'[i] \in pending'
    <3>1. \A i \in DOMAIN wire : wire[i] # c
      BY <1>0, <1>3, Elements DEF OrderInv
    <3>2. QED
      BY <1>0, <1>4a, <1>5, <3>1 DEF AnsweredInv
  <2>3. Restored => \A i \in DOMAIN answers : Command(answers[i].id, answers[i].op, answers[i].keys) \in pending'
    <3>1. \A i \in DOMAIN answers : Command(answers[i].id, answers[i].op, answers[i].keys) # c
      BY <1>0, <1>3, Elements DEF OrderInv, Command
    <3>2. QED
      BY <1>0, <1>4a, <3>1 DEF AnsweredInv
  <2>4. QED
    BY <1>0, <2>1, <2>2, <2>3 DEF AnsweredInv, NoLogin
<1>7. ClosedInv'
  <2>1. Unasked /\ ~broken => NoLogin(wire')
    BY <1>0, <1>3, <1>5 DEF ClosedInv, NoLogin
  <2>2. LoggingIn => wire' = wire
    BY <1>0, <1>5 DEF AuthInv
  <2>3. QED
    BY <1>0, <2>1, <2>2 DEF ClosedInv, NoLogin, LoginLast
<1>8. QED
  BY <1>1, <1>6, <1>7 DEF LoginInv

\* No command is a login but the last one, written or answered.
LEMMA SentLogin ==
  ASSUME TypedInv, NEW c \in WireCommands, c.op = "login", wire' = wire \o <<c>>, NoLogin(wire)
  PROVE  LoginLast(wire')
<1>1. wire \in Seq(WireCommands) /\ Len(wire) \in Nat /\ DOMAIN wire = 1..Len(wire)
  BY LoopFacts, LenProperties
<1>2. /\ Len(wire') = Len(wire) + 1 /\ DOMAIN wire' = 1..Len(wire) + 1 /\ wire'[Len(wire) + 1] = c
      /\ \A i \in DOMAIN wire : wire'[i] = wire[i]
  BY <1>1, Longer
<1>3. \A i \in DOMAIN wire' : i = Len(wire) + 1 \/ i \in DOMAIN wire
  BY <1>1, <1>2
<1>4. wire' # <<>>
  BY <1>1, <1>2
<1>5. QED
  BY <1>2, <1>3, <1>4 DEF NoLogin, LoginLast

LEMMA LoginAnswered ==
  ASSUME TypedInv, wire # <<>>, NEW status, AnswerWith(status), ~auth.known, Unasked \/ LoggingIn, AnsweredInv, ClosedInv
  PROVE  /\ Unasked => Head(wire).op # "login" /\ NoLogin(wire') /\ NoLogin(answers')
         /\ LoggingIn => \/ Head(wire).op # "login" /\ LoginLast(wire') /\ NoLogin(answers')
                         \/ Head(wire).op = "login" /\ wire' = <<>> /\ LoginLast(answers')
<1> DEFINE a == Reply(status)
<1>1. ~broken
  BY LoopFacts
<1>2. /\ Head(wire) = wire[1] /\ 1 \in DOMAIN wire /\ Len(wire) \in Nat \ {0} /\ DOMAIN wire = 1..Len(wire)
      /\ DOMAIN wire' = 1..Len(wire) - 1 /\ (\A i \in DOMAIN wire' : i + 1 \in DOMAIN wire /\ wire'[i] = wire[i + 1])
      /\ Len(answers) \in Nat /\ DOMAIN answers = 1..Len(answers) /\ DOMAIN answers' = 1..Len(answers) + 1
      /\ (\A i \in DOMAIN answers : answers'[i] = answers[i])
      /\ (\A i \in DOMAIN answers' : i \in DOMAIN answers \/ i = Len(answers) + 1)
      /\ answers'[Len(answers) + 1] = a /\ a.op = wire[1].op
  BY AnswerSent DEF Reply
<1> HIDE DEF a
<1>3. /\ wire \in Seq(WireCommands) /\ answers \in Seq(WireAnswers) /\ wire' = Tail(wire) /\ Len(wire') = Len(wire) - 1
      /\ wire' \in Seq(WireCommands)
  BY LoopFacts, Shorter DEF AnswerWith
<1>4. Len(answers') = Len(answers) + 1 /\ answers' # <<>>
  <2>1. answers' = Append(answers, [id |-> Head(wire).id, op |-> Head(wire).op, keys |-> Head(wire).keys, status |-> status])
    BY DEF AnswerWith
  <2>2. Len(answers') = Len(answers) + 1
    BY <1>3, <2>1, LenProperties
  <2>3. QED
    BY <1>2, <2>2
<1>5. CASE Unasked
  BY <1>1, <1>2, <1>5 DEF AnsweredInv, ClosedInv, NoLogin, Unasked, LoggingIn
<1>6. CASE LoggingIn
  <2>1. LoginLast(wire) /\ NoLogin(answers)
    BY <1>1, <1>6 DEF ClosedInv
  <2>2. CASE Len(wire) = 1
    <3>1. wire' = <<>>
      BY <1>3, <2>2, EmptySeq
    <3>2. wire[1].op = "login"
      BY <2>1, <2>2 DEF LoginLast
    <3>3. LoginLast(answers')
      BY <1>2, <1>4, <2>1, <3>2 DEF LoginLast, NoLogin
    <3>4. QED
      BY <1>2, <1>6, <3>1, <3>2, <3>3 DEF Unasked, LoggingIn
  <2>3. CASE Len(wire) # 1
    <3>1. wire[1].op # "login" /\ NoLogin(answers')
      BY <1>2, <2>1, <2>3 DEF LoginLast, NoLogin
    <3>2. LoginLast(wire')
      <4>1. wire' # <<>> /\ Len(wire') \in DOMAIN wire' /\ Len(wire') + 1 = Len(wire)
        BY <1>2, <1>3, <2>3
      <4>2. \A i \in DOMAIN wire' : wire'[i].op = "login" => i = Len(wire')
        BY <1>2, <1>3, <2>1 DEF LoginLast
      <4>3. QED
        BY <1>2, <2>1, <4>1, <4>2 DEF LoginLast
    <3>3. QED
      BY <1>2, <1>6, <3>1, <3>2 DEF Unasked, LoggingIn
  <2>4. QED
    BY <2>2, <2>3
<1>7. QED
  BY <1>5, <1>6

\* The exchange reads a command of a private manager.
LEMMA LoginServed ==
  ASSUME TypedInv, LoginInv, venue \in Private, Serve
  PROVE  LoginInv'
<1>1. PICK status \in {"ok"} \cup Errors : AnswerWith(status) /\ wire # <<>>
  BY DEF Serve, Accept, Reject
<1>2. AuthInv /\ AnsweredInv /\ ClosedInv /\ auth \in Logins /\ ~broken /\ wire # <<>>
  BY <1>1, LoopFacts DEF LoginInv
<1>3. /\ UNCHANGED <<venue, phase, broken, owner, list, pending, call, todo, nextID>>
      /\ auth'.asked = auth.asked /\ auth'.authenticated = auth.authenticated
      /\ auth'.known = (auth.known \/ (Accept /\ Head(wire).op = "login")) \/ UNCHANGED auth
      /\ server' = server \/ Accept
  <2>1. UNCHANGED <<venue, phase, broken, owner, list, pending, call, todo, nextID>>
    BY <1>1 DEF AnswerWith, managerVars
  <2>2. CASE Accept
    BY <1>2, <2>1, <2>2 DEF Accept, Logins
  <2>3. CASE Reject
    BY <2>1, <2>3 DEF Reject
  <2>4. QED
    BY <2>2, <2>3 DEF Serve
<1>4. (Unasked' <=> Unasked) /\ (LoggingIn' <=> LoggingIn) /\ (Restored' <=> Restored)
  BY <1>3 DEF Unasked, LoggingIn, Restored
<1>5. AuthInv'
  BY <1>2, <1>3 DEF AuthInv
<1>6. phase # "answered"
  BY <1>2 DEF AnsweredInv
<1>7. Restored => Unasked = FALSE /\ LoggingIn = FALSE
  BY DEF Restored, Unasked, LoggingIn, Tracked, Private
<1>8. CASE Unasked \/ LoggingIn
  <2>1. ~auth.known
    BY <1>1, <1>2, <1>8 DEF ClosedInv, Unasked, LoggingIn
  <2>2. /\ Unasked => Head(wire).op # "login" /\ NoLogin(wire') /\ NoLogin(answers')
        /\ LoggingIn => \/ Head(wire).op # "login" /\ LoginLast(wire') /\ NoLogin(answers')
                        \/ Head(wire).op = "login" /\ wire' = <<>> /\ LoginLast(answers')
    BY <1>1, <1>2, <1>8, <2>1, LoginAnswered
  <2>3. Accept => Head(wire).op = "login"
    BY <2>1 DEF Accept
  <2>4. server' = {}
    BY <1>2, <1>3, <1>8, <2>3 DEF Accept, Apply, ClosedInv
  <2>5. Head(wire).op # "login" => ~auth'.known
    BY <1>3, <2>1, <2>3
  <2>6. AnsweredInv'
    BY <1>2, <1>3, <1>4, <1>6, <1>7, <1>8, <2>2 DEF AnsweredInv, NoLogin, LoginLast
  <2>7. ClosedInv'
    BY <1>2, <1>3, <1>4, <1>6, <1>8, <2>2, <2>4, <2>5 DEF ClosedInv
  <2>8. QED
    BY <1>3, <1>5, <2>6, <2>7 DEF LoginInv
<1>9. CASE ~Unasked /\ ~LoggingIn
  <2>1. ClosedInv'
    BY <1>3, <1>4, <1>6, <1>9 DEF ClosedInv
  <2>2. AnsweredInv'
    <3>1. ASSUME Restored
          PROVE  /\ \A i \in DOMAIN wire' : wire'[i] \in pending'
                 /\ \A i \in DOMAIN answers' : Command(answers'[i].id, answers'[i].op, answers'[i].keys) \in pending'
      <4>1. \A i \in DOMAIN wire' : wire'[i] \in pending'
        BY <1>1, <1>2, <1>3, <3>1, AnswerSent DEF AnsweredInv
      <4>2. Command(Reply(status).id, Reply(status).op, Reply(status).keys) \in pending
        <5>1. wire[1] \in pending /\ wire[1] \in WireCommands
          BY <1>1, <1>2, <3>1, AnswerSent, Elements DEF AnsweredInv
        <5>2. Command(wire[1].id, wire[1].op, wire[1].keys) = wire[1]
          BY <5>1 DEF Command, WireCommands
        <5>3. QED
          BY <5>1, <5>2 DEF Reply
      <4>3. \A i \in DOMAIN answers' : Command(answers'[i].id, answers'[i].op, answers'[i].keys) \in pending
        <5>1. \A i \in DOMAIN answers' : i \in DOMAIN answers \/ i = Len(answers) + 1
          BY <1>1, AnswerSent
        <5>2. (\A i \in DOMAIN answers : answers'[i] = answers[i]) /\ answers'[Len(answers) + 1] = Reply(status)
          BY <1>1, AnswerSent
        <5>3. QED
          BY <1>2, <3>1, <4>2, <5>1, <5>2 DEF AnsweredInv
      <4>4. QED
        BY <1>3, <4>1, <4>3
    <3>2. QED
      BY <1>3, <1>4, <1>6, <1>9, <3>1 DEF AnsweredInv
  <2>3. QED
    BY <1>3, <1>5, <2>1, <2>2 DEF LoginInv
<1>10. QED
  BY <1>8, <1>9

\* The handler of a private manager.
LEMMA LoginHandled ==
  ASSUME TypedInv, PendingInv, OrderInv, LoginInv, venue \in Private, Handle
  PROVE  LoginInv'
<1>0. AuthInv /\ AnsweredInv /\ ClosedInv /\ venue \in Matching
  BY DEF LoginInv, Matching
<1>1. /\ answers # <<>> /\ phase = "serving" /\ UNCHANGED <<venue, broken, conns, auth, owner, call, changes, todo, nextID, told>>
      /\ IF phase' = "stopped" THEN Disconnected ELSE answers' = Tail(answers) /\ UNCHANGED <<wire, server>>
      /\ phase' = IF venue \in Private /\ Answer.op = "login" /\ Answer.status = "ok" THEN "answered"
                  ELSE IF phase' = "stopped" THEN "stopped" ELSE "serving"
      /\ pending' = pending \ Found
  BY <1>0, HandleFinds
<1>2. /\ Answer = answers[1] /\ 1 \in DOMAIN answers /\ DOMAIN answers = 1..Len(answers) /\ Len(answers) \in Nat \ {0}
      /\ DOMAIN Tail(answers) = 1..Len(answers) - 1
      /\ \A i \in 1..Len(answers) - 1 : Tail(answers)[i] = answers[i + 1] /\ i + 1 \in DOMAIN answers /\ i + 1 # 1
  BY <1>1, FirstAnswer
<1>3. Tail(answers) \in Seq(WireAnswers) /\ Len(Tail(answers)) = Len(answers) - 1
  BY <1>1, LoopFacts, Shorter
<1>4. ASSUME phase' = "answered" => ~auth.authenticated PROVE AuthInv'
  <2>1. phase' \in {"answered", "serving", "stopped"} /\ phase = "serving" /\ UNCHANGED <<auth, call, todo>>
    BY <1>1
  <2>2. pending = {} => pending' = {}
    BY <1>1
  <2>3. QED
    BY <1>0, <1>4, <2>1, <2>2 DEF AuthInv
<1>5. CASE phase' = "stopped"
  <2>1. wire' = <<>> /\ answers' = <<>>
    BY <1>1, <1>5 DEF Disconnected
  <2>2. ~Unasked' /\ ~LoggingIn' /\ ~Restored'
    BY <1>1, <1>5 DEF Unasked, LoggingIn, Restored, Tracked, Private
  <2>3. QED
    BY <1>4, <1>5, <2>1, <2>2 DEF LoginInv, AnsweredInv, ClosedInv
<1>6. CASE phase' = "answered"
  <2>1. Answer.op = "login"
    BY <1>1, <1>6
  <2>2. LoggingIn
    <3>1. ~Restored
      <4>1. Command(Answer.id, Answer.op, Answer.keys).op = "login"
        BY <2>1 DEF Command
      <4>2. Command(Answer.id, Answer.op, Answer.keys) \notin pending
        BY <4>1, LoopFacts DEF Pendings, Ops
      <4>3. QED
        BY <1>0, <1>2, <4>2 DEF AnsweredInv
    <3>2. QED
      BY <1>1, <3>1, LoopFacts DEF LoggingIn, Restored, Logins
  <2>3. Len(answers) = 1 /\ ~NoLogin(answers)
    BY <1>0, <1>2, <2>1, <2>2 DEF AnsweredInv, NoLogin
  <2>4. answers' = <<>>
    BY <1>1, <1>3, <1>6, <2>3, EmptySeq
  <2>5. wire' = <<>> /\ (~broken => server' = {})
    BY <1>0, <1>1, <1>6, <2>2, <2>3, LoopFacts DEF ClosedInv
  <2>6. ~Unasked' /\ ~LoggingIn' /\ ~Restored'
    BY <1>6 DEF Unasked, LoggingIn, Restored, Tracked, Private
  <2>7. ~auth.authenticated
    BY <1>0, <1>1, <2>2 DEF LoggingIn
  <2>8. QED
    BY <1>1, <1>4, <2>4, <2>5, <2>6, <2>7 DEF LoginInv, AnsweredInv, ClosedInv
<1>7. CASE phase' = "serving"
  <2>1. answers' = Tail(answers) /\ UNCHANGED <<wire, server, phase, auth, venue, broken>>
    BY <1>1, <1>7
  <2>2. (Unasked' <=> Unasked) /\ (LoggingIn' <=> LoggingIn) /\ (Restored' <=> Restored) /\ ~Unasked
    BY <1>1, <2>1 DEF Unasked, LoggingIn, Restored
  <2>3. LoggingIn => \A i \in DOMAIN answers' : answers'[i].op = "login" => i = Len(answers')
    <3>1. \A i \in DOMAIN answers' : i + 1 = Len(answers) <=> i = Len(answers')
      BY <1>2, <1>3, <2>1
    <3>2. QED
      BY <1>0, <1>2, <2>1, <3>1 DEF AnsweredInv
  <2>4. NoLogin(answers) => NoLogin(answers')
    BY <1>2, <2>1 DEF NoLogin
  <2>5. CASE LoggingIn
    <3>1. ASSUME ~broken, LoginLast(answers) PROVE LoginLast(answers')
      <4>1. Answer.op # "login"
        <5>1. answers[1].op = "login" => Len(answers) = 1
          BY <1>2, <3>1 DEF LoginLast
        <5>2. CASE Answer.op = "login" /\ Answer.status = "ok"
          BY <1>1, <1>7, <5>2
        <5>3. CASE Answer.op = "login" /\ Answer.status # "ok"
          <6>1. HandleLogin
            BY <5>3 DEF Handle, GateioHandleControl, GateioFuturesHandleControl, HtxHandleControl, KucoinHandleControl,
               KucoinFuturesHandleControl, BinanceUsdmHandleControl, KorbitHandleControl, CryptocomHandleControl, MexcHandleControl,
               KrakenRun, KrakenFuturesRun, PassOn, HtxPrivateHandleControl, Private
          <6>2. QED
            BY <1>7, <5>3, <6>1 DEF HandleLogin
        <5>4. QED
          BY <5>2, <5>3
      <4>2. Len(answers) # 1 /\ answers[Len(answers)].op = "login"
        BY <1>2, <3>1, <4>1 DEF LoginLast
      <4>3. answers' # <<>> /\ Len(answers') \in DOMAIN answers' /\ Len(answers') + 1 = Len(answers)
        BY <1>2, <1>3, <2>1, <4>2
      <4>4. QED
        BY <1>2, <2>1, <2>3, <2>5, <4>2, <4>3 DEF LoginLast
    <3>2. ClosedInv'
      BY <1>0, <2>1, <2>2, <2>4, <2>5, <3>1 DEF ClosedInv
    <3>3. ~Restored
      BY <2>5 DEF LoggingIn, Restored, Tracked, Private
    <3>4. AnsweredInv'
      BY <1>0, <1>7, <2>1, <2>2, <2>3, <3>3 DEF AnsweredInv
    <3>5. QED
      BY <1>4, <1>7, <2>1, <3>2, <3>4 DEF LoginInv
  <2>6. CASE ~LoggingIn
    <3>1. ClosedInv'
      BY <1>7, <2>2, <2>6 DEF ClosedInv
    <3>2. Restored
      BY <1>1, <2>6, LoopFacts DEF LoggingIn, Restored, Logins
    <3>3. \A i \in DOMAIN wire' : wire'[i] \in pending'
      BY <1>0, <1>1, <1>2, <2>1, <3>2 DEF AnsweredInv, OrderInv, Found
    <3>4. \A i \in DOMAIN answers' : Command(answers'[i].id, answers'[i].op, answers'[i].keys) \in pending'
      BY <1>0, <1>1, <1>2, <2>1, <3>2 DEF AnsweredInv, OrderInv, Found, Command
    <3>5. AnsweredInv'
      BY <1>7, <2>2, <2>6, <3>3, <3>4 DEF AnsweredInv
    <3>6. QED
      BY <1>4, <1>7, <2>1, <3>1, <3>5 DEF LoginInv
  <2>7. QED
    BY <2>5, <2>6
<1>8. QED
  BY <1>1, <1>5, <1>6, <1>7

LEMMA LoginLoop ==
  ASSUME TypedInv, PendingInv, OrderInv, LoginInv, venue \in Private,
         Hook \/ Handle \/ Activation \/ Connect \/ Disconnect \/ Break \/ Serve \/ Over
  PROVE  LoginInv'
<1> USE DEF sessionVars, managerVars, wireVars
<1>0. /\ AuthInv /\ AnsweredInv /\ ClosedInv /\ venue \in Matching /\ auth \in Logins /\ venue \notin Tracked
      /\ (phase \in {"down", "stopped"} => answers = <<>>) /\ (broken \/ phase \in {"down", "stopped"} => wire = <<>> /\ server = {})
      /\ DOMAIN (<<>>) = {}
  BY LoopFacts DEF LoginInv, Matching, Tracked, Private
<1> HIDE DEF Logins
\* Nothing is under way, and the connection is down, stopped, broken or new.
<1>1. ASSUME UNCHANGED venue, phase' \in {"down", "stopped"}, wire' = <<>>, answers' = <<>>, AuthInv' PROVE LoginInv'
  BY <1>1 DEF LoginInv, AnsweredInv, ClosedInv, Unasked, LoggingIn, Restored, Tracked, Private
<1>2. ASSUME HookFails \/ LoginFails \/ Disconnect PROVE LoginInv'
  <2>1. UNCHANGED <<venue, auth, call, pending>> /\ phase' \in {"down", "stopped"} /\ wire' = <<>> /\ answers' = <<>>
    BY <1>2 DEF HookFails, LoginFails, Disconnect, Disconnected
  <2>2. AuthInv'
    BY <1>0, <2>1 DEF AuthInv
  <2>3. QED
    BY <1>1, <2>1, <2>2
<1>3. ASSUME HookDone PROVE LoginInv'
  <2>1. phase = "hook" /\ phase' = "serving" /\ auth.asked /\ ~auth.authenticated
        /\ UNCHANGED <<venue, broken, auth, wire, answers, server, call, pending, todo>>
    BY <1>0, <1>3 DEF HookDone, AuthInv
  <2>2. LoggingIn /\ LoggingIn' /\ ~Unasked' /\ ~Restored'
    BY <1>0, <2>1 DEF LoggingIn, Unasked, Restored, Tracked, Private
  <2>3. AuthInv'
    BY <1>0, <2>1 DEF AuthInv
  <2>4. QED
    BY <1>0, <2>1, <2>2, <2>3 DEF LoginInv, AnsweredInv, ClosedInv, NoLogin, LoginLast
<1>4. ASSUME Authenticate PROVE LoginInv'
  <2>1. phase = "connected" /\ phase' = "hook" /\ auth'.asked = auth.asked /\ auth'.known = auth.known /\ ~auth'.authenticated
        /\ UNCHANGED <<venue, broken, wire, answers, server, call, todo>> /\ pending' = {} /\ call.pc = "idle"
    BY <1>0, <1>4, LoopFacts DEF Authenticate, Logins
  <2>2. Unasked /\ Unasked' /\ ~LoggingIn' /\ ~Restored'
    BY <1>0, <2>1 DEF LoggingIn, Unasked, Restored, Tracked, Private, AuthInv
  <2>3. todo = {}
    BY <2>1, <1>0, PendingFacts DEF TodoInv
  <2>4. AuthInv'
    BY <1>0, <2>1, <2>3 DEF AuthInv
  <2>5. QED
    BY <1>0, <2>1, <2>2, <2>4 DEF LoginInv, AnsweredInv, ClosedInv, NoLogin
<1>5. ASSUME Login PROVE LoginInv'
  <2> DEFINE c == Command(nextID, "login", {})
  <2>1. /\ c \in WireCommands /\ Sent(c) /\ auth'.asked = TRUE /\ auth'.known = auth.known /\ auth'.authenticated = auth.authenticated
        /\ phase = "hook" /\ ~auth.asked /\ UNCHANGED <<venue, phase, broken, list, pending, call, todo, answers, server>>
    BY <1>5, LoginSends
  <2>2. Unasked /\ LoggingIn' /\ ~Unasked' /\ ~Restored'
    BY <2>1 DEF LoggingIn, Unasked, Restored, Tracked, Private
  <2>3. c.op = "login"
    BY DEF Command
  <2> HIDE DEF c
  <2>4. ~broken => LoginLast(wire') /\ NoLogin(answers') /\ ~auth'.known /\ server' = {}
    BY <1>0, <2>1, <2>2, <2>3, SentLogin DEF Sent, ClosedInv, AnsweredInv, NoLogin
  <2>5. AuthInv'
    BY <1>0, <2>1 DEF AuthInv
  <2>6. NoLogin(answers')
    BY <1>0, <2>1, <2>2 DEF AnsweredInv, NoLogin
  <2>7. QED
    BY <2>1, <2>2, <2>4, <2>5, <2>6 DEF LoginInv, AnsweredInv, ClosedInv, NoLogin
<1>6. ASSUME Hook PROVE LoginInv'
  <2>1. HookDone \/ HookFails \/ Authenticate \/ Login \/ LoginFails
    BY <1>0, <1>6, MatchingHook DEF Private
  <2>2. QED
    BY <1>2, <1>3, <1>4, <1>5, <2>1
<1>7. ASSUME Activate PROVE LoginInv'
  <2>1. phase = "answered" /\ phase' = "activating" /\ auth'.asked = auth.asked /\ auth'.authenticated
        /\ UNCHANGED <<venue, broken, wire, answers, server, call>>
    BY <1>0, <1>7 DEF Activate, Logins
  <2>2. ~Unasked' /\ ~LoggingIn' /\ wire' = <<>> /\ answers' = <<>>
    BY <1>0, <2>1 DEF Unasked, LoggingIn, AnsweredInv
  <2>3. AuthInv'
    BY <1>0, <2>1 DEF AuthInv
  <2>4. QED
    BY <1>0, <2>1, <2>2, <2>3 DEF LoginInv, AnsweredInv, ClosedInv
<1>8. ASSUME ActivateNext PROVE LoginInv'
  <2>1. PICK keys \in (SUBSET todo) \ {{}} :
           /\ Command(nextID, "subscribe", keys) \in WireCommands /\ Sent(Command(nextID, "subscribe", keys))
           /\ pending' = pending \cup {Command(nextID, "subscribe", keys)}
           /\ UNCHANGED <<venue, phase, broken, auth, call, answers, server>>
    BY <1>0, <1>8, RestoresSome
  <2> DEFINE c == Command(nextID, "subscribe", keys)
  <2>2. c \in WireCommands /\ Sent(c) /\ pending' = pending \cup {c}
    BY <2>1
  <2> HIDE DEF c
  <2>3. phase = "activating" /\ phase' = "activating"
    BY <1>8 DEF ActivateNext
  <2>4. ~Unasked' /\ ~LoggingIn' /\ Restored
    BY <1>0, <2>3 DEF Unasked, LoggingIn, Restored
  <2>5. \A i \in DOMAIN wire' : wire'[i] \in pending'
    <3>1. \A i \in DOMAIN wire : wire[i] \in pending
      BY <1>0, <2>4 DEF AnsweredInv
    <3>2. CASE broken
      BY <2>2, <3>1, <3>2 DEF Sent
    <3>3. CASE ~broken
      <4>1. wire' = wire \o <<c>> /\ wire \in Seq(WireCommands) /\ Len(wire) \in Nat /\ DOMAIN wire = 1..Len(wire)
        BY <2>2, <3>3, LoopFacts, LenProperties DEF Sent
      <4>2. /\ DOMAIN wire' = 1..Len(wire) + 1 /\ wire'[Len(wire) + 1] = c /\ \A i \in DOMAIN wire : wire'[i] = wire[i]
        BY <2>2, <4>1, Longer
      <4>3. \A i \in DOMAIN wire' : i = Len(wire) + 1 \/ i \in DOMAIN wire
        BY <4>1, <4>2
      <4>4. QED
        BY <2>2, <3>1, <4>2, <4>3
    <3>4. QED
      BY <3>2, <3>3
  <2>6. \A i \in DOMAIN answers' : Command(answers'[i].id, answers'[i].op, answers'[i].keys) \in pending'
    BY <1>0, <2>1, <2>2, <2>4 DEF AnsweredInv
  <2>7. AuthInv'
    BY <1>0, <2>1, <2>3 DEF AuthInv
  <2>8. QED
    BY <2>3, <2>4, <2>5, <2>6, <2>7 DEF LoginInv, AnsweredInv, ClosedInv
<1>9. ASSUME ActivateFails PROVE LoginInv'
  <2>1. /\ UNCHANGED <<venue, call>> /\ phase' \in {"down", "stopped"} /\ wire' = <<>> /\ answers' = <<>>
        /\ pending' = {} /\ call.pc = "idle" /\ ~auth'.authenticated
    BY <1>0, <1>9, LoopFacts DEF ActivateFails, Disconnected, Logins
  <2>2. AuthInv'
    BY <2>1 DEF AuthInv
  <2>3. QED
    BY <1>1, <2>1, <2>2
<1>10. ASSUME ActivateDone PROVE LoginInv'
  <2>1. phase = "activating" /\ phase' = "serving" /\ UNCHANGED <<venue, broken, auth, wire, answers, server, call, pending>>
    BY <1>10 DEF ActivateDone
  <2>2. ~Unasked' /\ ~LoggingIn' /\ Restored
    BY <1>0, <2>1 DEF Unasked, LoggingIn, Restored, AuthInv
  <2>3. AuthInv'
    BY <1>0, <2>1 DEF AuthInv
  <2>4. QED
    BY <1>0, <2>1, <2>2, <2>3 DEF LoginInv, AnsweredInv, ClosedInv
<1>11. ASSUME Connect PROVE LoginInv'
  <2>1. phase = "down" /\ phase' = "connected" /\ ~auth'.asked /\ ~auth'.known /\ auth'.authenticated = auth.authenticated
        /\ UNCHANGED <<venue, wire, answers, server, call, pending, todo>>
    BY <1>0, <1>11 DEF Connect, Logins
  <2>2. wire' = <<>> /\ answers' = <<>> /\ server' = {}
    BY <1>0, <2>1
  <2>3. Unasked' /\ ~LoggingIn' /\ ~Restored'
    BY <1>0, <2>1 DEF Unasked, LoggingIn, Restored
  <2>4. AuthInv'
    BY <1>0, <2>1 DEF AuthInv
  <2>5. QED
    BY <1>0, <2>1, <2>2, <2>3, <2>4 DEF LoginInv, AnsweredInv, ClosedInv, NoLogin
<1>12. ASSUME Break PROVE LoginInv'
  <2>1. broken' /\ wire' = <<>> /\ UNCHANGED <<venue, phase, auth, answers, call, pending, todo>>
    BY <1>12 DEF Break
  <2>2. AuthInv'
    BY <1>0, <2>1 DEF AuthInv
  <2>3. (Unasked' <=> Unasked) /\ (LoggingIn' <=> LoggingIn) /\ (Restored' <=> Restored)
    BY <2>1 DEF Unasked, LoggingIn, Restored
  <2>4. QED
    BY <1>0, <2>1, <2>2, <2>3 DEF LoginInv, AnsweredInv, ClosedInv, NoLogin
<1>13. ASSUME Over PROVE LoginInv'
  BY <1>0, <1>13 DEF Over, managedVars, LoginInv, AuthInv, AnsweredInv, ClosedInv, Unasked, LoggingIn, Restored, NoLogin, LoginLast
<1>14. QED
  BY <1>2, <1>6, <1>7, <1>8, <1>9, <1>10, <1>11, <1>12, <1>13, LoginHandled, LoginServed DEF Activation
-----------------------------------------------------------------------------
\* Agreement: the steps of a call.

LEMMA KeptRight ==
  ASSUME NEW k, UNCHANGED <<venue, wire, answers, server>>, k \in list' <=> k \in list
  PROVE  /\ (Agreed(k)' <=> Agreed(k)) /\ (Free(k)' <=> Free(k))
         /\ \A op \in Ops : Unwritten(k, op)' <=> Unwritten(k, op)
         /\ \A p : (InWire(k, p)' <=> InWire(k, p)) /\ (InAnswers(k, p)' <=> InAnswers(k, p))
<1>1. /\ (Agreed(k)' <=> Agreed(k)) /\ (Free(k)' <=> Free(k)) /\ \A op \in Ops : Unwritten(k, op)' <=> Unwritten(k, op)
  BY DEF Agreed, Free, Unwritten
<1>2. ASSUME NEW p PROVE (InWire(k, p)' <=> InWire(k, p)) /\ (InAnswers(k, p)' <=> InAnswers(k, p))
  BY DEF InWire, InAnswers
<1>3. QED
  BY <1>1, <1>2

\* One more command on the wire: for k, or for others.
LEMMA SentRight ==
  ASSUME NEW k, NEW c \in WireCommands, wire \in Seq(WireCommands), wire' = wire \o <<c>>, UNCHANGED <<venue, answers, server>>,
         k \in list' <=> k \in list
  PROVE  /\ k \notin c.keys =>
              /\ (Agreed(k) => Agreed(k)') /\ (Free(k) => Free(k)')
              /\ \A op \in Ops : Unwritten(k, op) => Unwritten(k, op)'
              /\ \A p : (InWire(k, p) => InWire(k, p)') /\ (InAnswers(k, p) => InAnswers(k, p)')
         /\ k \in c.keys /\ Unwritten(k, c.op) => InWire(k, c)'
         /\ Free(k) /\ c.op = "unsubscribe" => Free(k)'
<1>1. /\ DOMAIN wire' = 1..Len(wire) + 1 /\ (\A i \in DOMAIN wire : i \in DOMAIN wire' /\ wire'[i] = wire[i])
      /\ wire'[Len(wire) + 1] = c /\ DOMAIN wire = 1..Len(wire) /\ Len(wire) \in Nat
  BY Longer, LenProperties
<1>2. /\ \A i \in DOMAIN wire' : i = Len(wire) + 1 \/ (i \in DOMAIN wire /\ i < Len(wire) + 1)
      /\ Len(wire) + 1 \in DOMAIN wire'
      /\ \A i \in DOMAIN wire' : ~(i > Len(wire) + 1) /\ (i < Len(wire) + 1 => i \in DOMAIN wire)
  BY <1>1
<1>3. ASSUME k \notin c.keys
      PROVE  /\ (Agreed(k) => Agreed(k)') /\ (Free(k) => Free(k)')
             /\ \A op \in Ops : Unwritten(k, op) => Unwritten(k, op)'
  BY <1>1, <1>2, <1>3 DEF Agreed, Free, Unwritten
<1>4. ASSUME k \notin c.keys, NEW p PROVE (InWire(k, p) => InWire(k, p)') /\ (InAnswers(k, p) => InAnswers(k, p)')
  <2>1. InWire(k, p) => InWire(k, p)'
    <3> SUFFICES ASSUME InWire(k, p) PROVE InWire(k, p)'
      OBVIOUS
    <3>1. PICK i \in DOMAIN wire :
            /\ wire[i].id = p.id
            /\ \A j \in DOMAIN wire : j > i => k \notin wire[j].keys
            /\ p.op = "unsubscribe" => k \in server /\ \A j \in DOMAIN wire : j < i => k \notin wire[j].keys
      BY DEF InWire
    <3>2. i \in DOMAIN wire' /\ wire'[i].id = p.id
      BY <1>1, <3>1
    <3>3. \A j \in DOMAIN wire' : j > i => k \notin wire'[j].keys
      BY <1>1, <1>2, <1>4, <3>1
    <3>4. p.op = "unsubscribe" => k \in server' /\ \A j \in DOMAIN wire' : j < i => k \notin wire'[j].keys
      BY <1>1, <1>2, <1>4, <3>1
    <3>5. QED
      BY <3>2, <3>3, <3>4 DEF InWire
  <2>2. InAnswers(k, p) => InAnswers(k, p)'
    BY <1>1, <1>2, <1>4 DEF InAnswers
  <2>3. QED
    BY <2>1, <2>2
<1>5. k \in c.keys /\ Unwritten(k, c.op) => InWire(k, c)'
  BY <1>1, <1>2 DEF InWire, Unwritten
<1>6. Free(k) /\ c.op = "unsubscribe" => Free(k)'
  BY <1>1, <1>2 DEF Free
<1>7. QED
  BY <1>3, <1>4, <1>5, <1>6

\* The command of the call, whatever becomes of the call.
LEMMA CallCommand ==
  ASSUME TypedInv
  PROVE  \E c \in WireCommands :
           c = Command(nextID, call.op, call.now) /\ c.id = nextID /\ c.op = call.op /\ c.op \in Ops /\ c.keys = call.now
<1>1. nextID \in Nat /\ call.op \in Ops /\ call.now \subseteq Keys
  BY CallFacts
<1>2. Command(nextID, call.op, call.now) \in WireCommands
  BY <1>1 DEF Command, WireCommands
<1>3. /\ Command(nextID, call.op, call.now).id = nextID /\ Command(nextID, call.op, call.now).op = call.op
      /\ Command(nextID, call.op, call.now).keys = call.now
  BY DEF Command
<1>4. QED
  BY <1>1, <1>2, <1>3

LEMMA AgreementChange ==
  ASSUME TypedInv, PendingInv, OrderInv, AgreementInv, LoginInv, venue \in Matching, Change
  PROVE  AgreementInv'
<1>0. /\ UNCHANGED <<venue, phase, broken, auth, todo, answers, server>> /\ told \subseteq told' /\ NotedInv /\ CallInv
      /\ nextID \in Nat /\ call.op \in Ops /\ wire \in Seq(WireCommands) /\ call.now \subseteq Keys
      /\ \A p \in pending : p.op \in Ops
  BY ChangeEffects, PendingFacts, CallFacts DEF Pendings
<1>0a. Restored' <=> Restored
  BY <1>0 DEF Restored
<1> SUFFICES ASSUME Restored, ~broken, NEW k \in Keys \ (told' \cup todo) PROVE Right(k)'
  BY <1>0, <1>0a DEF AgreementInv
<1>1. Right(k) /\ k \notin told'
  BY <1>0 DEF AgreementInv
<1>2. PICK c \in WireCommands :
        c = Command(nextID, call.op, call.now) /\ c.id = nextID /\ c.op = call.op /\ c.op \in Ops /\ c.keys = call.now
  BY CallCommand
<1>2a. c \in pending => \A p \in pending : k \in p.keys /\ p.id = nextID => p = c /\ k \in call.now
  BY <1>0, <1>2 DEF NotedInv
<1>3. CASE /\ UNCHANGED <<wire, pending, list>> /\ call'.pc \in {"idle", "pick", "record"}
           /\ call.pc = "send" => call.now \subseteq told'
           /\ nextID' = nextID \/ (venue = "korbit" /\ call.pc = "write" /\ call.now \subseteq told')
  <2>1. ~Waits(k)' => Agreed(k)'
    BY <1>0, <1>1, <1>3, KeptRight DEF Right, Waits
  <2>2. ASSUME NEW p \in pending, k \in p.keys PROVE Awaited(k, p)'
    <3>1. Awaited(k, p)
      BY <1>1, <2>2 DEF Right
    <3>2. nextID' # nextID => p.id # nextID
      BY <1>0, <1>1, <1>2, <1>2a, <1>3, <2>2 DEF CallInv
    <3>3. QED
      BY <1>0, <1>3, <3>1, <3>2, KeptRight DEF Awaited
  <2>3. QED
    BY <1>3, <2>1, <2>2 DEF Right
<1>4. CASE \E keys \in SUBSET Unnoted :
             /\ call.pc \in {"pick", "record"} /\ (venue \in Private => auth.authenticated)
             /\ \A j \in keys : Alters(call.op, j)
             /\ list' = Apply(call.op, keys, list) /\ pending' = pending \cup {Command(nextID, call.op, keys)}
             /\ UNCHANGED <<wire, nextID>> /\ call'.pc = "write"
  <2>1. PICK keys \in SUBSET Unnoted :
             /\ call.pc \in {"pick", "record"}
             /\ \A j \in keys : Alters(call.op, j)
             /\ list' = Apply(call.op, keys, list) /\ pending' = pending \cup {Command(nextID, call.op, keys)}
             /\ UNCHANGED <<wire, nextID>> /\ call'.pc = "write"
    BY <1>4
  <2>2. PICK n : n = Command(nextID, call.op, keys) /\ n.id = nextID /\ n.op = call.op /\ n.keys = keys
    <3>1. /\ Command(nextID, call.op, keys).id = nextID /\ Command(nextID, call.op, keys).op = call.op
          /\ Command(nextID, call.op, keys).keys = keys
      BY DEF Command
    <3>2. QED
      BY <3>1
  <2>3. pending' = pending \cup {n}
    BY <2>1, <2>2
  <2>4. CASE k \in keys
    <3>1. ~Waits(k) /\ Agreed(k)
      BY <1>0, <1>1, <2>1, <2>4 DEF Right, CallInv
    <3>2. Unwritten(k, n.op)'
      BY <1>0, <2>1, <2>2, <2>4, <3>1 DEF Unwritten, Agreed, Alters
    <3>3. \A p \in pending' : k \in p.keys => p = n
      BY <2>3, <3>1 DEF Waits
    <3>4. Awaited(k, n)' /\ Waits(k)'
      BY <2>1, <2>2, <2>3, <2>4, <3>2 DEF Awaited, Waits
    <3>5. QED
      BY <3>3, <3>4 DEF Right
  <2>5. CASE k \notin keys
    <3>1. k \in list' <=> k \in list
      BY <2>1, <2>5 DEF Apply
    <3>2. ~Waits(k)' => ~Waits(k)
      BY <2>3 DEF Waits
    <3>3. ~Waits(k)' => Agreed(k)'
      BY <1>0, <1>1, <2>1, <3>1, <3>2, KeptRight DEF Right
    <3>4. ASSUME NEW p \in pending, k \in p.keys PROVE Awaited(k, p)'
      BY <1>0, <1>1, <2>1, <3>1, <3>4, KeptRight DEF Right, Awaited
    <3>5. QED
      BY <2>1, <2>2, <2>3, <2>5, <3>3, <3>4 DEF Right
  <2>6. QED
    BY <2>4, <2>5
<1>5. CASE /\ venue \in Private /\ auth.authenticated /\ call.pc = "record" /\ list' = Apply(call.op, call.now, list)
           /\ UNCHANGED <<wire, pending, nextID>> /\ call'.pc = "send" /\ call'.op = call.op /\ call'.now = call.now
  <2>1. ASSUME NEW p \in pending, k \in p.keys PROVE Awaited(k, p)'
    <3>1. k \notin call.now
      BY <1>0, <1>5, <2>1 DEF CallInv, Unnoted, Waits
    <3>2. k \in list' <=> k \in list
      BY <1>5, <3>1 DEF Apply
    <3>3. QED
      BY <1>0, <1>1, <1>5, <2>1, <3>2, KeptRight DEF Right, Awaited
  <2>2. CASE k \in call.now
    <3>1. ~Waits(k) /\ Agreed(k) /\ Alters(call.op, k)
      BY <1>0, <1>1, <1>5, <2>2 DEF Right, CallInv, Unnoted, Due, Private
    <3>2. Unwritten(k, c.op)'
      BY <1>0, <1>2, <1>5, <3>1 DEF Unwritten, Agreed, Alters
    <3>3. (~Waits(k) => IF call.pc = "send" /\ k \in call.now THEN Unwritten(k, call.op) ELSE Agreed(k))'
      BY <1>2, <1>5, <2>2, <3>2 DEF Unwritten
    <3>4. QED
      BY <1>5, <2>1, <3>3 DEF Right
  <2>3. CASE k \notin call.now
    <3>1. k \in list' <=> k \in list
      BY <1>5, <2>3 DEF Apply
    <3>2. ~Waits(k)' => Agreed(k)'
      BY <1>0, <1>1, <1>5, <3>1, KeptRight DEF Right, Waits
    <3>3. QED
      BY <1>5, <2>1, <2>3, <3>2 DEF Right
  <2>4. QED
    BY <2>2, <2>3
<1>6. CASE /\ venue \in Private /\ call.pc = "send" /\ pending' = pending \cup {c}
           /\ UNCHANGED <<wire, list, nextID>> /\ call'.pc = "write"
  <2>1. ASSUME NEW p \in pending, k \in p.keys PROVE Awaited(k, p)'
    BY <1>0, <1>1, <1>6, <2>1, KeptRight DEF Right, Awaited
  <2>2. k \in call.now => Awaited(k, c)'
    <3>1. k \in call.now => ~Waits(k)
      BY <1>0, <1>6 DEF CallInv, Unnoted
    <3>2. k \in call.now => Unwritten(k, call.op)
      BY <1>1, <1>6, <3>1 DEF Right
    <3>3. k \in call.now => Unwritten(k, c.op)'
      BY <1>0, <1>2, <1>6, <3>2 DEF Unwritten
    <3>4. QED
      BY <1>2, <1>6, <3>3 DEF Awaited
  <2>3. ~Waits(k)' => ~Waits(k) /\ k \notin call.now
    BY <1>2, <1>6 DEF Waits
  <2>4. ~Waits(k)' => Agreed(k)'
    BY <1>0, <1>1, <1>6, <2>3, KeptRight DEF Right
  <2>5. QED
    BY <1>2, <1>6, <2>1, <2>2, <2>4 DEF Right
<1>7. CASE /\ call.pc = "write" /\ Sent(c) /\ nextID' = nextID + 1
           /\ c \in pending
           /\ UNCHANGED <<list, pending>> /\ call'.pc \in {"idle", "pick"}
  <2>1. wire' = wire \o <<c>>
    BY <1>7 DEF Sent
  <2>2. ASSUME NEW p \in pending, k \in p.keys PROVE Awaited(k, p)'
    <3>1. Awaited(k, p)
      BY <1>1, <2>2 DEF Right
    <3>2. CASE p = c
      <4>1. (\A i \in DOMAIN wire : wire[i].id # nextID) /\ (\A i \in DOMAIN answers : answers[i].id # nextID)
        BY <1>0, Elements DEF OrderInv
      <4>2. Unwritten(k, c.op)
        BY <1>2, <3>1, <3>2, <4>1 DEF Awaited, InWire, InAnswers
      <4>3. InWire(k, c)'
        BY <1>0, <1>2, <1>7, <2>1, <2>2, <3>2, <4>2, SentRight
      <4>4. QED
        BY <3>2, <4>3 DEF Awaited
    <3>3. CASE p # c
      <4>1. k \notin c.keys /\ p.id # nextID
        BY <1>2, <1>0, <1>7, <2>2, <3>3 DEF NotedInv
      <4>2. QED
        BY <1>0, <1>2, <1>7, <2>1, <3>1, <4>1, SentRight DEF Awaited
    <3>4. QED
      BY <3>2, <3>3
  <2>3. ~Waits(k)' => Agreed(k)'
    <3>1. ~Waits(k)' => ~Waits(k) /\ k \notin c.keys
      BY <1>7 DEF Waits
    <3>2. ~Waits(k)' => Agreed(k)
      BY <1>1, <1>7, <3>1 DEF Right
    <3>3. QED
      BY <1>0, <1>2, <1>7, <2>1, <3>1, <3>2, SentRight
  <2>4. QED
    BY <1>7, <2>2, <2>3 DEF Right
<1>8. CASE /\ call.pc = "write" /\ pending' = pending \ {c} /\ nextID' = nextID + 1
           /\ c \in pending /\ call.now \subseteq told'
           /\ \A j : j \notin call.now => (j \in list' <=> j \in list)
           /\ UNCHANGED wire /\ call'.pc = "idle"
  <2>1. k \notin call.now /\ (k \in list' <=> k \in list)
    BY <1>1, <1>8
  <2>2. ASSUME NEW p \in pending', k \in p.keys PROVE Awaited(k, p)'
    <3>1. Awaited(k, p) /\ p.id # nextID
      BY <1>1, <1>2a, <1>8, <2>1, <2>2 DEF Right
    <3>2. QED
      BY <1>0, <1>8, <2>1, <3>1, KeptRight DEF Awaited
  <2>3. ~Waits(k)' => Agreed(k)'
    <3>1. ~Waits(k)' => ~Waits(k)
      BY <1>2, <1>8, <2>1 DEF Waits
    <3>2. QED
      BY <1>0, <1>1, <1>8, <2>1, <3>1, KeptRight DEF Right
  <2>4. QED
    BY <1>8, <2>2, <2>3 DEF Right
<1>9. CASE venue \in Private /\ ~auth.authenticated
  BY <1>9 DEF Restored, Tracked, Private, LoginInv, AuthInv
<1>10. QED
  BY <1>3, <1>4, <1>5, <1>6, <1>7, <1>8, <1>9, <1>2, ChangeEffects

LEMMA ConnectedChange ==
  ASSUME TypedInv, PendingInv, ConnectedInv, venue \in Tracked, Change
  PROVE  ConnectedInv'
<1>0. /\ venue \in Matching /\ venue \notin Private
      /\ UNCHANGED <<venue, phase, broken, auth, todo, answers, server>> /\ told \subseteq told' /\ NotedInv /\ CallInv
      /\ nextID \in Nat /\ call.op \in Ops /\ wire \in Seq(WireCommands) /\ call.now \subseteq Keys
  <2>1. venue \in Matching /\ venue \notin Private
    BY DEF Matching, Tracked, Private
  <2>2. QED
    BY <2>1, ChangeEffects, PendingFacts, CallFacts
<1> SUFFICES ASSUME phase = "connected", ~broken, NEW k \in Keys \ told', k \notin list' \/ ~Waits(k)' PROVE Free(k)'
  BY <1>0 DEF ConnectedInv
<1>1. (k \notin list \/ ~Waits(k) => Free(k)) /\ k \notin told'
  BY <1>0 DEF ConnectedInv
<1>2. PICK c \in WireCommands :
        c = Command(nextID, call.op, call.now) /\ c.id = nextID /\ c.op = call.op /\ c.op \in Ops /\ c.keys = call.now
  BY CallCommand
<1>3. CASE UNCHANGED <<wire, pending, list>>
  BY <1>0, <1>1, <1>3, KeptRight DEF Waits
<1>4. CASE \E keys \in SUBSET Unnoted :
             /\ call.pc \in {"pick", "record"} /\ (venue \in Private => auth.authenticated)
             /\ \A j \in keys : Alters(call.op, j)
             /\ list' = Apply(call.op, keys, list) /\ pending' = pending \cup {Command(nextID, call.op, keys)}
             /\ UNCHANGED <<wire, nextID>> /\ call'.pc = "write"
  <2>1. PICK keys \in SUBSET Unnoted :
             /\ list' = Apply(call.op, keys, list) /\ pending' = pending \cup {Command(nextID, call.op, keys)}
             /\ UNCHANGED wire
    BY <1>4
  <2>2. k \in keys => ~Waits(k)
    BY <1>0 DEF CallInv
  <2>3. k \notin keys => (k \in list' <=> k \in list)
    BY <2>1 DEF Apply
  <2>4. ~Waits(k)' => ~Waits(k)
    BY <2>1 DEF Waits
  <2>5. Free(k)
    BY <1>1, <2>2, <2>3, <2>4
  <2>6. QED
    BY <1>0, <2>1, <2>5 DEF Free
<1>5. CASE /\ call.pc = "write" /\ Sent(c) /\ c \in pending /\ UNCHANGED <<list, pending>>
  <2>1. wire' = wire \o <<c>>
    BY <1>5 DEF Sent
  <2>2. Free(k)
    BY <1>1, <1>5 DEF Waits
  <2>3. k \in c.keys => c.op = "unsubscribe"
    <3>1. k \in c.keys => Waits(k)'
      BY <1>5 DEF Waits
    <3>2. k \in c.keys => k \notin list
      BY <1>5, <3>1
    <3>3. QED
      BY <1>0, <1>2, <1>5, <3>2 DEF NotedInv, Ops
  <2>4. QED
    BY <1>0, <1>2, <1>5, <2>1, <2>2, <2>3, SentRight
<1>6. CASE /\ pending' = pending \ {c} /\ call.now \subseteq told'
           /\ \A j : j \notin call.now => (j \in list' <=> j \in list)
           /\ UNCHANGED wire
  <2>1. k \notin call.now /\ (k \in list' <=> k \in list)
    BY <1>1, <1>6
  <2>2. ~Waits(k)' => ~Waits(k)
    BY <1>2, <1>6, <2>1 DEF Waits
  <2>3. QED
    BY <1>0, <1>1, <1>6, <2>1, <2>2, KeptRight
<1>7. QED
  BY <1>0, <1>3, <1>4, <1>5, <1>6, <1>2, ChangeEffects
-----------------------------------------------------------------------------
\* Agreement: what the hook writes, what the exchange reads, and what the handler does
\* with the answer.

\* The next command for some of what is to be restored.
LEMMA RestoredRight ==
  ASSUME TypedInv, PendingInv, AgreementInv, venue \in Matching, RewriteTracked \/ ActivateNext
  PROVE  AgreementInv'
<1>1. PICK keys \in (SUBSET todo) \ {{}}, c \in WireCommands :
        /\ c.id = nextID /\ c.op = "subscribe" /\ c.keys = keys /\ Sent(c) /\ pending' = pending \cup {c}
        /\ \A p \in pending : p.id # nextID
        /\ todo' = todo \ keys /\ nextID' = nextID + 1 /\ call = Idle
        /\ UNCHANGED <<venue, phase, broken, auth, list, call, answers, server, told>>
  <2>1. PICK keys \in (SUBSET todo) \ {{}} :
           /\ Command(nextID, "subscribe", keys) \in WireCommands /\ Sent(Command(nextID, "subscribe", keys))
           /\ pending' = pending \cup {Command(nextID, "subscribe", keys)}
           /\ \A p \in pending : p.id # nextID
           /\ todo' = todo \ keys /\ nextID' = nextID + 1 /\ call = Idle
           /\ UNCHANGED <<venue, phase, broken, auth, list, call, answers, server, told>>
    BY RestoresSome
  <2>2. /\ Command(nextID, "subscribe", keys).id = nextID /\ Command(nextID, "subscribe", keys).op = "subscribe"
        /\ Command(nextID, "subscribe", keys).keys = keys
    BY DEF Command
  <2>3. QED
    BY <2>1, <2>2
<1>2. TodoInv /\ NotedInv /\ wire \in Seq(WireCommands) /\ (Restored' <=> Restored) /\ nextID \in Nat /\ call.pc = "idle"
  BY <1>1, PendingFacts, LoopFacts DEF Restored, Idle
<1> SUFFICES ASSUME Restored, ~broken, NEW k \in Keys \ (told \cup (todo \ keys)) PROVE Right(k)'
  BY <1>1, <1>2 DEF AgreementInv
<1>3. wire' = wire \o <<c>>
  BY <1>1 DEF Sent
<1>4. CASE k \in keys
  <2>1. \A p \in pending' : k \in p.keys => p = c
    BY <1>1, <1>2, <1>4 DEF TodoInv, Waits
  <2>2. InWire(k, c)' /\ Waits(k)'
    <3>1. Unwritten(k, c.op)
      BY <1>1 DEF Unwritten
    <3>2. Waits(k)'
      BY <1>1, <1>4 DEF Waits
    <3>3. QED
      BY <1>1, <1>2, <1>3, <1>4, <3>1, <3>2, SentRight
  <2>3. QED
    BY <2>1, <2>2 DEF Right, Awaited
<1>5. CASE k \notin keys
  <2>1. Right(k)
    BY <1>5 DEF AgreementInv
  <2>2. ~Waits(k)' => Agreed(k)'
    <3>1. ~Waits(k)' => ~Waits(k)
      BY <1>1 DEF Waits
    <3>2. QED
      BY <1>1, <1>2, <1>3, <1>5, <2>1, <3>1, SentRight DEF Right
  <2>3. ASSUME NEW p \in pending, k \in p.keys PROVE Awaited(k, p)'
    <3>1. InWire(k, p) \/ InAnswers(k, p)
      BY <1>1, <2>1, <2>3 DEF Right, Awaited
    <3>2. QED
      BY <1>1, <1>2, <1>3, <1>5, <3>1, SentRight DEF Awaited
  <2>4. QED
    BY <1>1, <1>2, <1>5, <2>2, <2>3 DEF Right
<1>6. QED
  BY <1>4, <1>5

\* Korbit's frame.
LEMMA KorbitRight ==
  ASSUME TypedInv, PendingInv, AgreementInv, KorbitRewrite, venue \in Matching
  PROVE  AgreementInv'
<1>1. /\ UNCHANGED <<venue, phase, broken, auth, list, call, answers, server, told>> /\ phase = "hook" /\ todo' = {}
      /\ pending' = pending \cup {Item(k) : k \in todo}
  BY KorbitWrites DEF KorbitRewrite, HookWrite, sessionVars
<1>2. TodoInv /\ NotedInv /\ (Restored' <=> Restored) /\ nextID \in Nat /\ call.pc = "idle"
  BY <1>1, PendingFacts DEF Restored, Idle
<1> SUFFICES ASSUME Restored, ~broken, NEW k \in Keys \ told PROVE Right(k)'
  BY <1>1, <1>2 DEF AgreementInv
<1>3. PICK New : New = DOMAIN wire' \ DOMAIN wire
  OBVIOUS
<1>4. /\ DOMAIN wire \subseteq DOMAIN wire' /\ (\A i \in DOMAIN wire : wire'[i] = wire[i])
      /\ (\A i \in New : \E j \in todo : wire'[i] = Item(j))
      /\ (\A j \in todo : \E i \in New : wire'[i] = Item(j))
      /\ (\A i \in DOMAIN wire, j \in New : i < j)
      /\ (\A i, j \in New : wire'[i] = wire'[j] => i = j)
      /\ \A i \in New : i \in DOMAIN wire'
  BY <1>3, KorbitWrites
<1>5. \A i \in DOMAIN wire' : i \in DOMAIN wire \/ i \in New
  BY <1>3
<1>6. \A j \in todo : Item(j).keys = {j} /\ Item(j).op = "subscribe"
  BY DEF Item, Command
<1>7. CASE k \in todo
  <2>1. PICK p : p = Item(k)
    OBVIOUS
  <2>2. p.keys = {k} /\ p.op = "subscribe" /\ p \in pending'
    BY <1>1, <1>6, <1>7, <2>1
  <2>3. \A q \in pending' : k \in q.keys => q = p
    BY <1>1, <1>2, <1>6, <1>7, <2>1 DEF TodoInv, Waits
  <2>4. InWire(k, p)'
    <3>1. PICK i \in New : wire'[i] = p
      BY <1>4, <1>7, <2>1
    <3>2. \A j \in New : k \in wire'[j].keys => wire'[j] = p
      BY <1>4, <1>6, <2>1
    <3>3. \A j \in New : k \in wire'[j].keys => j = i
      BY <1>4, <3>1, <3>2
    <3>4. (DOMAIN wire') \subseteq Nat
      BY KorbitWrites, LenProperties
    <3>5. \A j \in DOMAIN wire' : j > i => k \notin wire'[j].keys
      <4>1. \A j \in DOMAIN wire : ~(j > i)
        BY <1>4, <3>4
      <4>2. \A j \in New : j > i => j # i
        BY <1>4, <3>4
      <4>3. QED
        BY <1>5, <3>3, <4>1, <4>2
    <3>6. QED
      BY <1>4, <2>2, <3>1, <3>5 DEF InWire
  <2>5. QED
    BY <2>2, <2>3, <2>4 DEF Right, Awaited, Waits
<1>8. CASE k \notin todo
  <2>1. Right(k)
    BY <1>8 DEF AgreementInv
  <2>2. \A i \in New : k \notin wire'[i].keys
    BY <1>4, <1>6, <1>8
  <2>3. Agreed(k) => Agreed(k)'
    BY <1>1, <1>4, <1>5, <2>2 DEF Agreed
  <2>4. \A p \in pending' : k \in p.keys => p \in pending
    BY <1>1, <1>6, <1>8
  <2>5. ASSUME NEW p \in pending, k \in p.keys PROVE Awaited(k, p)'
    <3>1. InWire(k, p) \/ InAnswers(k, p)
      BY <1>2, <2>1, <2>5 DEF Right, Awaited, NotedInv
    <3>2. CASE InWire(k, p)
      <4>1. PICK i \in DOMAIN wire :
              /\ wire[i].id = p.id
              /\ \A j \in DOMAIN wire : j > i => k \notin wire[j].keys
              /\ p.op = "unsubscribe" => k \in server /\ \A j \in DOMAIN wire : j < i => k \notin wire[j].keys
        BY <3>2 DEF InWire
      <4>2. i \in DOMAIN wire' /\ wire'[i].id = p.id
        BY <1>4, <4>1
      <4>3. \A j \in DOMAIN wire' : j > i => k \notin wire'[j].keys
        BY <1>4, <1>5, <2>2, <4>1
      <4>4. p.op = "unsubscribe" => k \in server' /\ \A j \in DOMAIN wire' : j < i => k \notin wire'[j].keys
        BY <1>1, <1>4, <1>5, <2>2, <4>1
      <4>5. QED
        BY <4>2, <4>3, <4>4 DEF InWire, Awaited
    <3>3. CASE InAnswers(k, p)
      <4>1. InAnswers(k, p)'
        BY <1>1, <1>4, <1>5, <2>2, <3>3 DEF InAnswers
      <4>2. QED
        BY <4>1 DEF Awaited
    <3>4. QED
      BY <3>1, <3>2, <3>3
  <2>6. ~Waits(k)' => Agreed(k)'
    <3>1. ~Waits(k)' => ~Waits(k)
      BY <1>1 DEF Waits
    <3>2. QED
      BY <1>2, <2>1, <2>3, <3>1 DEF Right
  <2>7. QED
    BY <1>1, <1>2, <2>4, <2>5, <2>6 DEF Right
<1>9. QED
  BY <1>7, <1>8

\* The exchange reads a command, of k or of others.
LEMMA ServedRight ==
  ASSUME TypedInv, PendingInv, OrderInv, AgreementInv, venue \in Matching, Serve
  PROVE  AgreementInv'
<1>1. PICK status \in {"ok"} \cup Errors :
        /\ AnswerWith(status) /\ wire # <<>>
        /\ IF status = "ok" THEN server' = Apply(wire[1].op, wire[1].keys, server)
           ELSE server' = server /\ (wire[1].op = "subscribe" => wire[1].keys \cap server = {})
  <2>1. "ok" \notin Errors
    BY MatchingErrors
  <2>2. wire # <<>> => Head(wire) = wire[1]
    BY LoopFacts, Shorter
  <2>3. QED
    BY <2>1, <2>2 DEF Serve, Accept, Reject
<1>2. PICK a : a = Reply(status)
  OBVIOUS
<1>3. a.id = wire[1].id /\ a.op = wire[1].op /\ a.keys = wire[1].keys /\ a.status = status
  BY <1>2 DEF Reply
<1>4. /\ 1 \in DOMAIN wire /\ (\A i \in DOMAIN wire' : i + 1 \in DOMAIN wire /\ i + 1 # 1 /\ wire'[i] = wire[i + 1])
      /\ (\A i \in DOMAIN wire : i # 1 => i - 1 \in DOMAIN wire' /\ wire'[i - 1] = wire[i])
      /\ (\A i, j \in DOMAIN wire' : (i < j <=> i + 1 < j + 1) /\ (i > j <=> i + 1 > j + 1))
      /\ (\A i \in DOMAIN wire, j \in DOMAIN wire' : (j < i - 1 <=> j + 1 < i) /\ (j > i - 1 <=> j + 1 > i))
      /\ (\A i \in DOMAIN wire : i # 1 => i > 1 /\ 1 < i)
      /\ (\A i \in DOMAIN answers : i \in DOMAIN answers' /\ answers'[i] = answers[i])
      /\ Len(answers) + 1 \in DOMAIN answers' /\ answers'[Len(answers) + 1] = a
      /\ UNCHANGED <<venue, phase, broken, list, pending, call, todo, nextID, told>>
  BY <1>1, <1>2, AnswerSent
<1>6. Restored' => Restored
  BY <1>1, LoopFacts DEF Serve, Accept, Reject, Restored, Logins, AnswerWith
<1>7. NotedInv /\ CallInv /\ wire[1].op \in Ops \cup {"login"}
  BY <1>4, PendingFacts, Elements DEF WireCommands
<1> SUFFICES ASSUME Restored, ~broken, NEW k \in Keys \ (told \cup todo) PROVE Right(k)'
  BY <1>4, <1>6 DEF AgreementInv
<1>8. Right(k)
  BY DEF AgreementInv
<1>9. k \notin wire[1].keys => (k \in server' <=> k \in server)
  BY <1>1 DEF Apply
<1>10. ASSUME NEW op \in Ops, Unwritten(k, op) PROVE Unwritten(k, op)'
  BY <1>4, <1>9, <1>10 DEF Unwritten
<1>11. ASSUME Agreed(k) PROVE Agreed(k)'
  <2>1. k \in wire[1].keys => (k \notin list /\ k \notin server') \/ (k \notin list /\ server' = server)
    BY <1>1, <1>4, <1>11 DEF Agreed, Apply
  <2>2. \A i \in DOMAIN wire' : k \in wire'[i].keys => k \notin list /\ wire'[i].op = "unsubscribe"
    BY <1>4, <1>11 DEF Agreed
  <2>3. QED
    BY <1>4, <1>9, <1>11, <2>1, <2>2 DEF Agreed
<1>12. ASSUME NEW p \in pending, k \in p.keys, InWire(k, p) PROVE InWire(k, p)' \/ InAnswers(k, p)'
  <2>1. PICK i \in DOMAIN wire :
          /\ wire[i].id = p.id
          /\ \A j \in DOMAIN wire : j > i => k \notin wire[j].keys
          /\ p.op = "unsubscribe" => k \in server /\ \A j \in DOMAIN wire : j < i => k \notin wire[j].keys
    BY <1>12 DEF InWire
  <2>2. CASE i # 1
    <3>1. i - 1 \in DOMAIN wire' /\ wire'[i - 1].id = p.id
      BY <1>4, <2>1, <2>2
    <3>2. \A j \in DOMAIN wire' : j > i - 1 => k \notin wire'[j].keys
      BY <1>4, <2>1, <2>2
    <3>3. p.op = "unsubscribe" => k \in server' /\ \A j \in DOMAIN wire' : j < i - 1 => k \notin wire'[j].keys
      BY <1>4, <1>9, <2>1, <2>2
    <3>4. QED
      BY <3>1, <3>2, <3>3 DEF InWire
  <2>3. CASE i = 1
    <3>1. p = wire[1] /\ p.op \in Ops
      BY <1>12, <2>1, <2>3, PendingFacts DEF OrderInv, Pendings
    <3>2. \A j \in DOMAIN wire' : k \notin wire'[j].keys
      BY <1>4, <2>1, <2>3
    <3>3. k \in server' <=> (status = "ok" <=> p.op = "subscribe")
      <4>1. CASE status = "ok"
        BY <1>1, <1>12, <3>1, <4>1 DEF Apply, Ops
      <4>2. CASE status # "ok"
        BY <1>1, <1>12, <2>1, <3>1, <4>2 DEF Ops
      <4>3. QED
        BY <4>1, <4>2
    <3>4. answers'[Len(answers) + 1].id = p.id /\ answers'[Len(answers) + 1].status = status
      BY <1>3, <1>4, <3>1
    <3>5. QED
      BY <1>4, <3>2, <3>3, <3>4 DEF InAnswers
  <2>4. QED
    BY <2>2, <2>3
<1>13. ASSUME NEW p \in pending, InAnswers(k, p) PROVE InAnswers(k, p)'
  <2>1. k \notin wire[1].keys /\ \A j \in DOMAIN wire' : k \notin wire'[j].keys
    BY <1>4, <1>13 DEF InAnswers
  <2>2. QED
    BY <1>4, <1>9, <1>13, <2>1 DEF InAnswers
<1>14. ASSUME NEW p \in pending, k \in p.keys PROVE Awaited(k, p)'
  <2>1. Awaited(k, p) /\ p.op \in Ops
    BY <1>8, <1>14, PendingFacts DEF Right, Pendings
  <2>2. p.id = nextID /\ Unwritten(k, p.op) => p.id = nextID' /\ Unwritten(k, p.op)'
    BY <1>4, <1>10, <2>1
  <2>3. QED
    BY <1>12, <1>13, <1>14, <2>1, <2>2 DEF Awaited
<1>15. (~Waits(k) => IF call.pc = "send" /\ k \in call.now THEN Unwritten(k, call.op) ELSE Agreed(k))'
  <2>1. Waits(k)' <=> Waits(k)
    BY <1>4 DEF Waits
  <2>2. PICK op \in Ops : op = call.op
    BY CallFacts
  <2>3. Unwritten(k, call.op) => Unwritten(k, call.op)'
    <3>1. Unwritten(k, call.op) => Unwritten(k, op)'
      BY <1>10, <2>2
    <3>2. call'.op = op
      BY <1>4, <2>2
    <3>3. QED
      BY <3>1, <3>2 DEF Unwritten
  <2>4. QED
    BY <1>4, <1>8, <1>11, <2>1, <2>3 DEF Right
<1>16. QED
  BY <1>4, <1>14, <1>15 DEF Right

\* The handler: the answer at the head decides what waited for it.
LEMMA HandledRight ==
  ASSUME TypedInv, PendingInv, OrderInv, AgreementInv, LoginInv, venue \in Matching, Handle
  PROVE  AgreementInv'
<1>1. /\ answers # <<>> /\ phase = "serving" /\ UNCHANGED <<venue, broken, auth, call, todo, nextID, told>>
      /\ IF phase' = "stopped" THEN Disconnected ELSE answers' = Tail(answers) /\ UNCHANGED <<wire, server>>
      /\ pending' = pending \ Found
      /\ \A p \in Found : p.op = Answer.op /\ p.keys = Answer.keys /\ Found = {p}
      /\ list' = IF Undoes THEN Apply(Opposite(Answer.op), Answer.keys, list) ELSE list
  BY HandleFinds
<1>2. /\ Answer = answers[1] /\ 1 \in DOMAIN answers
      /\ (\A i \in DOMAIN Tail(answers) : Tail(answers)[i] = answers[i + 1] /\ i + 1 \in DOMAIN answers /\ i + 1 # 1)
      /\ \A i \in DOMAIN answers : i # 1 => i - 1 \in DOMAIN Tail(answers) /\ Tail(answers)[i - 1] = answers[i]
  BY <1>1, FirstAnswer
<1>3. NotedInv /\ CallInv /\ todo = {} /\ nextID \in Nat /\ Answer.id < nextID /\ Answer.id \in Nat
  BY <1>1, <1>2, PendingFacts, Elements DEF OrderInv, TodoInv
<1> SUFFICES ASSUME Restored', ~broken, NEW k \in Keys \ told PROVE Right(k)'
  BY <1>1, <1>3 DEF AgreementInv
<1>4. Restored /\ phase' = "serving" /\ answers' = Tail(answers) /\ UNCHANGED <<wire, server>>
  <2>1. phase' \notin {"activating", "hook"}
    BY <1>1, HandleFinds
  <2>2. QED
    BY <1>1, <2>1 DEF Restored
<1>5. Right(k)
  BY <1>1, <1>3, <1>4 DEF AgreementInv
<1>6. CASE \E p \in Found : k \in p.keys
  <2>1. PICK p \in Found : k \in p.keys
    BY <1>6
  <2>2. p \in pending /\ p.id = Answer.id /\ p.id # nextID /\ Found # {} /\ p.op = Answer.op /\ p.keys = Answer.keys /\ p.op \in Ops
    BY <1>1, <1>3, <2>1, PendingFacts DEF Found, Pendings
  <2>3. InAnswers(k, p)
    <3>1. ~InWire(k, p)
      BY <1>2, <2>2 DEF InWire, OrderInv
    <3>2. QED
      BY <1>5, <2>1, <2>2, <3>1 DEF Right, Awaited
  <2>4. (\A i \in DOMAIN wire : k \notin wire[i].keys) /\ (k \in server <=> (Answer.status = "ok" <=> p.op = "subscribe"))
    BY <1>2, <2>2, <2>3 DEF InAnswers, OrderInv
  <2>5. k \in list <=> p.op = "subscribe"
    BY <1>3, <2>1, <2>2 DEF NotedInv
  <2>6. Agreed(k)'
    <3>1. \A i \in DOMAIN wire' : k \notin wire'[i].keys
      BY <1>4, <2>4
    <3>2. CASE Answer.status = "ok"
      <4>1. list' = list
        BY <1>1, <3>2 DEF Undoes
      <4>2. QED
        BY <1>4, <2>4, <2>5, <3>1, <3>2, <4>1 DEF Agreed
    <3>3. CASE Answer.status # "ok" /\ venue = "korbit" /\ Answer.op # "subscribe"
      <4>1. list' = list /\ venue' = "korbit"
        BY <1>1, <3>3 DEF Undoes
      <4>2. QED
        BY <1>4, <2>2, <2>4, <2>5, <3>1, <3>3, <4>1 DEF Agreed
    <3>4. CASE Answer.status # "ok" /\ ~(venue = "korbit" /\ Answer.op # "subscribe")
      <4>1. list' = Apply(Opposite(Answer.op), Answer.keys, list)
        BY <1>1, <2>2, <3>4 DEF Undoes
      <4>2. k \in list' <=> p.op = "unsubscribe"
        BY <2>1, <2>2, <4>1 DEF Apply, Opposite, Ops
      <4>3. QED
        BY <1>4, <2>2, <2>4, <3>1, <3>4, <4>2 DEF Agreed, Ops
    <3>5. QED
      BY <3>2, <3>3, <3>4
  <2>7. \A q \in pending' : k \notin q.keys
    BY <1>1, <1>3, <2>1, <2>2 DEF NotedInv
  <2>8. ~(call.pc = "send" /\ k \in call.now)
    BY <1>3, <2>1, <2>2 DEF CallInv, Unnoted, Waits
  <2>9. QED
    BY <1>1, <2>6, <2>7, <2>8 DEF Right
<1>7. CASE \A p \in Found : k \notin p.keys
  <2>1. k \in list' <=> k \in list
    BY <1>1, <1>7 DEF Undoes, Apply
  <2>2. Waits(k)' <=> Waits(k)
    BY <1>1, <1>7 DEF Waits
  <2>3. Agreed(k)' <=> Agreed(k)
    BY <1>1, <1>4, <2>1 DEF Agreed
  <2>4. Unwritten(k, call.op)' <=> Unwritten(k, call.op)
    BY <1>1, <1>4 DEF Unwritten
  <2>5. ASSUME NEW p \in pending', k \in p.keys PROVE Awaited(k, p)'
    <3>1. p \in pending /\ p.id # Answer.id /\ Awaited(k, p) /\ p.op \in Ops
      BY <1>1, <1>5, <2>5, PendingFacts DEF Found, Right, Pendings
    <3>2. (InWire(k, p) => InWire(k, p)') /\ (Unwritten(k, p.op) => Unwritten(k, p.op)')
      BY <1>4 DEF InWire, Unwritten
    <3>3. InAnswers(k, p) => InAnswers(k, p)'
      <4> SUFFICES ASSUME InAnswers(k, p) PROVE InAnswers(k, p)'
        OBVIOUS
      <4>1. PICK i \in DOMAIN answers : answers[i].id = p.id /\ (k \in server <=> (answers[i].status = "ok" <=> p.op = "subscribe"))
        BY DEF InAnswers
      <4>2. i # 1
        BY <1>2, <3>1, <4>1
      <4>3. i - 1 \in DOMAIN answers' /\ answers'[i - 1] = answers[i]
        BY <1>2, <1>4, <4>2
      <4>4. QED
        BY <1>4, <4>1, <4>3 DEF InAnswers
    <3>4. QED
      BY <1>1, <3>1, <3>2, <3>3 DEF Awaited
  <2>6. QED
    BY <1>1, <1>5, <2>2, <2>3, <2>4, <2>5 DEF Right
<1>8. QED
  BY <1>6, <1>7

\* The list is taken to be restored: nothing waits, and what is not listed is not in force.
LEMMA LockedRight ==
  ASSUME TypedInv, PendingInv, ConnectedInv, LoginInv, venue \in Matching, Lock \/ Activate
  PROVE  AgreementInv'
<1>1. /\ UNCHANGED <<venue, broken, list, call, wire, answers, server, told>> /\ todo' = list /\ pending' = {} /\ call = Idle
      /\ phase' \in {"hook", "activating"}
  BY LoopFacts, PendingFacts DEF Lock, Activate, sessionVars, managerVars, wireVars
<1> SUFFICES ASSUME ~broken, NEW k \in Keys \ told, k \notin list PROVE Right(k)'
  BY <1>1 DEF AgreementInv
<1>2. Free(k)
  <2>1. CASE Lock
    BY <2>1 DEF Lock, ConnectedInv, Matching
  <2>2. CASE Activate
    <3>1. venue \in Private /\ phase = "answered"
      BY <2>2, LoopFacts DEF Activate
    <3>2. wire = <<>> /\ server = {}
      BY <3>1 DEF LoginInv, AnsweredInv, ClosedInv
    <3>3. QED
      BY <3>2 DEF Free
  <2>3. QED
    BY <2>1, <2>2
<1>3. Agreed(k)' /\ ~Waits(k)' /\ call'.pc # "send"
  BY <1>1, <1>2 DEF Free, Agreed, Waits, Idle
<1>4. QED
  BY <1>1, <1>3 DEF Right

LEMMA AgreementLoop ==
  ASSUME TypedInv, PendingInv, OrderInv, AgreementInv, ConnectedInv, LoginInv, venue \in Matching,
         Hook \/ Handle \/ Activation \/ Connect \/ Disconnect \/ Break \/ Serve \/ Over
  PROVE  AgreementInv'
<1> USE DEF sessionVars, managerVars, wireVars
<1>1. ASSUME HookFails \/ LoginFails \/ Disconnect \/ ActivateFails \/ Connect PROVE AgreementInv'
  <2>1. phase' \in {"down", "stopped", "connected"}
    BY <1>1 DEF HookFails, LoginFails, Disconnect, ActivateFails, Connect
  <2>2. QED
    BY <2>1 DEF AgreementInv, Restored
<1>2. ASSUME Authenticate \/ Login PROVE AgreementInv'
  <2>1. venue' \in Private /\ phase' = "hook"
    BY <1>2 DEF Authenticate, Login
  <2>2. QED
    BY <2>1 DEF AgreementInv, Restored, Tracked, Private
<1>3. ASSUME Break PROVE AgreementInv'
  BY <1>3 DEF Break, AgreementInv
<1>4. ASSUME HookDone \/ ActivateDone \/ Over PROVE AgreementInv'
  <2>1. UNCHANGED <<venue, broken, auth, list, pending, call, todo, nextID, wire, answers, server, told>>
    BY <1>4 DEF HookDone, ActivateDone, Over, managedVars
  <2>2. Restored' => Restored
    <3>1. CASE HookDone
      BY <3>1 DEF HookDone, Restored, LoginInv, AuthInv
    <3>2. CASE ActivateDone
      BY <3>2, LoopFacts DEF ActivateDone, Restored
    <3>3. CASE Over
      BY <3>3 DEF Over, managedVars, Restored
    <3>4. QED
      BY <1>4, <3>1, <3>2, <3>3
  <2>3. ASSUME NEW k \in Keys, Right(k) PROVE Right(k)'
    <3>1. ASSUME NEW p PROVE Awaited(k, p)' <=> Awaited(k, p)
      BY <2>1 DEF Awaited, Unwritten, InWire, InAnswers
    <3>2. QED
      BY <2>1, <2>3, <3>1 DEF Right, Waits, Agreed, Unwritten
  <2>4. QED
    BY <2>1, <2>2, <2>3 DEF AgreementInv
<1>5. CASE Hook
  BY <1>1, <1>2, <1>4, <1>5, MatchingHook, LockedRight, RestoredRight, KorbitRight
<1>6. CASE Activation
  BY <1>1, <1>4, <1>6, LockedRight, RestoredRight DEF Activation
<1>7. QED
  BY <1>1, <1>3, <1>4, <1>5, <1>6, HandledRight, ServedRight

LEMMA ConnectedLoop ==
  ASSUME TypedInv, PendingInv, ConnectedInv, venue \in Tracked,
         Hook \/ Handle \/ Activation \/ Connect \/ Disconnect \/ Break \/ Serve \/ Over
  PROVE  ConnectedInv'
<1> USE DEF sessionVars, managerVars, wireVars
<1>0. venue \in Matching /\ venue \notin Private
  BY DEF Matching, Tracked, Private
<1>1. CASE Hook
  <2>1. phase' # "connected"
    BY <1>0, <1>1, MatchingHook DEF RewriteTracked, KorbitRewrite, HookWrite, Lock, HookDone, HookFails, Authenticate, Login, LoginFails
  <2>2. QED
    BY <2>1 DEF ConnectedInv
<1>2. CASE Activation \/ Disconnect \/ Break
  BY <1>0, <1>2, LoopFacts DEF Activation, Activate, ActivateNext, ActivateFails, ActivateDone, Disconnect, Break, ConnectedInv
<1>3. CASE Handle
  <2>1. phase' # "connected"
    BY <1>0, <1>3 DEF Handle, GateioHandleControl, GateioFuturesHandleControl, HtxHandleControl, KucoinHandleControl,
       KucoinFuturesHandleControl, BinanceUsdmHandleControl, KorbitHandleControl, CryptocomHandleControl, MexcHandleControl,
       KrakenRun, KrakenFuturesRun, PassOn, HtxPrivateHandleControl, HandleLogin, Settle
  <2>2. QED
    BY <2>1 DEF ConnectedInv
<1>4. CASE Connect
  <2>1. wire' = <<>> /\ server' = {}
    BY <1>4, LoopFacts DEF Connect
  <2>2. \A k : Free(k)'
    BY <2>1 DEF Free
  <2>3. QED
    BY <2>2 DEF ConnectedInv
<1>5. CASE Over
  BY <1>5 DEF Over, managedVars, ConnectedInv, Free, Waits
<1>6. CASE Serve
  <2>1. wire # <<>> /\ \E status : AnswerWith(status)
    BY <1>6 DEF Serve, Accept, Reject
  <2>2. /\ Head(wire) = wire[1] /\ 1 \in DOMAIN wire /\ (\A i \in DOMAIN wire' : i + 1 \in DOMAIN wire /\ wire'[i] = wire[i + 1])
        /\ UNCHANGED <<venue, phase, broken, list, pending, told>>
    BY <2>1, AnswerSent
  <2>3. server' = server \/ server' = Apply(wire[1].op, wire[1].keys, server)
    BY <1>6, <2>2 DEF Serve, Accept, Reject
  <2>4. ASSUME NEW k, Free(k) PROVE Free(k)'
    <3>1. k \notin server'
      BY <2>2, <2>3, <2>4 DEF Free, Apply
    <3>2. \A i \in DOMAIN wire' : k \in wire'[i].keys => wire'[i].op = "unsubscribe"
      BY <2>2, <2>4 DEF Free
    <3>3. QED
      BY <3>1, <3>2 DEF Free
  <2>5. QED
    BY <2>2, <2>4 DEF ConnectedInv, Waits
<1>7. QED
  BY <1>1, <1>2, <1>3, <1>4, <1>5, <1>6
-----------------------------------------------------------------------------
\* The invariant holds at first, in every step, and says that list and exchange are in step.

LEMMA VenueKept ==
  ASSUME ManagedNext
  PROVE  venue' = venue
<1> USE DEF sessionVars, managerVars, wireVars, managedVars
<1>1. ASSUME NEW op, NEW keys, NEW pc, Begin(op, keys, pc) \/ Select(op, keys, pc) PROVE venue' = venue
  BY <1>1 DEF Begin, Select
<1>2. ASSUME NEW k, NEW pc, Pick(k, pc) \/ MexcPick(k) \/ MexcRefuses(k) \/ KorbitRecord(k) \/ KorbitPasses(k) PROVE venue' = venue
  BY <1>2 DEF Pick, MexcPick, MexcRefuses, KorbitRecord, KorbitPasses
<1>3. ASSUME ChangeWrittenFirst PROVE venue' = venue
  BY <1>1, <1>3 DEF ChangeWrittenFirst, WriteSome, RecordAll, WriteSomeFails
<1>4. ASSUME PrepareFails \/ Record \/ WriteRecorded \/ WriteRecordedFails \/ RecordBeforeLogin PROVE venue' = venue
  BY <1>4 DEF PrepareFails, Record, WriteRecorded, WriteRecordedFails, RecordBeforeLogin
<1>5. ASSUME ChangeOptimistic \/ HtxPrivateChange PROVE venue' = venue
  BY <1>1, <1>2, <1>4, <1>5 DEF ChangeOptimistic, HtxPrivateChange
<1>6. ASSUME CryptocomPrivateChange \/ BinanceUsdmChange PROVE venue' = venue
  BY <1>1, <1>2, <1>4, <1>6 DEF CryptocomPrivateChange, BinanceUsdmChange, CryptocomRecord, CryptocomSend, CryptocomSendFails, UsdmRecord
<1>7. ASSUME ChangeWrittenEach PROVE venue' = venue
  BY <1>1, <1>2, <1>7 DEF ChangeWrittenEach, WriteUnrecorded, RecordWritten, WriteUnrecordedFails
<1>8. ASSUME MexcChange \/ KorbitChange PROVE venue' = venue
  BY <1>1, <1>2, <1>4, <1>8 DEF MexcChange, KorbitChange, KorbitWriteFails
<1>9. CASE Change
  BY <1>3, <1>5, <1>6, <1>7, <1>8, <1>9 DEF Change, OkxChange, BybitChange, CoinbaseChange, KrakenChange, KrakenFuturesChange,
     BitgetChange, BinanceChange, GateioChange, GateioFuturesChange, HtxChange, CryptocomChange, KucoinChange, KucoinFuturesChange,
     CoinoneChange
<1>10. CASE Resubscribe
  <2>1. RewriteUntracked \/ RewriteTracked \/ KorbitRewrite
    BY <1>10 DEF Resubscribe, OkxResubscribe, BybitResubscribe, CoinbaseResubscribe, KrakenResubscribe,
     KrakenFuturesResubscribe, BitgetResubscribe, BinanceResubscribe, CoinoneResubscribe, GateioResubscribe,
     GateioFuturesResubscribe, HtxResubscribe, CryptocomResubscribe, KucoinResubscribe, KucoinFuturesResubscribe,
     MexcResubscribe, BinanceUsdmResubscribe, KorbitResubscribe
  <2>2. QED
    BY <2>1 DEF RewriteUntracked, RewriteTracked, KorbitRewrite, HookWrite
<1>11. CASE Hook
  BY <1>10, <1>11 DEF Hook, CoinbaseSnapshot, CoinbaseLock, Lock, HookDone, HookFails, Authenticate, Login, LoginFails
<1>12. CASE Handle \/ Activation \/ Connect \/ Disconnect \/ Break \/ Serve \/ Over
  BY <1>12 DEF Handle, Activation, Activate, ActivateNext, ActivateFails, ActivateDone, Connect, Disconnect, Break, Serve, Accept,
     Reject, AnswerWith, Over
<1>13. QED
  BY <1>9, <1>11, <1>12 DEF ManagedNext, Loop

LEMMA ManagedStart ==
  ASSUME ManagedInit
  PROVE  ManagedInv
<1>1. TypedInv
  BY ManagedStreamAssumption DEF ManagedInit, TypedInv, ManagedTypeOK, Calls, Logins, Idle, Ops
<1>2. pending = {} /\ wire = <<>> /\ answers = <<>> /\ call = Idle /\ phase = "down" /\ todo = {} /\ ~auth.authenticated
  BY DEF ManagedInit
<1>3. UntrackedInv
  BY <1>2 DEF UntrackedInv, Accepted
<1>4. PendingInv
  BY <1>2 DEF PendingInv, NotedInv, CallInv, TodoInv, Unnoted, Idle
<1>5. OrderInv
  BY <1>2 DEF OrderInv
<1>6. AgreementInv /\ ConnectedInv
  BY <1>2 DEF AgreementInv, ConnectedInv, Restored
<1>7. LoginInv
  BY <1>2 DEF LoginInv, AuthInv, AnsweredInv, ClosedInv, Unasked, LoggingIn, Restored, Idle
<1>8. QED
  BY <1>1, <1>3, <1>4, <1>5, <1>6, <1>7 DEF ManagedInv

LEMMA ManagedStep ==
  ASSUME ManagedInv, [ManagedNext]_managedVars
  PROVE  ManagedInv'
<1>0. TypedInv /\ UntrackedInv /\ PendingInv /\ OrderInv /\ AgreementInv /\ ConnectedInv /\ LoginInv
  BY DEF ManagedInv
<1>1. TypedInv'
  BY <1>0, NextTyped
<1>2. CASE ManagedNext
  <2>1. venue' = venue
    BY <1>2, VenueKept
  <2>2. Change \/ Hook \/ Handle \/ Activation \/ Connect \/ Disconnect \/ Break \/ Serve \/ Over
    BY <1>2 DEF ManagedNext, Loop
  <2>3. UntrackedInv'
    <3>1. CASE venue \in Untracked
      BY <1>0, <2>2, <3>1, UntrackedChange, UntrackedLoop
    <3>2. QED
      BY <2>1, <3>1 DEF UntrackedInv
  <2>4. CASE venue \in Matching
    <3>1. PendingInv' /\ OrderInv' /\ AgreementInv'
      BY <1>0, <2>2, <2>4, PendingChange, PendingLoop, OrderChange, OrderLoop, AgreementChange, AgreementLoop
    <3>2. LoginInv'
      <4>1. CASE venue \in Private
        BY <1>0, <2>2, <4>1, LoginChange, LoginLoop
      <4>2. QED
        BY <2>1, <4>1 DEF LoginInv
    <3>3. ConnectedInv'
      <4>1. CASE venue \in Tracked
        BY <1>0, <2>2, <4>1, ConnectedChange, ConnectedLoop
      <4>2. QED
        BY <2>1, <4>1 DEF ConnectedInv
    <3>4. QED
      BY <1>1, <2>3, <3>1, <3>2, <3>3 DEF ManagedInv
  <2>5. CASE venue \notin Matching
    <3>1. venue \notin Tracked /\ venue \notin Private
      BY <2>5 DEF Matching
    <3>2. PendingInv' /\ OrderInv' /\ AgreementInv' /\ LoginInv' /\ ConnectedInv'
      BY <2>1, <2>5, <3>1 DEF PendingInv, OrderInv, AgreementInv, Restored, LoginInv, ConnectedInv
    <3>3. QED
      BY <1>1, <2>3, <3>2 DEF ManagedInv
  <2>6. QED
    BY <2>4, <2>5
<1>3. CASE UNCHANGED managedVars
  BY <1>0, <1>1, <1>3 DEF managedVars, sessionVars, managerVars, wireVars, ManagedInv, UntrackedInv, Accepted, Comes, Wanted, Written,
     PendingInv, NotedInv, CallInv, TodoInv, Unnoted, Due, Waits, Alters, OrderInv, Errors, AgreementInv, Restored, Right, Agreed,
     Awaited, Unwritten, InWire, InAnswers, ConnectedInv, Free, LoginInv, AuthInv, AnsweredInv, ClosedInv, Unasked, LoggingIn,
     NoLogin, LoginLast
<1>4. QED
  BY <1>2, <1>3

\* With nothing on the wire and no answer left, nothing waits.
LEMMA QuietInStep ==
  ASSUME ManagedInv, Quiet, venue \in Restoring, NEW k \in Keys \ told
  PROVE  /\ k \in list => k \in server
         /\ venue # "korbit" => (k \in server => k \in list)
<1>0. /\ TypedInv /\ phase = "serving" /\ ~broken /\ wire = <<>> /\ answers = <<>> /\ call = Idle
      /\ call.pc = "idle" /\ call.now = {} /\ DOMAIN wire = {} /\ DOMAIN answers = {}
  <2>1. TypedInv /\ call.pc = "idle"
    BY LoopFacts DEF ManagedInv, Quiet
  <2>2. QED
    BY <2>1 DEF Quiet, TypedInv, Idle
<1>1. CASE venue \in Untracked
  <2>1. Comes(k) <=> Wanted(k)
    BY <1>0, <1>1 DEF ManagedInv, UntrackedInv, Accepted
  <2>2. Wanted(k) <=> k \in list
    BY <1>0 DEF Wanted, Written
  <2>3. Comes(k) <=> k \in server
    BY <1>0 DEF Comes
  <2>4. QED
    BY <2>1, <2>2, <2>3
<1>2. CASE venue \in Matching
  <2>1. PendingInv /\ NotedInv /\ TodoInv /\ AgreementInv /\ LoginInv
    BY <1>0, <1>2, PendingFacts DEF ManagedInv
  <2>2. Restored
    <3>1. CASE venue \in Tracked
      BY <1>0, <3>1 DEF Restored
    <3>2. CASE venue \in Private
      BY <1>0, <2>1, <3>2, LoopFacts DEF Restored, LoginInv, ClosedInv, LoggingIn, LoginLast, Logins
    <3>3. QED
      BY <1>2, <3>1, <3>2 DEF Matching
  <2>3. Right(k)
    BY <1>0, <2>1, <2>2 DEF AgreementInv, TodoInv
  <2>4. ~Waits(k)
    BY <1>0, <2>1, <2>3 DEF Right, Awaited, InWire, InAnswers, NotedInv, Waits
  <2>5. QED
    BY <1>0, <2>3, <2>4 DEF Right, Agreed
<1>3. venue \in Untracked \cup Matching
  BY <1>0 DEF Restoring, AllVenues, WrittenFirst, Optimistic, WrittenEach, Untracked, Matching, Tracked, Private
<1>4. QED
  BY <1>1, <1>2, <1>3

\* The inductive invariant: what every command and answer under way will make of list
\* and exchange, for every manager that keeps them in step.
THEOREM ManagedHolds == ManagedSpec => []ManagedInv
<1>1. ManagedInit => ManagedInv
  BY ManagedStart
<1>2. ManagedInv /\ [ManagedNext]_managedVars => ManagedInv'
  BY ManagedStep
<1>3. QED
  BY <1>1, <1>2, PTL DEF ManagedSpec

\* List and exchange agree once all is answered, whatever connection a change, a
\* resubscription, a login or an answer meets: what resubscribe restores, change adds
\* and an error answer takes back.
THEOREM StaysInStep == ManagedSpec => []RestoringInStep
<1>1. ManagedInv => RestoringInStep
  <2> SUFFICES ASSUME ManagedInv PROVE RestoringInStep
    OBVIOUS
  <2>1. ManagedTypeOK /\ list \subseteq Keys /\ server \subseteq Keys
    BY LoopFacts DEF ManagedInv, TypedInv
  <2>2. RestoringListIsSubscribed /\ RestoringSubscribedIsListed
    BY <2>1, QuietInStep DEF RestoringListIsSubscribed, RestoringSubscribedIsListed, ListedIsSubscribed, SubscribedIsListed
  <2>3. QED
    BY <2>1, <2>2 DEF RestoringInStep
<1>2. QED
  BY <1>1, ManagedHolds, PTL
=============================================================================
