---------------------------- MODULE MirrorProofs ----------------------------
(***************************************************************************)
(* Proofs about the relayer's copy of a match: no event is lost between    *)
(* two polls, and no row says what the chain has not said.                 *)
(***************************************************************************)
EXTENDS MirrorProperties, SequenceTheorems, FiniteSums

EventName == {"MatchCreated", "MatchActive", "MatchCancelled", "BetPlaced", "MarketLocked",
              "ResultSubmitted", "DisputeOpened", "DisputeResolved", "MatchSettled"}
EventType == [name : EventName, winner : Winner \cup {None}, ledger : Nat]
MatchType == [phase : {"active", "cancelled", "submitted", "disputed", "settled"},
              reported : Winner \cup {None}, final : Winner \cup {None}, deadline : Nat,
              disputed : BOOLEAN, locked : BOOLEAN, bets : SUBSET Winner, paid : SUBSET Winner]

\* The log is in the order of the ledgers, and ends with the latest one.
LogInv ==
  /\ ledger \in Nat \ {0} /\ log \in Seq(EventType)
  /\ \A i \in DOMAIN log : log[i].ledger <= ledger
  /\ \A i, j \in DOMAIN log : i <= j => log[i].ledger <= log[j].ledger

\* Strengthening of NoLostEvent: what this poll has yet to handle is in its page, up to
\* where the next poll will begin.
Window == IF poll.full THEN poll.top ELSE poll.latest

WindowInv ==
  /\ startLedger \in Nat /\ startLedger <= ledger
  /\ page \subseteq DOMAIN log /\ seen \subseteq delivered
  /\ NoLostEvent
  /\ poll \in [on : BOOLEAN, full : BOOLEAN, top : Nat, latest : Nat]
  /\ poll.on =>
       /\ poll.top <= ledger /\ poll.latest <= ledger
       /\ \A i \in DOMAIN log :
            startLedger <= log[i].ledger /\ log[i].ledger < Window => i \in delivered \cup page

\* Strengthening of RowsFollowChain.  The chain: a result is there once it is reported,
\* a winner once the match is settled, and every event in the log still holds.
EventHolds(e, m) ==
  /\ e.name = "BetPlaced" => e.winner \in Winner
  /\ e.name = "ResultSubmitted" => m.phase \notin {"active", "cancelled"} /\ e.winner = m.reported
  /\ e.name = "DisputeOpened" => m.disputed
  /\ e.name = "MatchSettled" => m.phase = "settled" /\ e.winner = m.final

MatchInv ==
  /\ match \in MatchType
  /\ match.phase \in {"active", "cancelled"} <=> match.reported = None
  /\ match.phase = "settled" <=> match.final # None
  /\ \A i \in DOMAIN log : EventHolds(log[i], match)

\* The rows, and the results that are on their way to them.
RowsInv ==
  /\ RowsFollowChain
  /\ settlement \in [winner : Winner \cup {None}, player_prize : BOOLEAN, tx_hash : BOOLEAN]
  /\ dispute \in [status : {"absent", "pending", "disputed", "finalized"},
                  winner : Winner \cup {None}, submitted_at : Nat,
                  final_winner : Winner \cup {None}]
  /\ row \in [status : {"absent", "open", "active", "locked", "cancelled", "completed"},
              winner : Winner \cup {None}]
  /\ row.status = "completed" => row.winner \in Winner
  /\ traders \subseteq Winner

CallerHolds(caller) ==
  /\ caller.pc # "idle" => caller.winner \in Winner
  /\ caller.pc = "record" => caller.winner = match.reported

CallersInv ==
  /\ {poster, reconciler} \subseteq [pc : {"idle", "post", "record", "complete"},
                                     winner : Winner \cup {None}]
  /\ CallerHolds(poster) /\ CallerHolds(reconciler)

ChainInv  == LogInv /\ MatchInv
MirrorInv == ChainInv /\ WindowInv /\ RowsInv /\ CallersInv

\* A step that may add events of the latest ledger to the log, or close it.
LogGrows ==
  /\ Len(log) <= Len(log') /\ \A i \in DOMAIN log : log'[i] = log[i]
  /\ \A i \in DOMAIN log' : i \notin DOMAIN log => log'[i].ledger = ledger
  /\ ledger' \in {ledger, ledger + 1}

\* What the match has been through stays so.
MatchGoesOn ==
  /\ match.phase \notin {"active", "cancelled"} => match'.phase \notin {"active", "cancelled"}
  /\ match.reported # None => match'.reported = match.reported
  /\ match.disputed => match'.disputed
  /\ match.phase = "settled" => match'.phase = "settled" /\ match'.final = match.final

ChainGoesOn == LogGrows /\ MatchGoesOn
-----------------------------------------------------------------------------
(* Polling *)

\* The page's first event is one of them.
LEMMA MinInPage ==
  ASSUME NEW T \in SUBSET Nat, T # {}
  PROVE  Min(T) \in T
BY LeastNat DEF Min

\* The events that a poll from a ledger on asks for, and those that it gets.
Asked(n)  == DOMAIN log \ Before(n)
Answer(n) == {i \in Asked(n) : i - PAGE_LIMIT \notin Asked(n)}

\* The answer is a stretch of the log: the first events from a ledger on, all of them if
\* they are fewer than PAGE_LIMIT, and those before the ledger of its last one otherwise.
LEMMA AnswerStretch ==
  ASSUME LogInv, NEW n \in Nat
  PROVE  /\ Answer(n) \subseteq DOMAIN log
         /\ Cardinality(Answer(n)) # PAGE_LIMIT => Answer(n) = Asked(n)
         /\ Answer(n) # {} => /\ Max(Answer(n)) \in Answer(n)
                             /\ \A i \in Asked(n) : i <= Max(Answer(n)) => i \in Answer(n)
<1> DEFINE asked  == Asked(n)
           answer == Answer(n)
<1>0. asked = DOMAIN log \ Before(n) /\ answer = {i \in asked : i - PAGE_LIMIT \notin asked}
  BY DEF Asked, Answer
<1> SUFFICES /\ answer \subseteq DOMAIN log
             /\ Cardinality(answer) # PAGE_LIMIT => answer = asked
             /\ answer # {} => /\ Max(answer) \in answer
                              /\ \A i \in asked : i <= Max(answer) => i \in answer
  OBVIOUS
<1> HIDE DEF asked, answer
<1> USE <1>0
<1>1. log \in Seq(EventType) /\ ledger \in Nat
  BY DEF LogInv
<1>2. DOMAIN log = 1 .. Len(log) /\ Len(log) \in Nat /\ PAGE_LIMIT \in Nat \ {0}
  BY <1>1, MirrorAssumption
<1>3. \A i \in DOMAIN log : log[i] \in EventType
  BY <1>1
<1>4. \A i \in DOMAIN log : log[i].ledger \in Nat
  BY <1>3 DEF EventType
<1>5. asked \in SUBSET Nat /\ asked \subseteq DOMAIN log /\ answer \subseteq asked
  BY <1>2
<1>6. CASE asked = {}
  BY <1>5, <1>6
<1>7. CASE asked # {}
  <2>1. PICK f \in asked : \A i \in asked : f <= i
    BY <1>5, <1>7, LeastNat
  <2>2. f \in 1 .. Len(log) /\ \A i \in asked : i \in f .. Len(log)
    BY <1>2, <1>5, <2>1
  <2>3. ASSUME NEW i \in f .. Len(log)  PROVE i \in asked
    <3>1. f \in DOMAIN log /\ i \in DOMAIN log /\ f <= i
      BY <1>2, <2>2
    <3>2. log[f].ledger <= log[i].ledger
      BY <3>1 DEF LogInv
    <3>3. ~(log[f].ledger < n)
      BY <2>1 DEF Before
    <3> QED BY <1>4, <3>1, <3>2, <3>3 DEF Before
  <2>4. asked = f .. Len(log)
    BY <2>2, <2>3
  <2>5. \E l \in Nat : /\ f <= l /\ l <= Len(log)
                       /\ \A i \in Nat : i \in answer <=> f <= i /\ i <= l
                       /\ l = Len(log) \/ l = f + PAGE_LIMIT - 1
    <3>1. \A i \in Nat : i \in answer <=> f <= i /\ i <= Len(log) /\ i < f + PAGE_LIMIT
      BY <1>2, <2>2, <2>4
    <3>2. CASE f + PAGE_LIMIT - 1 <= Len(log)
      <4>1. f + PAGE_LIMIT - 1 \in Nat /\ f <= f + PAGE_LIMIT - 1
        BY <1>2, <2>2
      <4>2. \A i \in Nat : i \in answer <=> f <= i /\ i <= f + PAGE_LIMIT - 1
        BY <1>2, <2>2, <3>1, <3>2
      <4> QED BY <3>2, <4>1, <4>2
    <3>3. CASE ~(f + PAGE_LIMIT - 1 <= Len(log))
      <4>1. \A i \in Nat : i \in answer <=> f <= i /\ i <= Len(log)
        BY <1>2, <2>2, <3>1, <3>3
      <4>2. f <= Len(log)
        BY <1>2, <2>2
      <4>3. Len(log) \in Nat
        BY <1>2
      <4> QED BY <4>1, <4>2, <4>3
    <3> QED BY <3>2, <3>3
  <2>6. PICK last \in Nat : /\ f <= last /\ last <= Len(log)
                            /\ \A i \in Nat : i \in answer <=> f <= i /\ i <= last
                            /\ last = Len(log) \/ last = f + PAGE_LIMIT - 1
    BY <2>5
  <2>7. f \in Nat /\ answer \subseteq Nat
    BY <1>5
  <2>8. Cardinality(answer) = last - f + 1
    <3>1. answer = f .. last
      BY <2>6, <2>7
    <3>2. Cardinality(f .. last) = last - f + 1
      <4>1. \A a, b \in Int : Cardinality(a .. b) = IF a > b THEN 0 ELSE b - a + 1
        BY FS_Interval
      <4>2. f \in Int /\ last \in Int /\ ~(f > last)
        BY <2>6, <2>7
      <4> QED BY <4>1, <4>2
    <3> QED BY <3>1, <3>2
  <2>9. Cardinality(answer) # PAGE_LIMIT => answer = asked
    <3>1. last = f + PAGE_LIMIT - 1 => last - f + 1 = PAGE_LIMIT
      BY <1>2, <2>6, <2>7
    <3>2. Cardinality(answer) # PAGE_LIMIT => last = Len(log)
      BY <2>6, <2>8, <3>1
    <3> QED BY <1>5, <2>4, <2>6, <2>7, <3>2
  <2>10. last \in answer /\ \A i \in answer : i <= last
    BY <2>6, <2>7
  <2>11. Max(answer) = last
    <3>1. \A i \in answer : last >= i
      BY <2>6, <2>7, <2>10
    <3>2. \A m \in answer : (\A i \in answer : m >= i) => m = last
      BY <2>6, <2>7, <2>10
    <3> QED BY <2>10, <3>1, <3>2 DEF Max
  <2>12. \A i \in asked : i <= last => i \in answer
    <3>1. \A i \in asked : i \in Nat /\ f <= i
      BY <1>5, <2>1
    <3> QED BY <2>6, <3>1
  <2> QED BY <1>5, <2>9, <2>10, <2>11, <2>12
<1> QED BY <1>6, <1>7
-----------------------------------------------------------------------------
(* The chain *)

\* Events of this ledger are added at the end of the log.
LEMMA LogGoesOn ==
  ASSUME LogInv, ledger' = ledger, NEW s \in Seq(EventType), log' = log \o s,
         \A i \in DOMAIN s : s[i].ledger = ledger
  PROVE  LogInv' /\ LogGrows
<1>1. log \in Seq(EventType) /\ ledger \in Nat \ {0}
  BY DEF LogInv
<1>2. log' \in Seq(EventType) /\ Len(log') = Len(log) + Len(s)
  BY <1>1
<1>3. Len(log) \in Nat /\ Len(s) \in Nat
  BY <1>1
<1>4. DOMAIN log = 1 .. Len(log) /\ DOMAIN s = 1 .. Len(s) /\ DOMAIN log' = 1 .. Len(log')
  BY <1>1, <1>2
<1>5. \A i \in DOMAIN log' : i \in DOMAIN log => log'[i] = log[i]
  BY <1>1, <1>2, <1>3, <1>4
<1>6. \A i \in DOMAIN log' : i \notin DOMAIN log =>
        i - Len(log) \in DOMAIN s /\ log'[i] = s[i - Len(log)]
  BY <1>1, <1>2, <1>3, <1>4
<1>7. \A i \in DOMAIN log' : i \notin DOMAIN log => log'[i].ledger = ledger
  BY <1>6
<1>8. \A i \in DOMAIN log : i \in DOMAIN log' /\ log[i].ledger <= ledger
  BY <1>2, <1>3, <1>4 DEF LogInv
<1>9. \A i \in DOMAIN log' : log'[i].ledger <= ledger
  BY <1>1, <1>5, <1>7, <1>8
<1>10. ASSUME NEW i \in DOMAIN log', NEW j \in DOMAIN log', i <= j
       PROVE  log'[i].ledger <= log'[j].ledger
  <2>1. CASE j \in DOMAIN log
    <3>1. i \in DOMAIN log
      BY <1>2, <1>3, <1>4, <1>10, <2>1
    <3>2. log[i].ledger <= log[j].ledger
      BY <1>10, <2>1, <3>1 DEF LogInv
    <3> QED BY <1>5, <2>1, <3>1, <3>2
  <2>2. CASE j \notin DOMAIN log
    BY <1>7, <1>9, <2>2
  <2> QED BY <2>1, <2>2
<1>11. LogInv'
  BY <1>1, <1>2, <1>9, <1>10 DEF LogInv
<1>12. LogGrows
  BY <1>2, <1>3, <1>5, <1>7, <1>8 DEF LogGrows
<1> QED BY <1>11, <1>12

\* Events of the log hold of a match that has gone on; the new ones hold of it too.
LEMMA EventsStay ==
  ASSUME ChainInv, MatchGoesOn, NEW s \in Seq(EventType), log' = log \o s,
         \A i \in DOMAIN s : EventHolds(s[i], match')
  PROVE  \A i \in DOMAIN log' : EventHolds(log'[i], match')
<1>1. log \in Seq(EventType) /\ \A i \in DOMAIN log : EventHolds(log[i], match)
  BY DEF ChainInv, LogInv, MatchInv
<1>2. /\ match.phase \notin {"active", "cancelled"} <=> match.reported # None
      /\ match.phase = "settled" => match.final # None
  BY DEF ChainInv, MatchInv
<1>3. \A i \in DOMAIN log : EventHolds(log[i], match')
  BY <1>1, <1>2 DEF EventHolds, MatchGoesOn
<1>4. /\ Len(log) \in Nat /\ Len(s) \in Nat /\ DOMAIN log' = 1 .. Len(log) + Len(s)
      /\ DOMAIN log = 1 .. Len(log) /\ DOMAIN s = 1 .. Len(s)
  BY <1>1
<1>5. \A i \in DOMAIN log' : i \in DOMAIN log => log'[i] = log[i]
  BY <1>1, <1>4
<1>6. \A i \in DOMAIN log' : i \notin DOMAIN log =>
        i - Len(log) \in DOMAIN s /\ log'[i] = s[i - Len(log)]
  BY <1>1, <1>4
<1> QED BY <1>3, <1>5, <1>6

\* What a transaction does to the match is in order, and its events hold.
LEMMA ChainSteps ==
  ASSUME ChainInv, ledger' = ledger, MatchGoesOn, match' \in MatchType,
         (match.phase \in {"active", "cancelled"} <=> match.reported = None)',
         (match.phase = "settled" <=> match.final # None)',
         NEW s \in Seq(EventType), log' = log \o s,
         \A i \in DOMAIN s : s[i].ledger = ledger /\ EventHolds(s[i], match')
  PROVE  ChainInv' /\ ChainGoesOn
<1>1. LogInv' /\ LogGrows
  BY LogGoesOn DEF ChainInv
<1>2. \A i \in DOMAIN log' : EventHolds(log'[i], match')
  BY EventsStay
<1>3. MatchInv'
  BY <1>2 DEF MatchInv
<1> QED BY <1>1, <1>3 DEF ChainInv, ChainGoesOn

\* One event of this ledger, as what is added.
LEMMA OneEvent ==
  ASSUME LogInv, NEW name \in EventName, NEW w \in Winner \cup {None}
  PROVE  /\ Event(name, w) \in EventType /\ <<Event(name, w)>> \in Seq(EventType)
         /\ Append(log, Event(name, w)) = log \o <<Event(name, w)>>
         /\ Event(name, w).ledger = ledger
<1>1. Event(name, w) \in EventType /\ Event(name, w).ledger = ledger
  BY DEF Event, EventType, LogInv
<1>2. log \in Seq(EventType)
  BY DEF LogInv
<1>3. \A e \in EventType : <<e>> \in Seq(EventType) /\ Append(log, e) = log \o <<e>>
  BY <1>2
<1> QED BY <1>1, <1>3

\* A step of the match that emits one event that holds of it.
LEMMA ChainStepsByOne ==
  ASSUME ChainInv, ledger' = ledger, MatchGoesOn, match' \in MatchType,
         (match.phase \in {"active", "cancelled"} <=> match.reported = None)',
         (match.phase = "settled" <=> match.final # None)',
         NEW name \in EventName, NEW w \in Winner \cup {None},
         log' = Append(log, Event(name, w)), EventHolds(Event(name, w), match')
  PROVE  ChainInv' /\ ChainGoesOn
<1> DEFINE s == <<Event(name, w)>>
<1>1. \A i \in DOMAIN s : s[i].ledger = ledger /\ EventHolds(s[i], match')
  BY DEF Event
<1> HIDE DEF s
<1>2. s \in Seq(EventType) /\ log' = log \o s
  BY OneEvent DEF s, ChainInv
<1> QED BY <1>1, <1>2, ChainSteps

\* buy_outcome emits what it did.
LEMMA SomeoneBuys ==
  ASSUME ChainInv, ledger' = ledger, NEW o \in Winner, BuyOutcome(o)
  PROVE  ChainInv' /\ ChainGoesOn
<1>1. match \in MatchType
  BY DEF ChainInv, MatchInv
<1>2. match' = [match EXCEPT !.bets = match.bets \cup {o}] /\ match.bets \cup {o} \in SUBSET Winner
  BY <1>1 DEF BuyOutcome, MatchType
<1>3. /\ match' \in MatchType /\ match'.phase = match.phase /\ match'.reported = match.reported
      /\ match'.final = match.final /\ match'.disputed = match.disputed
  BY <1>1, <1>2 DEF MatchType
<1>4. MatchGoesOn
  BY <1>3 DEF MatchGoesOn
<1>5. EventHolds(Event("BetPlaced", o), match')
  BY DEF Event, EventHolds
<1>6. log' = Append(log, Event("BetPlaced", o)) /\ "BetPlaced" \in EventName
  BY DEF BuyOutcome, EventName
<1> QED BY <1>3, <1>4, <1>5, <1>6, ChainStepsByOne DEF ChainInv, MatchInv

\* So does lock_market,
LEMMA MarketLocks ==
  ASSUME ChainInv, ledger' = ledger, LockMarket
  PROVE  ChainInv' /\ ChainGoesOn
<1>1. match \in MatchType
  BY DEF ChainInv, MatchInv
<1>2. match' = [match EXCEPT !.locked = TRUE]
  BY DEF LockMarket
<1>3. /\ match' \in MatchType /\ match'.phase = match.phase /\ match'.reported = match.reported
      /\ match'.final = match.final /\ match'.disputed = match.disputed
  BY <1>1, <1>2 DEF MatchType
<1>4. MatchGoesOn
  BY <1>3 DEF MatchGoesOn
<1>5. EventHolds(Event("MarketLocked", None), match')
  BY DEF Event, EventHolds
<1>6. log' = Append(log, Event("MarketLocked", None)) /\ "MarketLocked" \in EventName
  BY DEF LockMarket, EventName
<1> QED BY <1>3, <1>4, <1>5, <1>6, ChainStepsByOne DEF ChainInv, MatchInv

\* and the post_result of the relayer or of the reconciler,
LEMMA ResultReported ==
  ASSUME ChainInv, ledger' = ledger, NEW w \in Winner, Reports(w)
  PROVE  ChainInv' /\ ChainGoesOn /\ match'.reported = w
<1>1. match \in MatchType /\ ledger \in Nat /\ ledger + ChallengeWindow \in Nat /\ w # None
  BY MirrorAssumption DEF ChainInv, MatchInv, LogInv, Winner, None
<1>2. match' = [match EXCEPT !.phase = "submitted", !.reported = w,
                             !.deadline = ledger + ChallengeWindow]
  BY DEF Reports
<1>3. /\ match' \in MatchType /\ match'.phase = "submitted" /\ match'.reported = w
      /\ match'.final = match.final /\ match'.disputed = match.disputed
  BY <1>1, <1>2 DEF MatchType
<1>4. match.phase = "active" /\ match.reported = None /\ match.final = None
  BY DEF Reports, ChainInv, MatchInv
<1>5. MatchGoesOn
  BY <1>3, <1>4 DEF MatchGoesOn
<1>6. EventHolds(Event("ResultSubmitted", w), match')
  BY <1>3 DEF Event, EventHolds
<1>7. log' = Append(log, Event("ResultSubmitted", w)) /\ "ResultSubmitted" \in EventName
  BY DEF Reports, EventName
<1>8. /\ (match.phase \in {"active", "cancelled"} <=> match.reported = None)'
      /\ (match.phase = "settled" <=> match.final # None)'
  BY <1>1, <1>3, <1>4
<1> QED BY <1>3, <1>5, <1>6, <1>7, <1>8, ChainStepsByOne

\* and open_dispute,
LEMMA DisputeIsOpened ==
  ASSUME ChainInv, ledger' = ledger, OpenDispute
  PROVE  ChainInv' /\ ChainGoesOn
<1>1. match \in MatchType
  BY DEF ChainInv, MatchInv
<1>2. match' = [match EXCEPT !.phase = "disputed", !.disputed = TRUE]
  BY DEF OpenDispute
<1>3. /\ match' \in MatchType /\ match'.phase = "disputed" /\ match'.reported = match.reported
      /\ match'.final = match.final /\ match'.disputed
  BY <1>1, <1>2 DEF MatchType
<1>4. match.phase = "submitted" /\ match.reported # None /\ match.final = None
  BY DEF OpenDispute, ChainInv, MatchInv
<1>5. MatchGoesOn
  BY <1>3, <1>4 DEF MatchGoesOn
<1>6. EventHolds(Event("DisputeOpened", None), match')
  BY <1>3 DEF Event, EventHolds
<1>7. log' = Append(log, Event("DisputeOpened", None)) /\ "DisputeOpened" \in EventName
  BY DEF OpenDispute, EventName
<1>8. /\ (match.phase \in {"active", "cancelled"} <=> match.reported = None)'
      /\ (match.phase = "settled" <=> match.final # None)'
  BY <1>3, <1>4
<1> QED BY <1>3, <1>5, <1>6, <1>7, <1>8, ChainStepsByOne

\* The match is settled, by the arbiter or because nobody disputed the result.
LEMMA MatchSettles ==
  ASSUME ChainInv, NEW w \in Winner, match' = Settled(w), match.phase \in {"submitted", "disputed"}
  PROVE  /\ match' \in MatchType /\ MatchGoesOn
         /\ match'.phase = "settled" /\ match'.final = w
         /\ (match.phase \in {"active", "cancelled"} <=> match.reported = None)'
         /\ (match.phase = "settled" <=> match.final # None)'
<1>1. match \in MatchType /\ match.reported # None /\ match.final = None /\ w # None
  BY DEF ChainInv, MatchInv, Winner, None
<1>2. match' = [match EXCEPT !.phase = "settled", !.final = w]
  BY DEF Settled
<1>3. /\ match' \in MatchType /\ match'.phase = "settled" /\ match'.reported = match.reported
      /\ match'.final = w /\ match'.disputed = match.disputed
  BY <1>1, <1>2 DEF MatchType
<1>4. MatchGoesOn
  BY <1>1, <1>3 DEF MatchGoesOn
<1> QED BY <1>1, <1>3, <1>4

\* and finalize_result,
LEMMA ResultFinalized ==
  ASSUME ChainInv, ledger' = ledger, Finalizes
  PROVE  ChainInv' /\ ChainGoesOn
<1> DEFINE w == match.reported
<1>1. match.phase = "submitted" /\ w \in Winner
  BY DEF Finalizes, ChainInv, MatchInv, MatchType
<1>2. /\ match' = Settled(w) /\ log' = Append(log, Event("MatchSettled", w))
      /\ "MatchSettled" \in EventName
  BY DEF Finalizes, EventName
<1> HIDE DEF w
<1>3. /\ match' \in MatchType /\ MatchGoesOn
      /\ match'.phase = "settled" /\ match'.final = w
      /\ (match.phase \in {"active", "cancelled"} <=> match.reported = None)'
      /\ (match.phase = "settled" <=> match.final # None)'
  BY <1>1, <1>2, MatchSettles
<1>4. EventHolds(Event("MatchSettled", w), match')
  BY <1>3 DEF Event, EventHolds
<1> QED BY <1>1, <1>2, <1>3, <1>4, ChainStepsByOne

\* and resolve_dispute.
LEMMA DisputeIsResolved ==
  ASSUME ChainInv, ledger' = ledger, NEW w \in Winner, ResolveDispute(w)
  PROVE  ChainInv' /\ ChainGoesOn
<1> DEFINE s == <<Event("DisputeResolved", w), Event("MatchSettled", w)>>
<1>1. match.phase = "disputed" /\ match' = Settled(w) /\ log' = log \o s
  BY DEF ResolveDispute
<1>2. /\ match' \in MatchType /\ MatchGoesOn
      /\ match'.phase = "settled" /\ match'.final = w
      /\ (match.phase \in {"active", "cancelled"} <=> match.reported = None)'
      /\ (match.phase = "settled" <=> match.final # None)'
  BY <1>1, MatchSettles
<1>3. /\ EventHolds(Event("DisputeResolved", w), match')
      /\ EventHolds(Event("MatchSettled", w), match')
      /\ Event("DisputeResolved", w).ledger = ledger /\ Event("MatchSettled", w).ledger = ledger
  BY <1>2 DEF Event, EventHolds
<1>4. Event("DisputeResolved", w) \in EventType /\ Event("MatchSettled", w) \in EventType
  BY OneEvent DEF ChainInv, EventName
<1>5. s \in Seq(EventType)
  BY <1>4
<1>6. \A i \in DOMAIN s : s[i].ledger = ledger /\ EventHolds(s[i], match')
  BY <1>3
<1> HIDE DEF s
<1> QED BY <1>1, <1>2, <1>5, <1>6, ChainSteps

\* A step that leaves the chain alone.
LEMMA ChainRests ==
  ASSUME ChainInv, UNCHANGED chainVars
  PROVE  ChainInv' /\ ChainGoesOn
<1>1. ChainInv'
  BY DEF ChainInv, LogInv, MatchInv, chainVars
<1>2. LogGrows
  BY DEF LogGrows, chainVars, ChainInv, LogInv
<1>3. MatchGoesOn
  BY DEF MatchGoesOn, chainVars
<1> QED BY <1>1, <1>2, <1>3 DEF ChainGoesOn

\* The ledger closes, and the next events are of the one after it.
LEMMA LedgerEnds ==
  ASSUME ChainInv, LedgerCloses
  PROVE  ChainInv' /\ ChainGoesOn
<1>1. ledger' = ledger + 1 /\ UNCHANGED <<log, match>>
  BY DEF LedgerCloses
<1>2. MatchInv'
  BY <1>1 DEF MatchInv, ChainInv
<1>3. ledger \in Nat \ {0} /\ log \in Seq(EventType) /\ Len(log) \in Nat
  BY DEF ChainInv, LogInv
<1>4. \A i \in DOMAIN log : log[i].ledger \in Nat
  <2>1. \A i \in DOMAIN log : log[i] \in EventType
    BY <1>3
  <2> QED BY <2>1 DEF EventType
<1>5. LogInv'
  BY <1>1, <1>3, <1>4 DEF ChainInv, LogInv
<1>6. LogGrows
  BY <1>1, <1>3 DEF LogGrows
<1>7. MatchGoesOn
  BY <1>1 DEF MatchGoesOn
<1> QED BY <1>2, <1>5, <1>6, <1>7 DEF ChainInv, ChainGoesOn

SameCourse ==
  /\ match'.phase = match.phase /\ match'.reported = match.reported
  /\ match'.final = match.final /\ match'.disputed = match.disputed

\* pay_trader pays: nothing else of the match changes.
LEMMA TradersArePaid ==
  ASSUME ChainInv, traders \subseteq Winner, NEW w, PaysWinners(w), UNCHANGED <<log, ledger>>
  PROVE  ChainInv' /\ ChainGoesOn /\ SameCourse
<1>1. match \in MatchType /\ log \in Seq(EventType) /\ Len(log) \in Nat
  BY DEF ChainInv, MatchInv, LogInv
<1>2. match' = match \/ match' = [match EXCEPT !.paid = match.paid \cup (traders \cap {w})]
  BY <1>1 DEF PaysWinners, MatchType
<1>3. match.paid \cup (traders \cap {w}) \in SUBSET Winner
  BY <1>1 DEF MatchType
<1>4. match' \in MatchType /\ SameCourse
  BY <1>1, <1>2, <1>3 DEF MatchType, SameCourse
<1>5. MatchGoesOn
  BY <1>4 DEF MatchGoesOn, SameCourse
<1>6. MatchInv'
  BY <1>4 DEF ChainInv, MatchInv, EventHolds, SameCourse
<1>7. LogInv'
  BY DEF ChainInv, LogInv
<1>8. LogGrows
  BY <1>1 DEF LogGrows
<1> QED BY <1>4, <1>5, <1>6, <1>7, <1>8 DEF ChainInv, ChainGoesOn
-----------------------------------------------------------------------------
(* What a step of the chain leaves true of the window, the rows and the callers *)

\* A longer log leaves the window where it was.
LEMMA WindowStays ==
  ASSUME LogInv, WindowInv, ChainGoesOn, UNCHANGED listenerVars
  PROVE  WindowInv'
<1>1. /\ startLedger \in Nat /\ startLedger <= ledger /\ ledger \in Nat
      /\ poll.on => Window <= ledger /\ Window \in Nat
  BY DEF LogInv, WindowInv, Window
<1>2. /\ log \in Seq(EventType) /\ Len(log) \in Nat /\ DOMAIN log = 1 .. Len(log)
      /\ \A i \in DOMAIN log : log'[i] = log[i]
      /\ \A i \in DOMAIN log' : i \notin DOMAIN log => log'[i].ledger = ledger
      /\ ledger' \in {ledger, ledger + 1}
  BY DEF LogInv, ChainGoesOn, LogGrows
<1>3. ASSUME NEW i \in DOMAIN log', NEW n \in Nat, n <= ledger, log'[i].ledger < n
      PROVE  i \in DOMAIN log /\ log'[i] = log[i]
  BY <1>1, <1>2, <1>3
<1>4. UNCHANGED <<startLedger, seen, page, poll, delivered, skipped>>
  BY DEF listenerVars
<1>5. \A i \in DOMAIN log' : log'[i].ledger < startLedger => i \in delivered \cup skipped
  BY <1>1, <1>3 DEF WindowInv, NoLostEvent, Before
<1>6. poll.on => \A i \in DOMAIN log' :
        startLedger <= log'[i].ledger /\ log'[i].ledger < Window => i \in delivered \cup page
  BY <1>1, <1>3 DEF WindowInv
<1>7. NoLostEvent'
  BY <1>4, <1>5 DEF NoLostEvent, Before
<1>8. page \subseteq DOMAIN log'
  <2>1. page \subseteq DOMAIN log
    BY DEF WindowInv
  <2>2. Len(log) <= Len(log')
    BY DEF ChainGoesOn, LogGrows
  <2> QED BY <1>2, <2>1, <2>2
<1>9. Window' = Window
  BY <1>4 DEF Window
<1>10. startLedger <= ledger' /\ (poll.on => poll.top <= ledger' /\ poll.latest <= ledger')
  BY <1>1, <1>2 DEF WindowInv
<1> QED BY <1>4, <1>6, <1>7, <1>8, <1>9, <1>10 DEF WindowInv

\* What the rows say of the match stays true while the match goes on.
LEMMA RowsStay ==
  ASSUME ChainInv, ChainInv', RowsInv, MatchGoesOn, UNCHANGED rowVars
  PROVE  RowsInv'
<1>1. UNCHANGED <<row, dispute, settlement, traders>>
  BY DEF rowVars
<1>2. /\ match.phase \notin {"active", "cancelled"} <=> match.reported # None
      /\ match.phase = "settled" <=> match.final # None
  BY DEF ChainInv, MatchInv
<1>3. settlement.winner # None => settlement.winner \in {match'.reported, match'.final}
  BY <1>2 DEF RowsInv, RowsFollowChain, MatchGoesOn
<1>4. settlement.player_prize => match'.phase = "settled"
  BY DEF RowsInv, RowsFollowChain, MatchGoesOn
<1>5. dispute.status # "absent" =>
        match'.phase \in {"submitted", "disputed", "settled"} /\ dispute.winner = match'.reported
  <2>1. match'.phase \in {"active", "cancelled", "submitted", "disputed", "settled"}
    BY DEF ChainInv, MatchInv, MatchType
  <2> QED BY <1>2, <2>1 DEF RowsInv, RowsFollowChain, MatchGoesOn
<1>6. dispute.status = "disputed" => match'.disputed
  BY DEF RowsInv, RowsFollowChain, MatchGoesOn
<1>7. dispute.status = "finalized" =>
        match'.phase = "settled" /\ dispute.final_winner = match'.final
  BY DEF RowsInv, RowsFollowChain, MatchGoesOn
<1>8. RowsFollowChain'
  BY <1>1, <1>3, <1>4, <1>5, <1>6, <1>7 DEF RowsFollowChain
<1> QED BY <1>1, <1>8 DEF RowsInv

\* A result that is on its way stays what it was, and one that has been reported stays so.
LEMMA ResultKept ==
  ASSUME ChainInv, MatchGoesOn, NEW caller, CallerHolds(caller)
  PROVE  /\ caller.pc # "idle" => caller.winner \in Winner
         /\ caller.pc = "record" => caller.winner = match'.reported
<1>1. caller.pc = "record" => match.reported # None
  BY DEF CallerHolds, Winner, None
<1> QED BY <1>1 DEF CallerHolds, MatchGoesOn

\* So does what the callers have been answered.
LEMMA CallersStay ==
  ASSUME ChainInv, CallersInv, MatchGoesOn, UNCHANGED callerVars
  PROVE  CallersInv'
<1>1. UNCHANGED <<poster, reconciler>>
  BY DEF callerVars
<1>2. CallerHolds(poster)' /\ CallerHolds(reconciler)'
  BY <1>1, ResultKept DEF CallersInv, CallerHolds
<1> QED BY <1>1, <1>2 DEF CallersInv

\* A step that is of the chain alone.
LEMMA ChainStepKeeps ==
  ASSUME MirrorInv, ChainInv', ChainGoesOn, UNCHANGED <<listenerVars, rowVars, callerVars>>
  PROVE  MirrorInv'
<1>1. WindowInv'
  BY WindowStays DEF MirrorInv, ChainInv
<1>2. RowsInv'
  BY RowsStay DEF MirrorInv, ChainGoesOn
<1>3. CallersInv'
  BY CallersStay DEF MirrorInv, ChainGoesOn
<1> QED BY <1>1, <1>2, <1>3 DEF MirrorInv
-----------------------------------------------------------------------------
(* The window, in the steps of the listener *)

\* The window opens after the cursor.
LEMMA PollStartsRight ==
  ASSUME LogInv, WindowInv, PollStarts
  PROVE  WindowInv'
<1> DEFINE asked  == Asked(From)
           answer == Answer(From)
           top    == IF answer = {} THEN 0 ELSE log[Max(answer)].ledger
           full   == Cardinality(answer) = PAGE_LIMIT
<1>1. /\ page' = answer \ seen /\ startLedger' = From
      /\ poll' = [on |-> TRUE, full |-> full, top |-> top, latest |-> ledger]
      /\ skipped' = IF startLedger = 0 THEN skipped \cup (Before(From) \ delivered) ELSE skipped
      /\ UNCHANGED <<log, ledger, seen, delivered>>
  BY DEF PollStarts, chainVars, Asked, Answer
<1>2. /\ log \in Seq(EventType) /\ ledger \in Nat \ {0} /\ startLedger \in Nat
      /\ EVENT_START_LOOKBACK_LEDGERS \in Nat /\ PAGE_LIMIT \in Nat \ {0}
  BY MirrorAssumption DEF LogInv, WindowInv
<1>3. From \in Nat /\ From <= ledger
  BY <1>2 DEF From, Higher, WindowInv
<1>4. /\ answer \subseteq DOMAIN log
      /\ ~full => answer = asked
      /\ answer # {} => Max(answer) \in answer /\ \A i \in asked : i <= Max(answer) => i \in answer
  BY <1>3, AnswerStretch
<1>5. \A i \in DOMAIN log : log[i].ledger \in Nat /\ log[i].ledger <= ledger
  <2>1. \A i \in DOMAIN log : log[i] \in EventType
    BY <1>2
  <2> QED BY <2>1 DEF EventType, LogInv
<1>6. top \in Nat /\ top <= ledger
  BY <1>2, <1>4, <1>5
<1>7. \A i \in DOMAIN log : From <= log[i].ledger => i \in asked
  BY <1>3, <1>5 DEF Before, Asked
<1>8. ASSUME NEW i \in DOMAIN log, From <= log[i].ledger,
             log[i].ledger < (IF full THEN top ELSE ledger)
      PROVE  i \in answer
  <2>1. i \in asked
    BY <1>7, <1>8
  <2>2. CASE ~full
    BY <1>4, <2>1, <2>2
  <2>3. CASE full
    <3>1. answer # {} /\ top = log[Max(answer)].ledger /\ Max(answer) \in DOMAIN log
      BY <1>4, <1>5, <1>8, <2>3
    <3>2. DOMAIN log \subseteq Nat
      BY <1>2
    <3>3. log[i].ledger < log[Max(answer)].ledger
      BY <1>8, <2>3, <3>1
    <3>4. ~(Max(answer) <= i)
      <4>1. Max(answer) <= i => log[Max(answer)].ledger <= log[i].ledger
        BY <3>1 DEF LogInv
      <4> QED BY <1>5, <3>1, <3>3, <4>1
    <3>5. i <= Max(answer)
      BY <3>1, <3>2, <3>4
    <3> QED BY <1>4, <2>1, <3>1, <3>5
  <2> QED BY <2>2, <2>3
<1> HIDE DEF answer, asked, top, full
<1>9. full \in BOOLEAN
  BY DEF full
<1>10. poll' \in [on : BOOLEAN, full : BOOLEAN, top : Nat, latest : Nat]
  BY <1>1, <1>2, <1>6, <1>9
<1>11. page' \subseteq DOMAIN log' /\ seen' \subseteq delivered'
  BY <1>1, <1>4 DEF WindowInv
<1>12. Window' = IF full THEN top ELSE ledger
  BY <1>1 DEF Window
<1>13. \A i \in DOMAIN log' :
         startLedger' <= log'[i].ledger /\ log'[i].ledger < Window' => i \in delivered' \cup page'
  BY <1>1, <1>8, <1>12 DEF WindowInv
<1>14. NoLostEvent'
  <2>1. CASE startLedger = 0
    BY <1>1, <2>1 DEF NoLostEvent, Before
  <2>2. CASE startLedger # 0
    BY <1>1, <2>2 DEF NoLostEvent, Before, From, WindowInv
  <2> QED BY <2>1, <2>2
<1>15. poll'.top <= ledger' /\ poll'.latest <= ledger'
  BY <1>1, <1>2, <1>6
<1> QED BY <1>1, <1>3, <1>10, <1>11, <1>13, <1>14, <1>15 DEF WindowInv

\* The cursor goes to the end of the window.
LEMMA PollEndsRight ==
  ASSUME LogInv, WindowInv, PollEnds
  PROVE  WindowInv'
<1>1. /\ poll.on /\ page = {} /\ UNCHANGED <<log, ledger, page, delivered, skipped>>
      /\ startLedger' = IF poll.full THEN poll.top ELSE Higher(startLedger, poll.latest)
      /\ seen' \in {{}, seen} /\ poll' = NoPoll
  BY DEF PollEnds, chainVars
<1>2. /\ startLedger \in Nat /\ startLedger <= ledger /\ ledger \in Nat
      /\ poll.top \in Nat /\ poll.latest \in Nat /\ poll.top <= ledger /\ poll.latest <= ledger
  BY <1>1 DEF WindowInv, LogInv
<1>3. startLedger' \in Nat /\ startLedger' <= ledger /\ startLedger' \in {startLedger, Window}
  BY <1>1, <1>2 DEF Higher, Window
<1>4. \A i \in DOMAIN log : log[i].ledger \in Nat
  <2>1. \A i \in DOMAIN log : log[i] \in EventType
    BY DEF LogInv
  <2> QED BY <2>1 DEF EventType
<1>5. ASSUME NEW i \in DOMAIN log, log[i].ledger < startLedger'
      PROVE  i \in delivered \cup skipped
  <2>1. CASE log[i].ledger < startLedger
    BY <2>1 DEF WindowInv, NoLostEvent, Before
  <2>2. CASE ~(log[i].ledger < startLedger)
    BY <1>1, <1>2, <1>3, <1>4, <1>5, <2>2 DEF WindowInv
  <2> QED BY <2>1, <2>2
<1>6. NoLostEvent'
  BY <1>1, <1>5 DEF NoLostEvent, Before
<1> QED BY <1>1, <1>3, <1>6 DEF WindowInv, NoPoll

\* A failed poll leaves the cursor, or skips what it has not delivered.
LEMMA PollFailsRight ==
  ASSUME LogInv, WindowInv, PollFails
  PROVE  WindowInv'
<1>1. /\ ~poll.on /\ UNCHANGED <<log, ledger, page, seen, poll, delivered>>
      /\ startLedger' \in {startLedger, ledger}
      /\ skipped' = IF startLedger' = startLedger THEN skipped
                    ELSE skipped \cup (Before(ledger) \ delivered)
  BY DEF PollFails, chainVars
<1>2. startLedger' \in Nat /\ startLedger' <= ledger'
  BY <1>1 DEF WindowInv, LogInv
<1>3. NoLostEvent'
  BY <1>1 DEF WindowInv, NoLostEvent, Before
<1> QED BY <1>1, <1>2, <1>3 DEF WindowInv

\* The event is taken off the page.
LEMMA HandlerEndsRight ==
  ASSUME LogInv, WindowInv, page # {}, HandlerEnds,
         UNCHANGED <<log, ledger, startLedger, poll, skipped>>
  PROVE  WindowInv'
<1>1. page \in SUBSET Nat /\ page \subseteq DOMAIN log
  BY DEF LogInv, WindowInv
<1>2. Min(page) \in page
  BY <1>1, MinInPage
<1>3. /\ seen' = seen \cup {Min(page)} /\ delivered' = delivered \cup {Min(page)}
      /\ page' = page \ {Min(page)}
  BY DEF HandlerEnds
<1>4. delivered \cup page = delivered' \cup page' /\ delivered \subseteq delivered'
  BY <1>2, <1>3
<1>5. NoLostEvent'
  BY <1>4 DEF WindowInv, NoLostEvent, Before
<1>6. Window' = Window
  BY DEF Window
<1>7. seen' \subseteq delivered' /\ page' \subseteq DOMAIN log'
  BY <1>1, <1>3 DEF WindowInv
<1> QED BY <1>4, <1>5, <1>6, <1>7 DEF WindowInv

\* The cursor is lost, and the listener starts anew.
LEMMA RestartRight ==
  ASSUME LogInv, WindowInv, Restart
  PROVE  WindowInv'
<1>1. /\ startLedger' = 0 /\ seen' = {} /\ page' = {} /\ poll' = NoPoll
      /\ UNCHANGED <<log, ledger, delivered, skipped>>
  BY DEF Restart, chainVars
<1>2. \A i \in DOMAIN log : log[i].ledger \in Nat
  <2>1. \A i \in DOMAIN log : log[i] \in EventType
    BY DEF LogInv
  <2> QED BY <2>1 DEF EventType
<1>3. NoLostEvent'
  BY <1>1, <1>2 DEF NoLostEvent, Before
<1>4. startLedger' <= ledger'
  BY <1>1 DEF LogInv
<1> QED BY <1>1, <1>3, <1>4 DEF WindowInv, NoPoll
-----------------------------------------------------------------------------
(* The rows, in the steps of the handlers and of the callers *)

\* The event in hand is one of the log.
LEMMA EventInHand ==
  ASSUME MirrorInv, page # {}
  PROVE  log[Min(page)] \in EventType /\ EventHolds(log[Min(page)], match)
<1>1. page \in SUBSET Nat /\ page \subseteq DOMAIN log /\ log \in Seq(EventType)
  BY DEF MirrorInv, ChainInv, LogInv, WindowInv
<1>2. Min(page) \in DOMAIN log
  BY <1>1, MinInPage
<1> QED BY <1>1, <1>2 DEF MirrorInv, ChainInv, MatchInv

\* Markings of the dispute row.
LEMMA MarkedRight ==
  ASSUME MirrorInv, UNCHANGED <<match, row, settlement, traders>>,
         NEW status \in {"disputed", "finalized"}, NEW w \in Winner \cup {None},
         dispute' = Marked(status, w),
         status = "disputed" => match.disputed,
         status = "finalized" => match.phase = "settled" /\ w = match.final
  PROVE  RowsInv'
<1>1. dispute \in [status : {"absent", "pending", "disputed", "finalized"},
                   winner : Winner \cup {None}, submitted_at : Nat,
                   final_winner : Winner \cup {None}]
  BY DEF MirrorInv, RowsInv
<1>2. CASE dispute.status = "absent"
  BY <1>2 DEF Marked, MirrorInv, RowsInv, RowsFollowChain
<1>3. CASE dispute.status # "absent"
  <2>1. dispute' = [dispute EXCEPT !.status = status, !.final_winner = w]
    BY <1>3 DEF Marked
  <2>2. /\ dispute' \in [status : {"absent", "pending", "disputed", "finalized"},
                         winner : Winner \cup {None}, submitted_at : Nat,
                         final_winner : Winner \cup {None}]
        /\ dispute'.status = status /\ dispute'.final_winner = w
        /\ dispute'.winner = dispute.winner
    BY <1>1, <2>1
  <2>3. RowsFollowChain'
    BY <1>3, <2>2 DEF MirrorInv, RowsInv, RowsFollowChain
  <2> QED BY <2>2, <2>3 DEF MirrorInv, RowsInv
<1> QED BY <1>2, <1>3

\* A settlement is recorded for the winner that was reported, or decided.
LEMMA RecordedRight ==
  ASSUME MirrorInv, UNCHANGED <<dispute, row, traders>>, SameCourse,
         NEW w \in Winner, NEW prize \in BOOLEAN,
         RecordSettlement(w, prize, TRUE),
         w \in {match.reported, match.final},
         prize => match.phase = "settled"
  PROVE  RowsInv'
<1>1. settlement \in [winner : Winner \cup {None}, player_prize : BOOLEAN, tx_hash : BOOLEAN]
  BY DEF MirrorInv, RowsInv
<1>2. settlement' = [winner |-> w, player_prize |-> settlement.player_prize \/ prize,
                     tx_hash |-> settlement.tx_hash \/ TRUE]
  BY DEF RecordSettlement
<1>3. (settlement.player_prize \/ prize) \in BOOLEAN /\ (settlement.tx_hash \/ TRUE) \in BOOLEAN
  OBVIOUS
<1>4. /\ settlement' \in [winner : Winner \cup {None}, player_prize : BOOLEAN, tx_hash : BOOLEAN]
      /\ settlement'.winner = w
  BY <1>2, <1>3
<1>5. settlement'.player_prize => settlement.player_prize \/ prize
  BY <1>2
<1>6. settlement'.player_prize => match.phase = "settled"
  BY <1>5 DEF MirrorInv, RowsInv, RowsFollowChain
<1>7. RowsFollowChain'
  BY <1>4, <1>6 DEF MirrorInv, RowsInv, RowsFollowChain, SameCourse
<1> QED BY <1>4, <1>7 DEF MirrorInv, RowsInv

\* The handlers of the events about the game and the lock of its market,
LEMMA GameHandled ==
  ASSUME MirrorInv, NEW e \in EventType, HandlesGame(e)
  PROVE  RowsInv'
<1>1. UNCHANGED <<match, dispute, settlement, traders>>
  BY DEF HandlesGame
<1>2. row \in [status : {"absent", "open", "active", "locked", "cancelled", "completed"},
               winner : Winner \cup {None}]
  BY DEF MirrorInv, RowsInv
<1>3. row' = row \/ \E status \in {"open", "active", "cancelled", "locked"} :
                      row' = [row EXCEPT !.status = status]
  BY <1>2 DEF HandlesGame, Created, Activated, MatchActive, Updated
<1>4. row' \in [status : {"absent", "open", "active", "locked", "cancelled", "completed"},
                winner : Winner \cup {None}]
  BY <1>2, <1>3
<1>5. row'.status = "completed" => row' = row
  BY <1>2, <1>3
<1> QED BY <1>1, <1>4, <1>5 DEF MirrorInv, RowsInv, RowsFollowChain

\* about a bet,
LEMMA BetHandled ==
  ASSUME MirrorInv, NEW e, EventHolds(e, match), HandlesBet(e)
  PROVE  RowsInv'
BY DEF MirrorInv, RowsInv, RowsFollowChain, EventHolds, HandlesBet

\* about a dispute,
LEMMA DisputeHandled ==
  ASSUME MirrorInv, NEW e \in EventType, EventHolds(e, match), HandlesDispute(e)
  PROVE  RowsInv'
<1>1. UNCHANGED <<match, row, settlement, traders>>
  BY DEF HandlesDispute
<1>2. match \in MatchType /\ e.ledger \in Nat /\ e.winner \in Winner \cup {None}
  BY DEF EventType, MirrorInv, ChainInv, MatchInv
<1>3. CASE e.name = "ResultSubmitted"
  <2>1. dispute' = [status |-> "pending", winner |-> e.winner, submitted_at |-> e.ledger,
                    final_winner |-> None]
    BY <1>3 DEF HandlesDispute, UpsertSubmitted
  <2>2. match.phase \in {"submitted", "disputed", "settled"} /\ e.winner = match.reported
    BY <1>2, <1>3 DEF EventHolds, MatchType
  <2>3. RowsFollowChain'
    BY <1>1, <2>1, <2>2 DEF MirrorInv, RowsInv, RowsFollowChain
  <2> QED BY <1>1, <1>2, <2>1, <2>3 DEF MirrorInv, RowsInv
<1>4. CASE e.name = "DisputeOpened"
  <2>1. dispute' = Marked("disputed", dispute.final_winner) /\ match.disputed
    BY <1>4 DEF HandlesDispute, EventHolds
  <2>2. dispute.final_winner \in Winner \cup {None}
    BY DEF MirrorInv, RowsInv
  <2> QED BY <1>1, <2>1, <2>2, MarkedRight
<1>5. CASE e.name = "DisputeResolved"
  <2>1. dispute' = dispute
    BY <1>5 DEF HandlesDispute
  <2> QED BY <1>1, <2>1 DEF MirrorInv, RowsInv, RowsFollowChain
<1> QED BY <1>3, <1>4, <1>5 DEF HandlesDispute

\* A handler's step leaves the window right, whether it ends with it or goes on.
LEMMA WindowHandled ==
  ASSUME LogInv, WindowInv, page # {}, HandlerEnds \/ HandlerGoesOn,
         UNCHANGED <<log, ledger, startLedger, poll, skipped>>
  PROVE  WindowInv'
<1>1. CASE HandlerEnds
  BY <1>1, HandlerEndsRight
<1>2. CASE HandlerGoesOn
  <2>1. UNCHANGED <<seen, delivered, page>>
    BY <1>2 DEF HandlerGoesOn
  <2> QED BY <2>1 DEF WindowInv, NoLostEvent, Before, Window
<1> QED BY <1>1, <1>2

\* and of MatchSettled, which pays the winners.
LEMMA SettledHandled ==
  ASSUME MirrorInv, NEW e \in EventType, EventHolds(e, match), HandlesSettled(e),
         UNCHANGED <<log, ledger>>
  PROVE  RowsInv' /\ ChainInv' /\ ChainGoesOn /\ (HandlerEnds \/ HandlerGoesOn)
<1>1. e.name = "MatchSettled" /\ UNCHANGED <<row, traders>>
  BY DEF HandlesSettled
<1>2. /\ match.phase = "settled" /\ e.winner = match.final /\ match.final # None
      /\ e.winner \in Winner
  BY <1>1 DEF EventHolds, EventType, MirrorInv, ChainInv, MatchInv
<1>3. ASSUME match' = match
      PROVE  ChainInv' /\ ChainGoesOn /\ SameCourse
  BY <1>3, ChainRests DEF MirrorInv, chainVars, SameCourse
<1>4. CASE step = 0
  <2>1. RecordSettlement(e.winner, TRUE, TRUE) /\ HandlerGoesOn /\ UNCHANGED <<match, dispute>>
    BY <1>4 DEF HandlesSettled, RecordSettlement, HandlerGoesOn
  <2>2. RowsInv'
    BY <1>1, <1>2, <1>3, <2>1, RecordedRight
  <2> QED BY <1>3, <2>1, <2>2
<1>5. CASE step = 1
  <2>1. dispute' = Marked("finalized", e.winner) /\ HandlerGoesOn /\ UNCHANGED <<match, settlement>>
    BY <1>5 DEF HandlesSettled
  <2>2. RowsInv'
    BY <1>1, <1>2, <2>1, MarkedRight
  <2> QED BY <1>3, <2>1, <2>2
<1>6. CASE step \notin {0, 1}
  <2>1. /\ PaysWinners(e.winner) \/ PaymentFails(e.winner)
        /\ HandlerEnds /\ UNCHANGED <<settlement, dispute>>
    BY <1>6 DEF HandlesSettled
  <2>2. ChainInv' /\ ChainGoesOn
    <3>1. traders \subseteq Winner
      BY DEF MirrorInv, RowsInv
    <3> QED BY <1>3, <2>1, <3>1, TradersArePaid DEF MirrorInv, PaymentFails
  <2>3. RowsInv'
    BY <1>1, <2>1, <2>2, RowsStay DEF MirrorInv, ChainGoesOn, rowVars
  <2> QED BY <2>1, <2>2, <2>3
<1> QED BY <1>4, <1>5, <1>6

\* Whichever event it is, its handler keeps all.
LEMMA EventHandled ==
  ASSUME MirrorInv, HandleEvent
  PROVE  MirrorInv'
<1> DEFINE e == log[Min(page)]
<1>1. page # {} /\ UNCHANGED <<log, ledger, startLedger, poll, skipped, callerVars>>
  BY DEF HandleEvent
<1>2. e \in EventType /\ EventHolds(e, match)
  BY <1>1, EventInHand
<1>3. HandlesGame(e) \/ HandlesBet(e) \/ HandlesDispute(e) \/ HandlesSettled(e)
  BY DEF HandleEvent
<1> HIDE DEF e
<1>4. RowsInv' /\ ChainInv' /\ ChainGoesOn /\ (HandlerEnds \/ HandlerGoesOn)
  <2>1. CASE HandlesSettled(e)
    BY <1>1, <1>2, <2>1, SettledHandled
  <2>2. CASE HandlesGame(e) \/ HandlesBet(e) \/ HandlesDispute(e)
    <3>1. match' = match /\ HandlerEnds
      BY <2>2 DEF HandlesGame, HandlesBet, HandlesDispute
    <3>2. ChainInv' /\ ChainGoesOn
      BY <1>1, <3>1, ChainRests DEF MirrorInv, chainVars
    <3>3. RowsInv'
      BY <1>2, <2>2, GameHandled, BetHandled, DisputeHandled
    <3> QED BY <3>1, <3>2, <3>3
  <2> QED BY <1>3, <2>1, <2>2
<1>5. WindowInv'
  BY <1>1, <1>4, WindowHandled DEF MirrorInv, ChainInv
<1>6. CallersInv'
  BY <1>1, <1>4, CallersStay DEF MirrorInv, ChainGoesOn
<1> QED BY <1>4, <1>5, <1>6 DEF MirrorInv

\* A call of postResult: what it does to the chain, and when the caller may record.
LEMMA PostsRight ==
  ASSUME MirrorInv, ledger' = ledger, NEW caller \in {poster, reconciler},
         caller.pc = "post", NEW then \in BOOLEAN, NEW otherwise \in BOOLEAN,
         Posts(caller, then, otherwise)
  PROVE  /\ ChainInv' /\ ChainGoesOn
         /\ (then /\ match'.reported = caller.winner) \/ otherwise
<1>1. caller.winner \in Winner
  BY DEF MirrorInv, CallersInv, CallerHolds
<1>2. CASE Reports(caller.winner)
  BY <1>1, <1>2, ResultReported DEF Posts, MirrorInv
<1>3. CASE UNCHANGED <<log, match>> /\ otherwise
  BY <1>3, ChainRests DEF MirrorInv, chainVars
<1> QED BY <1>2, <1>3 DEF Posts

CallerType == [pc : {"idle", "post", "record", "complete"}, winner : Winner \cup {None}]

\* Only the callers, or the chain and the callers, have changed.
LEMMA CallerStepKeeps ==
  ASSUME MirrorInv, ChainInv', ChainGoesOn, UNCHANGED <<listenerVars, rowVars>>,
         poster' \in CallerType, reconciler' \in CallerType,
         CallerHolds(poster)', CallerHolds(reconciler)'
  PROVE  MirrorInv'
<1>1. WindowInv'
  BY WindowStays DEF MirrorInv, ChainInv
<1>2. RowsInv'
  BY RowsStay DEF MirrorInv, ChainGoesOn
<1>3. CallersInv'
  BY DEF CallersInv, CallerType
<1> QED BY <1>1, <1>2, <1>3 DEF MirrorInv

\* The result reaches the chain.
LEMMA ResultIsPosted ==
  ASSUME MirrorInv, ResultPosted
  PROVE  MirrorInv'
<1>1. /\ poster.pc = "post" /\ poster \in CallerType /\ reconciler \in CallerType
      /\ poster.winner \in Winner
      /\ UNCHANGED <<ledger, listenerVars, rowVars, reconciler>>
  BY DEF ResultPosted, MirrorInv, CallersInv, CallerType, CallerHolds
<1>2. /\ ChainInv' /\ ChainGoesOn
      /\ \/ poster' = [poster EXCEPT !.pc = "record"] /\ match'.reported = poster.winner
         \/ poster' = [poster EXCEPT !.pc = "complete"]
  BY <1>1, PostsRight DEF ResultPosted
<1>3. poster' \in CallerType /\ CallerHolds(poster)'
  BY <1>1, <1>2 DEF CallerType, CallerHolds
<1>4. CallerHolds(reconciler)'
  BY <1>1, <1>2, ResultKept DEF MirrorInv, CallersInv, CallerHolds, ChainGoesOn
<1> QED BY <1>1, <1>2, <1>3, <1>4, CallerStepKeeps

\* Its row is written.
LEMMA ResultIsRecorded ==
  ASSUME MirrorInv, ResultRecorded
  PROVE  MirrorInv'
<1>1. /\ poster.pc = "record" /\ poster \in CallerType /\ poster.winner \in Winner
      /\ poster.winner = match.reported /\ poster' = [poster EXCEPT !.pc = "complete"]
      /\ UNCHANGED <<chainVars, listenerVars, row, dispute, traders, reconciler>>
      /\ RecordSettlement(poster.winner, FALSE, TRUE) \/ UNCHANGED settlement
  BY DEF ResultRecorded, MirrorInv, CallersInv, CallerType, CallerHolds
<1>2. ChainInv' /\ ChainGoesOn /\ SameCourse
  BY <1>1, ChainRests DEF MirrorInv, chainVars, SameCourse
<1>3. WindowInv'
  BY <1>1, <1>2, WindowStays DEF MirrorInv, ChainInv
<1>4. RowsInv'
  <2>1. CASE RecordSettlement(poster.winner, FALSE, TRUE)
    BY <1>1, <1>2, <2>1, RecordedRight
  <2>2. CASE UNCHANGED settlement
    BY <1>1, <1>2, <2>2, RowsStay DEF MirrorInv, ChainGoesOn, rowVars
  <2> QED BY <1>1, <2>1, <2>2
<1>5. poster' \in CallerType /\ CallerHolds(poster)'
  BY <1>1 DEF CallerType, CallerHolds
<1>6. reconciler' \in CallerType /\ CallerHolds(reconciler)'
  BY <1>1, <1>2 DEF MirrorInv, CallersInv, CallerType, CallerHolds, SameCourse
<1>7. CallersInv'
  BY <1>5, <1>6 DEF CallersInv, CallerType
<1> QED BY <1>2, <1>3, <1>4, <1>7 DEF MirrorInv

\* The row of the game is completed.
LEMMA GameIsCompleted ==
  ASSUME MirrorInv, GameCompleted
  PROVE  MirrorInv'
<1>1. /\ poster.pc = "complete" /\ poster' = Idle /\ poster.winner \in Winner
      /\ row' = [status |-> "completed", winner |-> poster.winner]
      /\ UNCHANGED <<chainVars, listenerVars, dispute, settlement, traders, reconciler>>
  BY DEF GameCompleted, MirrorInv, CallersInv, CallerHolds
<1>2. ChainInv' /\ ChainGoesOn /\ match' = match
  BY <1>1, ChainRests DEF MirrorInv, chainVars
<1>3. WindowInv'
  BY <1>1, <1>2, WindowStays DEF MirrorInv, ChainInv
<1>4. RowsInv'
  BY <1>1, <1>2 DEF MirrorInv, RowsInv, RowsFollowChain
<1>5. poster' \in CallerType /\ CallerHolds(poster)'
  BY <1>1 DEF CallerType, CallerHolds, Idle
<1>6. reconciler' \in CallerType /\ CallerHolds(reconciler)'
  BY <1>1, <1>2 DEF MirrorInv, CallersInv, CallerType, CallerHolds
<1>7. CallersInv'
  BY <1>5, <1>6 DEF CallersInv, CallerType
<1> QED BY <1>2, <1>3, <1>4, <1>7 DEF MirrorInv

\* The game on the board is over.
LEMMA GameIsOver ==
  ASSUME MirrorInv, NEW w \in Winner, GameEnds(w)
  PROVE  MirrorInv'
<1>1. /\ poster' = [pc |-> "post", winner |-> w]
      /\ UNCHANGED <<chainVars, listenerVars, rowVars, reconciler>>
  BY DEF GameEnds
<1>2. ChainInv' /\ ChainGoesOn /\ match' = match
  BY <1>1, ChainRests DEF MirrorInv, chainVars
<1>3. poster' \in CallerType /\ CallerHolds(poster)'
  BY <1>1 DEF CallerType, CallerHolds
<1>4. reconciler' \in CallerType /\ CallerHolds(reconciler)'
  BY <1>1, <1>2 DEF MirrorInv, CallersInv, CallerType, CallerHolds
<1> QED BY <1>1, <1>2, <1>3, <1>4, CallerStepKeeps

\* The reconciler asks for the rows that are behind.
LEMMA ReconcilingStarts ==
  ASSUME MirrorInv, ReconcileStarts
  PROVE  MirrorInv'
<1>1. /\ reconciler' = [pc |-> "post", winner |-> row.winner] /\ row.winner \in Winner
      /\ UNCHANGED <<chainVars, listenerVars, rowVars, poster>>
  BY DEF ReconcileStarts, MirrorInv, RowsInv
<1>2. ChainInv' /\ ChainGoesOn /\ match' = match
  BY <1>1, ChainRests DEF MirrorInv, chainVars
<1>3. reconciler' \in CallerType /\ CallerHolds(reconciler)'
  BY <1>1 DEF CallerType, CallerHolds
<1>4. poster' \in CallerType /\ CallerHolds(poster)'
  BY <1>1, <1>2 DEF MirrorInv, CallersInv, CallerType, CallerHolds
<1> QED BY <1>1, <1>2, <1>3, <1>4, CallerStepKeeps

\* It posts the result again.
LEMMA ReconcilerPosts ==
  ASSUME MirrorInv, ReconcilePosts
  PROVE  MirrorInv'
<1>1. /\ reconciler.pc = "post" /\ reconciler \in CallerType /\ poster \in CallerType
      /\ reconciler.winner \in Winner
      /\ UNCHANGED <<ledger, listenerVars, rowVars, poster>>
  BY DEF ReconcilePosts, MirrorInv, CallersInv, CallerType, CallerHolds
<1>2. /\ ChainInv' /\ ChainGoesOn
      /\ \/ reconciler' = [reconciler EXCEPT !.pc = "record"] /\ match'.reported = reconciler.winner
         \/ reconciler' = Idle
  BY <1>1, PostsRight DEF ReconcilePosts
<1>3. reconciler' \in CallerType /\ CallerHolds(reconciler)'
  BY <1>1, <1>2 DEF CallerType, CallerHolds, Idle
<1>4. CallerHolds(poster)'
  BY <1>1, <1>2, ResultKept DEF MirrorInv, CallersInv, CallerHolds, ChainGoesOn
<1> QED BY <1>1, <1>2, <1>3, <1>4, CallerStepKeeps

\* It writes the row that was missing.
LEMMA ReconcilerRecords ==
  ASSUME MirrorInv, ReconcileRecords
  PROVE  MirrorInv'
<1>1. /\ reconciler.pc = "record" /\ reconciler.winner \in Winner
      /\ reconciler.winner = match.reported /\ reconciler' = Idle
      /\ UNCHANGED <<log, ledger, listenerVars, row, dispute, traders, poster>>
      /\ RecordSettlement(reconciler.winner, FALSE, TRUE) /\ PaysWinners(reconciler.winner)
  BY DEF ReconcileRecords, MirrorInv, CallersInv, CallerHolds
<1>2. ChainInv' /\ ChainGoesOn /\ SameCourse
  BY <1>1, TradersArePaid DEF MirrorInv, RowsInv
<1>3. WindowInv'
  BY <1>1, <1>2, WindowStays DEF MirrorInv, ChainInv
<1>4. RowsInv'
  BY <1>1, <1>2, RecordedRight
<1>5. reconciler' \in CallerType /\ CallerHolds(reconciler)'
  BY <1>1 DEF CallerType, CallerHolds, Idle
<1>6. poster' \in CallerType /\ CallerHolds(poster)'
  BY <1>1, <1>2 DEF MirrorInv, CallersInv, CallerType, CallerHolds, SameCourse
<1>7. CallersInv'
  BY <1>5, <1>6 DEF CallersInv, CallerType
<1> QED BY <1>2, <1>3, <1>4, <1>7 DEF MirrorInv
-----------------------------------------------------------------------------
(* The theorems *)

\* Nothing has happened.
LEMMA MirrorInit ==
  Init => MirrorInv
<1> SUFFICES ASSUME Init PROVE MirrorInv
  OBVIOUS
<1>1. PICK next \in {"MatchActive", "MatchCancelled"} :
        /\ log = <<Event("MatchCreated", None), Event(next, None)>>
        /\ match = [phase |-> IF next = "MatchActive" THEN "active" ELSE "cancelled",
                    reported |-> None, final |-> None, deadline |-> 0, disputed |-> FALSE,
                    locked |-> FALSE, bets |-> {}, paid |-> {}]
  BY DEF Init
<1>2. ledger = 1
  BY DEF Init
<1>3. Event("MatchCreated", None) \in EventType /\ Event(next, None) \in EventType
  BY <1>2 DEF Event, EventType, EventName
<1>4. log \in Seq(EventType) /\ \A i \in DOMAIN log : log[i].ledger = 1
  BY <1>1, <1>2, <1>3 DEF Event
<1>5. LogInv
  BY <1>2, <1>4 DEF LogInv
<1>6. \A i \in DOMAIN log : EventHolds(log[i], match)
  BY <1>1 DEF Event, EventHolds
<1>7. MatchInv
  BY <1>1, <1>6 DEF MatchInv, MatchType
<1>8. WindowInv
  BY <1>2, <1>4 DEF Init, WindowInv, NoLostEvent, Before, NoPoll
<1>9. RowsInv
  BY DEF Init, RowsInv, RowsFollowChain
<1>10. CallersInv
  BY DEF Init, CallersInv, CallerHolds, Idle
<1> QED BY <1>5, <1>7, <1>8, <1>9, <1>10 DEF MirrorInv, ChainInv

\* Every step keeps all parts.
LEMMA MirrorStep ==
  MirrorInv /\ [Next]_vars => MirrorInv'
<1> SUFFICES ASSUME MirrorInv, [Next]_vars PROVE MirrorInv'
  OBVIOUS
<1>1. CASE Transaction
  <2>1. ledger' = ledger /\ UNCHANGED <<listenerVars, rowVars, callerVars>>
    BY <1>1 DEF Transaction
  <2>2. ChainInv' /\ ChainGoesOn
    BY <1>1, <2>1, SomeoneBuys, MarketLocks, DisputeIsOpened, ResultFinalized, DisputeIsResolved
    DEF Transaction, MirrorInv
  <2> QED BY <2>1, <2>2, ChainStepKeeps
<1>2. CASE LedgerCloses
  BY <1>2, LedgerEnds, ChainStepKeeps DEF LedgerCloses, MirrorInv
<1>3. CASE PollStarts \/ PollEnds \/ PollFails
  <2>1. UNCHANGED <<chainVars, rowVars, callerVars>>
    BY <1>3 DEF PollStarts, PollEnds, PollFails
  <2>2. ChainInv' /\ ChainGoesOn
    BY <2>1, ChainRests DEF MirrorInv
  <2>3. WindowInv'
    BY <1>3, PollStartsRight, PollEndsRight, PollFailsRight DEF MirrorInv, ChainInv
  <2>4. RowsInv' /\ CallersInv'
    BY <2>1, <2>2, RowsStay, CallersStay DEF MirrorInv, ChainGoesOn
  <2> QED BY <2>2, <2>3, <2>4 DEF MirrorInv
<1>4. CASE HandleEvent
  BY <1>4, EventHandled
<1>5. CASE HandlerFails
  <2>1. /\ page # {} /\ HandlerEnds
        /\ UNCHANGED <<chainVars, startLedger, poll, skipped, rowVars, callerVars>>
    BY <1>5 DEF HandlerFails
  <2>2. ChainInv' /\ ChainGoesOn
    BY <2>1, ChainRests DEF MirrorInv
  <2>3. WindowInv'
    BY <2>1, HandlerEndsRight DEF MirrorInv, ChainInv, chainVars
  <2>4. RowsInv' /\ CallersInv'
    BY <2>1, <2>2, RowsStay, CallersStay DEF MirrorInv, ChainGoesOn
  <2> QED BY <2>2, <2>3, <2>4 DEF MirrorInv
<1>6. CASE KeeperTick
  <2>1. /\ Finalizes \/ UNCHANGED <<log, match>>
        /\ ledger' = ledger /\ UNCHANGED <<listenerVars, rowVars, callerVars>>
    BY <1>6 DEF KeeperTick
  <2>2. ChainInv' /\ ChainGoesOn
    BY <2>1, ResultFinalized, ChainRests DEF MirrorInv, chainVars
  <2> QED BY <2>1, <2>2, ChainStepKeeps
<1>7. CASE \E w \in Winner : GameEnds(w)
  BY <1>7, GameIsOver
<1>8. CASE Works
  BY <1>8, ResultIsPosted, ResultIsRecorded, GameIsCompleted, ReconcilerPosts, ReconcilerRecords
  DEF Works
<1>9. CASE ReconcileStarts
  BY <1>9, ReconcilingStarts
<1>10. CASE Restart
  <2>1. UNCHANGED <<chainVars, rowVars>> /\ poster' = Idle /\ reconciler' = Idle
    BY <1>10 DEF Restart
  <2>2. ChainInv' /\ ChainGoesOn
    BY <2>1, ChainRests DEF MirrorInv
  <2>3. WindowInv'
    BY <1>10, RestartRight DEF MirrorInv, ChainInv
  <2>4. RowsInv'
    BY <2>1, <2>2, RowsStay DEF MirrorInv, ChainGoesOn
  <2>5. CallersInv'
    BY <2>1 DEF CallersInv, CallerHolds, Idle
  <2> QED BY <2>2, <2>3, <2>4, <2>5 DEF MirrorInv
<1>11. CASE UNCHANGED vars
  <2>1. UNCHANGED <<chainVars, listenerVars, rowVars, callerVars>>
    BY <1>11 DEF vars
  <2>2. ChainInv' /\ ChainGoesOn
    BY <2>1, ChainRests DEF MirrorInv
  <2> QED BY <2>1, <2>2, ChainStepKeeps
<1> QED BY <1>1, <1>2, <1>3, <1>4, <1>5, <1>6, <1>7, <1>8, <1>9, <1>10, <1>11 DEF Next, Listens

\* So they always hold.
LEMMA MirrorInvariant ==
  Spec => []MirrorInv
BY MirrorInit, MirrorStep, PTL DEF Spec

\* However long the log, whatever the size of a page and whenever calls fail or the relayer
\* restarts: no event is between two windows of the listener, unless a reset passed over it.
THEOREM NoEventIsLost ==
  Spec => []NoLostEvent
<1>1. MirrorInv => NoLostEvent
  BY DEF MirrorInv, WindowInv
<1> QED BY <1>1, MirrorInvariant, PTL

\* However its events are replayed, refused or lost, no row says more than the chain.
THEOREM RowsAreTrue ==
  Spec => []RowsFollowChain
<1>1. MirrorInv => RowsFollowChain
  BY DEF MirrorInv, RowsInv
<1> QED BY <1>1, MirrorInvariant, PTL
=============================================================================
