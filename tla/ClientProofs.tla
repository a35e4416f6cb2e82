---------------------------- MODULE ClientProofs ----------------------------
(***************************************************************************)
(* Proofs about the wallets in the browser: what a page says of a          *)
(* submission is true of the chain, and searches miss no match they read.  *)
(***************************************************************************)
EXTENDS ClientProperties, SequenceTheorems, FiniteSums

Call  == {"approve", "create_match", "join_match", "buy_outcome", "dispute", "resolve_dispute"}
Last  == Call \ {"approve"}
Calls == {<<"approve", call>> : call \in Last} \cup {<<call>> : call \in Last}
Said  == {"busy", "done", "early", "failed", "nothing"}

FlowType == [pc : {"search", "build", "sign", "poll", "wait"}, calls : Calls, match : Nat,
             bet : Nat, saw : SUBSET Nat, seq : Nat, flow : Nat]
SentType == [who : Players, seq : Nat, flow : Nat, call : Call, match : Nat, bet : Nat,
             saw : SUBSET Nat]
GameType == [a : Players, b : Players \cup {Nobody}, bet : Nat,
             status : {"open", "active", "submitted", "elapsed", "disputed", "settled"},
             locked : BOOLEAN, saw : SUBSET Nat]

ClientTypes ==
  /\ owner \in [Tabs -> Players]
  /\ DOMAIN account = Players /\ \A x \in Players : account[x].seq \in Nat
  /\ matches \in Seq(GameType)
  /\ network \subseteq SentType
  /\ \A r \in applied : r.flow \in Nat /\ r.call \in Call /\ r.match \in Nat
  /\ tabs \in [Tabs -> {NoFlow} \cup FlowType] /\ told \in Seq(Said)

\* A busy tab has a submission of its own, of which nothing has been said.
Busy(t) == tabs[t].pc # "idle"

TabsInv ==
  /\ \A t \in Tabs : Busy(t) => tabs[t].flow \in Flows /\ told[tabs[t].flow] = "busy"
  /\ \A t, u \in Tabs : Busy(t) /\ Busy(u) /\ tabs[t].flow = tabs[u].flow => t = u

\* The transactions and the results of a submission's last call: it is sent once, so
\* it is on its way, or it has succeeded, or it has failed.
Pending(f) == {c \in network : c.flow = f /\ c.call # "approve"}
Ended(f)   == {r \in applied : r.flow = f /\ r.call # "approve"}

OnceInv ==
  /\ \A c \in network : c.flow \in Flows
  /\ \A r \in applied : r.flow \in Flows
  /\ \A c, d \in network : c.flow = d.flow /\ {c.call, d.call} \subseteq Last => c = d
  /\ \A c \in network, r \in applied : c.flow = r.flow => "approve" \in {c.call, r.call}
  /\ \A r, s \in applied : r.flow = s.flow /\ {r.call, s.call} \subseteq Last => r.ok = s.ok

\* As long as a tab prepares a submission, its last call has not been sent.
Untried(f) == Pending(f) = {} /\ Ended(f) = {}

StageHolds(x) ==
  /\ x.pc \in {"search", "build", "sign"} => Untried(x.flow)
  /\ x.pc = "poll" /\ Head(x.calls) = "approve" => Untried(x.flow)
  /\ x.pc = "wait" => x.flow \in Landed /\ Head(x.calls) # "approve"

StageInv == \A t \in Tabs : StageHolds(tabs[t])

\* An open match that a search read was not one to join.
Unfit(saw, who, bet) ==
  \A m \in saw : m \in Matches /\ (matches[m].a = who \/ matches[m].bet # bet)

SawInv ==
  /\ \A t \in Tabs : Busy(t) => Unfit(tabs[t].saw, owner[t], tabs[t].bet)
  /\ \A c \in network : Unfit(c.saw, c.who, c.bet)
  /\ \A m \in Matches : Unfit(matches[m].saw, matches[m].a, matches[m].bet)

ClientInv ==
  ClientTypes /\ TabsInv /\ OnceInv /\ StageInv /\ PageTellsTheTruth /\ SawInv

\* Matches stay, with who created them, for how much, and what was searched before.
GamesKept ==
  /\ Len(matches) <= Len(matches')
  /\ \A m \in Matches : /\ matches'[m].a = matches[m].a /\ matches'[m].bet = matches[m].bet
                        /\ matches'[m].saw = matches[m].saw
-----------------------------------------------------------------------------
(* The calls of a submission *)

\* One call, or an approval and then it.
LEMMA CallsType ==
  ASSUME NEW calls \in Calls
  PROVE  /\ Head(calls) \in Call
         /\ Len(calls) > 1 => Head(calls) = "approve" /\ Tail(calls) \in Calls
         /\ ~(Len(calls) > 1) => Head(calls) \in Last
<1>1. CASE \E call \in Last : calls = <<"approve", call>>
  <2>1. PICK call \in Last : calls = <<"approve", call>>
    BY <1>1
  <2>2. Len(calls) = 2 /\ Head(calls) = "approve" /\ Tail(calls) = <<call>>
    BY <2>1
  <2> QED BY <2>2 DEF Calls, Call
<1>2. CASE \E call \in Last : calls = <<call>>
  <2>1. PICK call \in Last : calls = <<call>>
    BY <1>2
  <2>2. Len(calls) = 1 /\ Head(calls) = call
    BY <2>1
  <2> QED BY <2>1, <2>2 DEF Last
<1> QED BY <1>1, <1>2 DEF Calls

\* The calls of each entry point.
LEMMA EntryPoints ==
  {createMatch, joinMatch, placeTrade, dispute, resolveDispute} \subseteq Calls
<1>1. /\ createMatch = <<"approve", "create_match">> /\ joinMatch = <<"approve", "join_match">>
      /\ placeTrade = <<"approve", "buy_outcome">>
  <2>1. ASSUME NEW call \in Call
        PROVE  <<"approve">> \o <<call>> = <<"approve", call>>
    <3> DEFINE one == <<"approve">> \o <<call>>
               two == <<"approve", call>>
    <3>1. <<"approve">> \in Seq(Call) /\ <<call>> \in Seq(Call) /\ two \in Seq(Call)
      BY DEF Call
    <3>2. one \in Seq(Call) /\ Len(one) = 2 /\ one[1] = "approve" /\ one[2] = call
      BY <3>1
    <3>3. Len(two) = 2 /\ two[1] = "approve" /\ two[2] = call
      OBVIOUS
    <3> HIDE DEF one, two
    <3>4. \A i \in 1 .. Len(one) : one[i] = two[i]
      BY <3>2, <3>3
    <3>5. one = two
      BY <3>1, <3>2, <3>3, <3>4, SeqEqual
    <3> QED BY <3>5 DEF one, two
  <2> QED BY <2>1 DEF createMatch, joinMatch, placeTrade, approveUsdc, Call
<1> QED BY <1>1 DEF Calls, Last, Call, dispute, resolveDispute

\* A busy tab has a submission.
LEMMA BusyTab ==
  ASSUME ClientTypes, NEW t \in Tabs, Busy(t)
  PROVE  tabs[t] \in FlowType
BY DEF ClientTypes, Busy, NoFlow
-----------------------------------------------------------------------------
(* A submission comes to an end, goes on, or starts *)

\* The tab says how its submission ended.
LEMMA TabEnds ==
  ASSUME ClientInv, NEW t \in Tabs, Busy(t), NEW what \in Said \ {"busy"},
         Goes(t, NoFlow), Says(tabs[t].flow, what), UNCHANGED <<owner, chainVars>>,
         cut \subseteq cut',
         what \in {"done", "early"} => tabs[t].flow \in Landed,
         what = "failed" /\ tabs[t].flow \notin cut' =>
           tabs[t].flow \notin Landed /\ Pending(tabs[t].flow) = {}
  PROVE  ClientInv'
<1> DEFINE f == tabs[t].flow
<1>1. /\ f \in Flows /\ told[f] = "busy" /\ f \in Nat
      /\ told \in Seq(Said) /\ tabs \in [Tabs -> {NoFlow} \cup FlowType]
  BY BusyTab DEF ClientInv, ClientTypes, TabsInv, FlowType
<1>2. tabs' = [tabs EXCEPT ![t] = NoFlow] /\ told' = [told EXCEPT ![f] = what]
  BY DEF Goes, Says
<1>3. UNCHANGED <<owner, account, matches, network, applied>>
  BY DEF chainVars
<1> HIDE DEF f
<1>4. /\ tabs' \in [Tabs -> {NoFlow} \cup FlowType]
      /\ tabs'[t] = NoFlow /\ \A u \in Tabs \ {t} : tabs'[u] = tabs[u]
  BY <1>1, <1>2
<1>5. /\ told' \in Seq(Said) /\ Len(told') = Len(told) /\ told'[f] = what
      /\ \A g \in Flows : g # f => told'[g] = told[g]
  BY <1>1, <1>2 DEF Flows
<1>6. ClientTypes'
  BY <1>3, <1>4, <1>5 DEF ClientInv, ClientTypes
<1>7. Flows' = Flows
  BY <1>5 DEF Flows
<1>8. \A u \in Tabs : tabs'[u].pc # "idle" => u # t /\ tabs'[u] = tabs[u]
  BY <1>4 DEF NoFlow
<1>9. \A u \in Tabs : u # t /\ tabs[u].pc # "idle" => tabs[u].flow # f
  BY DEF ClientInv, TabsInv, Busy, f
<1>10. TabsInv'
  BY <1>5, <1>7, <1>8, <1>9 DEF ClientInv, TabsInv, Busy
<1>11. OnceInv'
  BY <1>3, <1>7 DEF ClientInv, OnceInv
<1>12. \A u \in Tabs : StageHolds(tabs'[u])
  BY <1>4, <1>8 DEF ClientInv, StageInv, StageHolds, NoFlow
<1>13. StageInv'
  BY <1>3, <1>12 DEF StageInv, StageHolds, Untried, Pending, Ended, Landed
<1>14. SawInv'
  BY <1>3, <1>8 DEF ClientInv, SawInv, Unfit, Busy, Matches
<1>15. PageTellsTheTruth'
  <2>1. ASSUME NEW g \in Flows
        PROVE  /\ told'[g] \in {"done", "early"} => g \in Landed
               /\ told'[g] = "failed" /\ g \notin cut' =>
                    g \notin Landed /\ ~\E c \in network : c.flow = g /\ c.call # "approve"
    <3>1. CASE g = f
      BY <1>5, <3>1 DEF f, Pending
    <3>2. CASE g # f
      BY <1>5, <3>2 DEF ClientInv, PageTellsTheTruth
    <3> QED BY <3>1, <3>2
  <2> QED BY <1>3, <1>7, <2>1 DEF PageTellsTheTruth, Landed
<1> QED BY <1>6, <1>10, <1>11, <1>13, <1>14, <1>15 DEF ClientInv

\* The tab goes on with its submission, and sends nothing.
LEMMA TabGoesOn ==
  ASSUME ClientInv, NEW t \in Tabs, Busy(t), NEW new \in FlowType,
         new.flow = tabs[t].flow, Goes(t, new), UNCHANGED <<owner, chainVars, told, cut>>,
         StageHolds(new), Unfit(new.saw, owner[t], new.bet)
  PROVE  ClientInv'
<1>1. tabs \in [Tabs -> {NoFlow} \cup FlowType] /\ new.pc # "idle"
  BY DEF ClientInv, ClientTypes, FlowType
<1>2. tabs' = [tabs EXCEPT ![t] = new]
  BY DEF Goes
<1>3. UNCHANGED <<owner, account, matches, network, applied, told, cut>>
  BY DEF chainVars
<1>4. /\ tabs' \in [Tabs -> {NoFlow} \cup FlowType]
      /\ tabs'[t] = new /\ \A u \in Tabs \ {t} : tabs'[u] = tabs[u]
  BY <1>1, <1>2
<1>5. ClientTypes'
  BY <1>3, <1>4 DEF ClientInv, ClientTypes
<1>6. /\ \A u \in Tabs : tabs'[u].pc # "idle" => tabs[u].pc # "idle"
      /\ \A u \in Tabs : tabs'[u].pc # "idle" => tabs'[u].flow = tabs[u].flow
  BY <1>4 DEF Busy
<1>7. TabsInv'
  BY <1>3, <1>6 DEF ClientInv, TabsInv, Busy, Flows
<1>8. OnceInv' /\ PageTellsTheTruth'
  BY <1>3 DEF ClientInv, OnceInv, PageTellsTheTruth, Flows, Landed
<1>9. \A u \in Tabs : StageHolds(tabs'[u])
  BY <1>4 DEF ClientInv, StageInv
<1>10. StageInv'
  BY <1>3, <1>9 DEF StageInv, StageHolds, Untried, Pending, Ended, Landed
<1>11. \A u \in Tabs : tabs'[u].pc # "idle" => Unfit(tabs'[u].saw, owner[u], tabs'[u].bet)
  BY <1>4 DEF ClientInv, SawInv, Busy
<1>12. SawInv'
  BY <1>3, <1>11 DEF ClientInv, SawInv, Unfit, Busy, Matches
<1> QED BY <1>5, <1>7, <1>8, <1>10, <1>12 DEF ClientInv

\* The tab starts a submission, which nothing is signed for yet.
LEMMA Submitted ==
  ASSUME ClientInv, NEW t \in Tabs, NEW pc \in {"search", "build"}, NEW calls \in Calls,
         NEW m \in Nat, NEW bet \in Nat, Submits(t, pc, calls, m, bet)
  PROVE  ClientInv'
<1> DEFINE f   == Len(told) + 1
           new == [pc |-> pc, calls |-> calls, match |-> m, bet |-> bet, saw |-> {}, seq |-> 0,
                   flow |-> f]
<1>1. /\ ~Busy(t) /\ tabs' = [tabs EXCEPT ![t] = new] /\ told' = Append(told, "busy")
      /\ UNCHANGED <<owner, account, matches, network, applied, cut>>
  BY DEF Submits, Goes, Busy, chainVars
<1>2. told \in Seq(Said) /\ tabs \in [Tabs -> {NoFlow} \cup FlowType] /\ Len(told) \in Nat
  BY DEF ClientInv, ClientTypes
<1>3. new \in FlowType /\ new.flow = f /\ new.saw = {} /\ new.pc = pc
  BY <1>2 DEF FlowType
<1>4. f \notin Flows /\ f \in Nat \ {0} /\ Flows = 1 .. Len(told)
  BY <1>2 DEF Flows
<1>5. /\ told' \in Seq(Said) /\ Len(told') = f /\ told'[f] = "busy"
      /\ \A g \in Flows : told'[g] = told[g]
  BY <1>1, <1>2, <1>4 DEF Said
<1>6. Flows' = Flows \cup {f}
  BY <1>2, <1>5 DEF Flows
<1> HIDE DEF new, f
<1>7. /\ tabs' \in [Tabs -> {NoFlow} \cup FlowType]
      /\ tabs'[t] = new /\ \A u \in Tabs \ {t} : tabs'[u] = tabs[u]
  BY <1>1, <1>2, <1>3
<1>8. ClientTypes'
  BY <1>1, <1>5, <1>7 DEF ClientInv, ClientTypes
<1>9. \A u \in Tabs : u # t /\ tabs'[u].pc # "idle" =>
        tabs'[u].flow \in Flows /\ tabs'[u].flow # f /\ told'[tabs'[u].flow] = "busy"
  BY <1>4, <1>5, <1>7 DEF ClientInv, TabsInv, Busy
<1>10. TabsInv'
  BY <1>3, <1>5, <1>6, <1>7, <1>9 DEF ClientInv, TabsInv, Busy
<1>11. OnceInv'
  BY <1>1, <1>6 DEF ClientInv, OnceInv
<1>12. Untried(f)
  BY <1>4 DEF ClientInv, OnceInv, Untried, Pending, Ended
<1>13. \A u \in Tabs : StageHolds(tabs'[u])
  BY <1>3, <1>7, <1>12 DEF ClientInv, StageInv, StageHolds
<1>14. StageInv'
  BY <1>1, <1>13 DEF StageInv, StageHolds, Untried, Pending, Ended, Landed
<1>15. SawInv'
  <2>1. \A u \in Tabs : tabs'[u].pc # "idle" => Unfit(tabs'[u].saw, owner[u], tabs'[u].bet)
    BY <1>3, <1>7 DEF ClientInv, SawInv, Busy, Unfit
  <2> QED BY <1>1, <2>1 DEF ClientInv, SawInv, Unfit, Busy, Matches
<1>16. PageTellsTheTruth'
  BY <1>1, <1>5, <1>6 DEF ClientInv, PageTellsTheTruth, Landed
<1> QED BY <1>8, <1>10, <1>11, <1>14, <1>15, <1>16 DEF ClientInv
-----------------------------------------------------------------------------
(* The search *)

\* Every inhabited set of numbers up to n has a greatest.
LEMMA GreatestUpTo ==
  ASSUME NEW n \in Nat, NEW T \in SUBSET (1 .. n), T # {}
  PROVE  \E x \in T : \A y \in T : y <= x
<1> DEFINE Down == {d \in Nat : n - d \in T}
<1>1. Down \in SUBSET Nat /\ Down # {}
  <2>1. PICK x \in T : TRUE
    OBVIOUS
  <2>2. n - x \in Nat /\ n - (n - x) = x
    OBVIOUS
  <2>3. n - x \in Down
    BY <2>2
  <2>4. Down \subseteq Nat
    OBVIOUS
  <2> HIDE DEF Down
  <2> QED BY <2>3, <2>4
<1>2. PICK d \in Down : \A y \in Down : d <= y
  BY <1>1, LeastNat
<1>3. ASSUME NEW y \in T  PROVE n - y \in Down
  <2>1. y \in Int /\ n - y \in Nat /\ n - (n - y) = y
    OBVIOUS
  <2> QED BY <2>1
<1>4. n - d \in T /\ d \in Nat
  BY <1>2
<1>5. ASSUME NEW y \in T  PROVE y <= n - d
  <2>1. y \in Nat /\ d <= n - y
    BY <1>2, <1>3
  <2> QED BY <1>4, <2>1
<1> QED BY <1>4, <1>5

\* What the search has found nothing in is no match to join.
LEMMA NothingFound ==
  ASSUME ClientTypes, NEW t \in Tabs, Found(t) = {}
  PROVE  Unfit({m \in Listed : lobby[m] = "open"}, owner[t], tabs[t].bet)
<1> DEFINE compatible == {m \in Listed : Compatible(m, t)}
<1>1. Len(matches) \in Nat /\ Matches = 1 .. Len(matches)
  BY DEF ClientTypes, Matches
<1>2. compatible \in SUBSET (1 .. Len(matches)) /\ Listed \subseteq Matches
  BY <1>1 DEF Listed, InLobby
<1>3. compatible = {}
  <2>1. SUFFICES ASSUME compatible # {} PROVE FALSE
    OBVIOUS
  <2>2. PICK x \in compatible : \A y \in compatible : y <= x
    <3> HIDE DEF compatible
    <3> QED BY <1>1, <1>2, <2>1, GreatestUpTo
  <2>3. x \in Found(t)
    BY <2>2 DEF Found
  <2> QED BY <2>3
<1> QED BY <1>2, <1>3 DEF Unfit, Compatible
-----------------------------------------------------------------------------
(* The chain *)

\* A match that was unfit for a search stays so.
LEMMA SawKept ==
  ASSUME matches \in Seq(GameType), matches' \in Seq(GameType), GamesKept,
         NEW saw, NEW who, NEW bet, Unfit(saw, who, bet)
  PROVE  \A m \in saw : m \in DOMAIN matches' /\ (matches'[m].a = who \/ matches'[m].bet # bet)
<1>1. DOMAIN matches \subseteq DOMAIN matches'
  BY DEF GamesKept
<1> QED BY <1>1 DEF Unfit, GamesKept, Matches

\* What a call does to the matches.
LEMMA EffectRight ==
  ASSUME ClientTypes, NEW c \in SentType, Effect(c, c.who)
  PROVE  /\ matches' \in Seq(GameType) /\ GamesKept
         /\ \A m \in DOMAIN matches' : m \notin Matches =>
              matches'[m].a = c.who /\ matches'[m].bet = c.bet /\ matches'[m].saw = c.saw
<1>1. /\ c.who \in Players /\ c.call \in Call /\ c.match \in Nat /\ c.bet \in Nat
      /\ c.saw \in SUBSET Nat
  BY DEF SentType
<1>2. /\ matches \in Seq(GameType) /\ Len(matches) \in Nat /\ Matches = 1 .. Len(matches)
      /\ \A m \in Matches : matches[m] \in GameType
  BY DEF ClientTypes, Matches
<1>3. CASE c.call = "create_match"
  <2> DEFINE new == [a |-> c.who, b |-> Nobody, bet |-> c.bet, status |-> "open",
                     locked |-> FALSE, saw |-> c.saw]
  <2>1. matches' = Append(matches, new)
    BY <1>3 DEF Effect
  <2>2. new \in GameType /\ new.a = c.who /\ new.bet = c.bet /\ new.saw = c.saw
    BY <1>1 DEF GameType
  <2> HIDE DEF new
  <2>3. /\ matches' \in Seq(GameType) /\ Len(matches') = Len(matches) + 1
        /\ \A m \in Matches : matches'[m] = matches[m]
        /\ DOMAIN matches' = 1 .. Len(matches) + 1
        /\ matches'[Len(matches) + 1] = new
    BY <1>2, <2>1, <2>2
  <2>4. \A m \in DOMAIN matches' : m \notin Matches => matches'[m] = new
    BY <1>2, <2>3
  <2> QED BY <1>2, <2>2, <2>3, <2>4 DEF GamesKept
<1>4. CASE c.call # "create_match"
  <2>1. /\ matches' \in [Matches -> GameType]
        /\ \A m \in Matches : /\ matches'[m].a = matches[m].a
                              /\ matches'[m].bet = matches[m].bet
                              /\ matches'[m].saw = matches[m].saw
    <3>1. CASE c.call = "join_match"
      <4>1. matches' = [matches EXCEPT ![c.match].b = c.who, ![c.match].status = "active"]
        BY <1>4, <3>1 DEF Effect
      <4>2. ASSUME NEW m \in Matches
            PROVE  /\ matches'[m] \in GameType /\ matches'[m].a = matches[m].a
                   /\ matches'[m].bet = matches[m].bet /\ matches'[m].saw = matches[m].saw
        <5> DEFINE old == matches[m]
        <5>1. old \in GameType
          BY <1>2
        <5>2. matches'[m] \in {old, [old EXCEPT !.b = c.who, !.status = "active"]}
          BY <1>2, <4>1 DEF Matches
        <5> HIDE DEF old
        <5>3. /\ matches'[m] \in GameType /\ matches'[m].a = old.a
              /\ matches'[m].bet = old.bet /\ matches'[m].saw = old.saw
          BY <1>1, <5>1, <5>2 DEF GameType
        <5> QED BY <5>3 DEF old
      <4>3. matches' = [m \in Matches |-> matches'[m]]
        BY <4>1 DEF Matches
      <4> QED BY <4>2, <4>3
    <3>2. CASE c.call = "dispute"
      <4>1. matches' = [matches EXCEPT ![c.match].status = "disputed"]
        BY <1>4, <3>2 DEF Effect
      <4> QED BY ZenonT(30), <1>1, <1>2, <4>1 DEF GameType, Matches
    <3>3. CASE c.call = "resolve_dispute"
      <4>1. matches' = [matches EXCEPT ![c.match].status = "settled"]
        BY <1>4, <3>3 DEF Effect
      <4> QED BY ZenonT(30), <1>1, <1>2, <4>1 DEF GameType, Matches
    <3>4. CASE c.call \in {"approve", "buy_outcome"}
      <4>1. matches' = matches
        BY <1>4, <3>4 DEF Effect
      <4> QED BY <1>2, <4>1 DEF Matches
    <3> QED BY <1>1, <1>4, <3>1, <3>2, <3>3, <3>4 DEF Call
  <2>2. matches' \in Seq(GameType) /\ Len(matches') = Len(matches)
    BY <1>2, <2>1
  <2> QED BY <1>2, <2>1, <2>2 DEF GamesKept
<1> QED BY <1>3, <1>4

\* What each match was created in spite of stays unfit.
LEMMA SawInvKept ==
  ASSUME ClientInv, matches' \in Seq(GameType), GamesKept, network' \subseteq network,
         UNCHANGED <<owner, tabs>>,
         NEW saw, NEW who, NEW bet, Unfit(saw, who, bet),
         \A m \in DOMAIN matches' : m \notin Matches =>
           matches'[m].a = who /\ matches'[m].bet = bet /\ matches'[m].saw = saw
  PROVE  SawInv'
<1>1. matches \in Seq(GameType) /\ DOMAIN matches = Matches
  BY DEF ClientInv, ClientTypes, Matches
<1> DEFINE Unfit1(s, w, b) ==
      \A m \in s : m \in DOMAIN matches' /\ (matches'[m].a = w \/ matches'[m].bet # b)
<1>2. \A t \in Tabs : tabs[t].pc # "idle" => Unfit1(tabs[t].saw, owner[t], tabs[t].bet)
  BY <1>1, SawKept DEF ClientInv, SawInv, Busy
<1>3. \A c \in network : Unfit1(c.saw, c.who, c.bet)
  BY <1>1, SawKept DEF ClientInv, SawInv
<1>4. Unfit1(saw, who, bet)
  BY <1>1, SawKept
<1>5. \A m \in Matches : Unfit1(matches[m].saw, matches[m].a, matches[m].bet)
  BY <1>1, SawKept DEF ClientInv, SawInv
<1>6. \A m \in DOMAIN matches' : Unfit1(matches'[m].saw, matches'[m].a, matches'[m].bet)
  <2> HIDE DEF Unfit1
  <2> QED BY <1>4, <1>5 DEF GamesKept
<1> QED BY <1>2, <1>3, <1>6 DEF SawInv, Unfit, Busy, Matches

\* A transaction leaves the network, applied or not, and what was known stays true.
LEMMA Applied ==
  ASSUME ClientInv, NEW c \in network, Applies(c)
  PROVE  ClientInv'
<1> DEFINE ok == Accepts(c)
           r  == [flow |-> c.flow, call |-> c.call, ok |-> ok,
                  match |-> IF c.call = "create_match" THEN Len(matches) + 1 ELSE c.match]
<1>1. c \in SentType
  BY DEF ClientInv, ClientTypes
<1>2. /\ c.who \in Players /\ c.call \in Call /\ c.match \in Nat /\ c.flow \in Nat
      /\ matches \in Seq(GameType) /\ Len(matches) \in Nat
  BY <1>1 DEF SentType, ClientInv, ClientTypes
<1>3. /\ network' = network \ {c} /\ applied' = applied \cup {r}
      /\ UNCHANGED <<owner, tabs, told, cut>>
      /\ Effect(c, c.who) \/ UNCHANGED matches
  BY DEF Applies, pageVars
<1>4. r.flow = c.flow /\ r.call = c.call /\ r.flow \in Nat /\ r.call \in Call /\ r.match \in Nat
  BY <1>2
<1>5. DOMAIN account' = Players /\ \A x \in Players : account'[x].seq \in Nat
  <2> DEFINE usdc == account[c.who].usdc - IF ok THEN Pays(c) ELSE 0
             seq  == account[c.who].seq + 1
  <2>1. account' = [account EXCEPT ![c.who] = [seq |-> seq, usdc |-> usdc]]
    BY DEF Applies
  <2>2. seq \in Nat
    BY <1>2 DEF ClientInv, ClientTypes
  <2> HIDE DEF seq, usdc
  <2> QED BY <1>2, <2>1, <2>2 DEF ClientInv, ClientTypes
<1> HIDE DEF r, ok
<1>6. /\ matches' \in Seq(GameType) /\ GamesKept
      /\ \A m \in DOMAIN matches' : m \notin Matches =>
           matches'[m].a = c.who /\ matches'[m].bet = c.bet /\ matches'[m].saw = c.saw
  <2>1. CASE Effect(c, c.who)
    BY <1>1, <2>1, EffectRight DEF ClientInv
  <2>2. CASE UNCHANGED matches
    BY <1>2, <2>2 DEF GamesKept, Matches
  <2> QED BY <1>3, <2>1, <2>2
<1>7. ClientTypes'
  BY <1>3, <1>4, <1>5, <1>6 DEF ClientInv, ClientTypes
<1>8. TabsInv' /\ Flows' = Flows
  BY <1>3 DEF ClientInv, TabsInv, Busy, Flows
<1>9. \A s \in applied : c.flow = s.flow => "approve" \in {c.call, s.call}
  BY DEF ClientInv, OnceInv
<1>10. \A d \in network' : c.flow = d.flow => "approve" \in {c.call, d.call}
  <2>1. \A d \in network : d.call \in Call
    BY DEF ClientInv, ClientTypes, SentType
  <2> QED BY <1>2, <1>3, <2>1 DEF ClientInv, OnceInv, Last
<1>11. OnceInv'
  <2>1. \A d \in network', s \in applied' : d.flow = s.flow => "approve" \in {d.call, s.call}
    BY <1>3, <1>4, <1>10 DEF ClientInv, OnceInv
  <2>2. \A s, u \in applied' : s.flow = u.flow /\ {s.call, u.call} \subseteq Last => s.ok = u.ok
    BY <1>3, <1>4, <1>9 DEF ClientInv, OnceInv, Last
  <2>3. /\ \A d \in network' : d.flow \in Flows
        /\ \A s \in applied' : s.flow \in Flows
        /\ \A d, e \in network' : d.flow = e.flow /\ {d.call, e.call} \subseteq Last => d = e
    BY <1>3, <1>4 DEF ClientInv, OnceInv
  <2> QED BY <1>8, <2>1, <2>2, <2>3 DEF OnceInv
<1>12. \A f : Untried(f) => Untried(f)'
  BY <1>3, <1>4 DEF Untried, Pending, Ended
<1>13. Landed \subseteq Landed'
  BY <1>3 DEF Landed
<1>14. StageInv'
  <2>1. \A t \in Tabs : tabs'[t] = tabs[t]
    BY <1>3
  <2> QED BY <1>12, <1>13, <2>1 DEF ClientInv, StageInv, StageHolds
<1>15. SawInv'
  <2>1. Unfit(c.saw, c.who, c.bet) /\ network' \subseteq network
    BY <1>3 DEF ClientInv, SawInv
  <2> QED BY <1>3, <1>6, <2>1, SawInvKept
<1>16. PageTellsTheTruth'
  <2>1. ASSUME NEW f \in Flows, told[f] = "failed", f \notin cut
        PROVE  f \notin Landed' /\ ~\E d \in network' : d.flow = f /\ d.call # "approve"
    <3>1. f \notin Landed /\ ~\E d \in network : d.flow = f /\ d.call # "approve"
      BY <2>1 DEF ClientInv, PageTellsTheTruth
    <3>2. ~(c.flow = f /\ c.call # "approve")
      BY <3>1
    <3> QED BY <1>3, <1>4, <3>1, <3>2 DEF Landed
  <2> QED BY <1>3, <1>8, <1>13, <2>1 DEF ClientInv, PageTellsTheTruth
<1> QED BY <1>7, <1>8, <1>11, <1>14, <1>15, <1>16 DEF ClientInv

\* A transaction leaves the network and lands no more.
LEMMA Expired ==
  ASSUME ClientInv, NEW c \in network, Expires(c)
  PROVE  ClientInv'
<1>1. network' = network \ {c} /\ UNCHANGED <<owner, account, matches, applied, tabs, told, cut>>
  BY DEF Expires, pageVars
<1>2. ClientTypes' /\ TabsInv' /\ OnceInv'
  BY <1>1 DEF ClientInv, ClientTypes, TabsInv, OnceInv, Busy, Flows
<1>3. \A f : Untried(f) => Untried(f)'
  BY <1>1 DEF Untried, Pending, Ended
<1>4. StageInv'
  <2>1. \A t \in Tabs : tabs'[t] = tabs[t] /\ Landed' = Landed
    BY <1>1 DEF Landed
  <2> QED BY <1>3, <2>1 DEF ClientInv, StageInv, StageHolds
<1>5. SawInv' /\ PageTellsTheTruth'
  BY <1>1 DEF ClientInv, SawInv, Unfit, Busy, Matches, PageTellsTheTruth, Flows, Landed
<1> QED BY <1>2, <1>4, <1>5 DEF ClientInv

\* The game of a match goes on, with no tab, wallet or transaction involved.
LEMMA GameWentOn ==
  ASSUME ClientInv, NEW m \in Matches, MatchGoesOn(m)
  PROVE  ClientInv'
<1>1. /\ matches' = [matches EXCEPT ![m].locked = TRUE]
         \/ \E status \in {"submitted", "elapsed", "settled"} :
              matches' = [matches EXCEPT ![m].status = status]
      /\ UNCHANGED <<owner, account, network, applied, tabs, told, cut>>
  BY DEF MatchGoesOn, LocksMarket, PostsResult, WindowElapses, Finalizes, pageVars
<1>2. /\ matches \in Seq(GameType) /\ Matches = DOMAIN matches
      /\ \A n \in Matches : matches[n] \in GameType
  BY DEF ClientInv, ClientTypes, Matches
<1>3. /\ matches' \in Seq(GameType) /\ DOMAIN matches' = Matches
      /\ \A n \in Matches : /\ matches'[n].a = matches[n].a /\ matches'[n].bet = matches[n].bet
                            /\ matches'[n].saw = matches[n].saw
  <2>1. /\ matches' \in [Matches -> GameType]
        /\ \A n \in Matches : /\ matches'[n].a = matches[n].a /\ matches'[n].bet = matches[n].bet
                              /\ matches'[n].saw = matches[n].saw
    <3>1. ASSUME NEW status \in {"submitted", "elapsed", "settled"},
                 matches' = [matches EXCEPT ![m].status = status]
          PROVE  /\ matches' \in [Matches -> GameType]
                 /\ \A n \in Matches : /\ matches'[n].a = matches[n].a
                                       /\ matches'[n].bet = matches[n].bet
                                       /\ matches'[n].saw = matches[n].saw
      BY <1>2, <3>1 DEF GameType
    <3>2. CASE matches' = [matches EXCEPT ![m].locked = TRUE]
      BY <1>2, <3>2 DEF GameType
    <3> QED BY <1>1, <3>1, <3>2
  <2>2. Matches = 1 .. Len(matches) /\ Len(matches) \in Nat
    BY <1>2
  <2> QED BY <2>1, <2>2
<1>4. ClientTypes' /\ TabsInv' /\ OnceInv'
  BY <1>1, <1>3 DEF ClientInv, ClientTypes, TabsInv, OnceInv, Busy, Flows
<1>5. StageInv' /\ PageTellsTheTruth'
  BY <1>1 DEF ClientInv, StageInv, StageHolds, Untried, Pending, Ended, PageTellsTheTruth, Flows,
              Landed
<1>6. SawInv'
  BY <1>1, <1>2, <1>3 DEF ClientInv, SawInv, Unfit, Busy, Matches
<1> QED BY <1>4, <1>5, <1>6 DEF ClientInv
-----------------------------------------------------------------------------
(* The steps of a tab *)

\* What the results of a submission's last call say of it.
LEMMA ResultsSay ==
  ASSUME ClientInv, NEW t \in Tabs, Busy(t)
  PROVE  /\ Results(t, TRUE) # {} /\ Head(tabs[t].calls) # "approve" => tabs[t].flow \in Landed
         /\ Results(t, FALSE) # {} /\ Head(tabs[t].calls) # "approve" =>
              tabs[t].flow \notin Landed /\ Pending(tabs[t].flow) = {}
<1>1. tabs[t] \in FlowType
  BY BusyTab DEF ClientInv
<1>2. Head(tabs[t].calls) \in Call
  BY <1>1, CallsType DEF FlowType
<1>3. ASSUME NEW r \in Results(t, TRUE), Head(tabs[t].calls) # "approve"
      PROVE  tabs[t].flow \in Landed
  <2>1. r \in applied /\ r.flow = tabs[t].flow /\ r.call # "approve"
    BY <1>3 DEF Results
  <2>2. r.ok
    <3>1. r.ok = TRUE
      BY DEF Results
    <3> QED BY <3>1
  <2> QED BY <2>1, <2>2 DEF Landed
<1>4. ASSUME NEW r \in Results(t, FALSE), Head(tabs[t].calls) # "approve"
      PROVE  tabs[t].flow \notin Landed /\ Pending(tabs[t].flow) = {}
  <2>1. r \in applied /\ r.flow = tabs[t].flow /\ r.call # "approve" /\ r.call \in Last /\ r.ok = FALSE
    BY <1>2, <1>4 DEF Results, Last
  <2>2. \A s \in applied : s.call \in Call
    BY DEF ClientInv, ClientTypes
  <2>3. tabs[t].flow \notin Landed
    BY <2>1, <2>2 DEF Landed, ClientInv, OnceInv, Last
  <2>4. Pending(tabs[t].flow) = {}
    BY <2>1 DEF Pending, ClientInv, OnceInv
  <2> QED BY <2>3, <2>4
<1> QED BY <1>3, <1>4

\* An error ends a submission of which nothing has been sent, or only the approval, or
\* which is cut off.
LEMMA RefusedRight ==
  ASSUME ClientInv, NEW t \in Tabs, Busy(t), Refused(t), UNCHANGED <<owner, chainVars>>, cut \subseteq cut',
         tabs[t].flow \notin cut' => tabs[t].flow \notin Landed /\ Pending(tabs[t].flow) = {}
  PROVE  ClientInv'
BY TabEnds DEF Refused, Said

\* Nothing that has not been signed has landed.
LEMMA UntriedSays ==
  ASSUME NEW f, Untried(f)
  PROVE  f \notin Landed /\ Pending(f) = {}
BY DEF Untried, Pending, Ended, Landed

\* The tab looks for a match to join.
LEMMA SearchesRight ==
  ASSUME ClientInv, NEW t \in Tabs, Searches(t)
  PROVE  ClientInv'
<1>1. /\ Busy(t) /\ tabs[t].pc = "search" /\ UNCHANGED <<owner, chainVars, told, cut>>
  BY DEF Searches, Busy
<1>2. tabs[t] \in FlowType /\ Untried(tabs[t].flow) /\ Unfit(tabs[t].saw, owner[t], tabs[t].bet)
  BY <1>1, BusyTab DEF ClientInv, StageInv, StageHolds, SawInv
<1>3. Matches \subseteq Nat /\ Listed \subseteq Matches
  BY DEF ClientInv, ClientTypes, Matches, Listed, InLobby
<1>4. ASSUME NEW m \in Found(t), Goes(t, [tabs[t] EXCEPT !.pc = "build", !.calls = joinMatch, !.match = m])
      PROVE  ClientInv'
  <2> DEFINE new == [tabs[t] EXCEPT !.pc = "build", !.calls = joinMatch, !.match = m]
  <2>1. m \in Nat
    BY <1>3 DEF Found
  <2>2. /\ new \in FlowType /\ new.pc = "build" /\ new.flow = tabs[t].flow
        /\ new.saw = tabs[t].saw /\ new.bet = tabs[t].bet
    BY <1>2, <2>1, EntryPoints DEF FlowType
  <2> HIDE DEF new
  <2>3. StageHolds(new) /\ Unfit(new.saw, owner[t], new.bet)
    BY <1>2, <2>2 DEF StageHolds
  <2>4. Goes(t, new)
    BY <1>4 DEF new
  <2> QED BY <1>1, <2>2, <2>3, <2>4, TabGoesOn
<1>5. ASSUME Found(t) = {},
             Goes(t, [tabs[t] EXCEPT !.pc = "build", !.saw = {m \in Listed : lobby[m] = "open"}])
      PROVE  ClientInv'
  <2> DEFINE saw == {m \in Listed : lobby[m] = "open"}
             new == [tabs[t] EXCEPT !.pc = "build", !.saw = saw]
  <2>1. saw \in SUBSET Nat /\ Unfit(saw, owner[t], tabs[t].bet)
    BY <1>3, <1>5, NothingFound DEF ClientInv
  <2>2. Goes(t, new)
    BY <1>5
  <2> HIDE DEF saw
  <2>3. /\ new \in FlowType /\ new.pc = "build" /\ new.flow = tabs[t].flow
        /\ new.saw = saw /\ new.bet = tabs[t].bet
    BY <1>2, <2>1 DEF FlowType
  <2> HIDE DEF new
  <2>4. StageHolds(new) /\ Unfit(new.saw, owner[t], new.bet)
    BY <1>2, <2>1, <2>3 DEF StageHolds
  <2> QED BY <1>1, <2>2, <2>3, <2>4, TabGoesOn
<1>6. ASSUME Goes(t, [tabs[t] EXCEPT !.pc = "build"])
      PROVE  ClientInv'
  <2> DEFINE new == [tabs[t] EXCEPT !.pc = "build"]
  <2>1. /\ new \in FlowType /\ new.pc = "build" /\ new.flow = tabs[t].flow
        /\ new.saw = tabs[t].saw /\ new.bet = tabs[t].bet
    BY <1>2 DEF FlowType
  <2> HIDE DEF new
  <2>2. StageHolds(new) /\ Unfit(new.saw, owner[t], new.bet)
    BY <1>2, <2>1 DEF StageHolds
  <2>3. Goes(t, new)
    BY <1>6 DEF new
  <2> QED BY <1>1, <2>1, <2>2, <2>3, TabGoesOn
<1> QED BY <1>4, <1>5, <1>6 DEF Searches

\* It builds, simulates, signs and submits the next call.
LEMMA BuildsRight ==
  ASSUME ClientInv, NEW t \in Tabs, Builds(t)
  PROVE  ClientInv'
<1>1. Busy(t) /\ tabs[t].pc = "build" /\ UNCHANGED <<owner, chainVars, cut>>
  BY DEF Builds, Busy
<1>2. tabs[t] \in FlowType /\ Untried(tabs[t].flow) /\ Unfit(tabs[t].saw, owner[t], tabs[t].bet)
  BY <1>1, BusyTab DEF ClientInv, StageInv, StageHolds, SawInv
<1>3. CASE Refused(t)
  BY <1>1, <1>2, <1>3, UntriedSays, RefusedRight
<1>4. CASE Goes(t, [tabs[t] EXCEPT !.pc = "sign", !.seq = account[owner[t]].seq + 1]) /\ UNCHANGED told
  <2> DEFINE seq == account[owner[t]].seq + 1
             new == [tabs[t] EXCEPT !.pc = "sign", !.seq = seq]
  <2>1. seq \in Nat
    BY DEF ClientInv, ClientTypes
  <2>2. Goes(t, new)
    BY <1>4
  <2> HIDE DEF seq
  <2>3. /\ new \in FlowType /\ new.pc = "sign" /\ new.flow = tabs[t].flow
        /\ new.saw = tabs[t].saw /\ new.bet = tabs[t].bet
    BY <1>2, <2>1 DEF FlowType
  <2> HIDE DEF new
  <2>4. StageHolds(new) /\ Unfit(new.saw, owner[t], new.bet)
    BY <1>2, <2>3 DEF StageHolds
  <2> QED BY <1>1, <1>4, <2>2, <2>3, <2>4, TabGoesOn
<1> QED BY <1>3, <1>4 DEF Builds

\* It is told that the call succeeded.
LEMMA ConfirmedRight ==
  ASSUME ClientInv, NEW t \in Tabs, Confirmed(t)
  PROVE  ClientInv'
<1>1. Busy(t) /\ tabs[t].pc = "poll" /\ UNCHANGED <<owner, chainVars, cut>>
  BY DEF Confirmed, Busy
<1>2. tabs[t] \in FlowType /\ Unfit(tabs[t].saw, owner[t], tabs[t].bet) /\ tabs[t].calls \in Calls
  BY <1>1, BusyTab DEF ClientInv, SawInv, FlowType
<1>3. PICK r \in Results(t, TRUE) :
        IF Len(tabs[t].calls) > 1
        THEN Goes(t, [tabs[t] EXCEPT !.pc = "build", !.calls = Tail(@)]) /\ UNCHANGED told
        ELSE IF r.call \in {"create_match", "join_match"}
        THEN Goes(t, [tabs[t] EXCEPT !.pc = "wait", !.match = r.match]) /\ UNCHANGED told
        ELSE Goes(t, NoFlow) /\ Says(tabs[t].flow, "done")
  BY DEF Confirmed
<1>4. CASE Len(tabs[t].calls) > 1
  <2> DEFINE rest == Tail(tabs[t].calls)
             new  == [tabs[t] EXCEPT !.pc = "build", !.calls = rest]
  <2>1. Head(tabs[t].calls) = "approve" /\ rest \in Calls
    BY <1>2, <1>4, CallsType
  <2>2. Goes(t, new) /\ UNCHANGED told
    BY <1>2, <1>3, <1>4 DEF FlowType
  <2>3. Untried(tabs[t].flow)
    BY <1>1, <2>1 DEF ClientInv, StageInv, StageHolds
  <2> HIDE DEF rest
  <2>4. /\ new \in FlowType /\ new.pc = "build" /\ new.flow = tabs[t].flow
        /\ new.saw = tabs[t].saw /\ new.bet = tabs[t].bet
    BY <1>2, <2>1 DEF FlowType
  <2> HIDE DEF new
  <2>5. StageHolds(new) /\ Unfit(new.saw, owner[t], new.bet)
    BY <1>2, <2>3, <2>4 DEF StageHolds
  <2> QED BY <1>1, <2>2, <2>4, <2>5, TabGoesOn
<1>5. CASE ~(Len(tabs[t].calls) > 1)
  <2>1. Head(tabs[t].calls) # "approve"
    BY <1>2, <1>5, CallsType DEF Last
  <2>2. tabs[t].flow \in Landed
    BY <1>1, <2>1, ResultsSay
  <2>3. CASE r.call \in {"create_match", "join_match"}
    <3> DEFINE new == [tabs[t] EXCEPT !.pc = "wait", !.match = r.match]
    <3>1. r.match \in Nat
      BY DEF ClientInv, ClientTypes, Results
    <3>2. Goes(t, new) /\ UNCHANGED told
      BY <1>3, <1>5, <2>3
    <3>3. /\ new \in FlowType /\ new.pc = "wait" /\ new.flow = tabs[t].flow
          /\ new.saw = tabs[t].saw /\ new.bet = tabs[t].bet /\ new.calls = tabs[t].calls
      BY <1>2, <3>1 DEF FlowType
    <3> HIDE DEF new
    <3>4. StageHolds(new) /\ Unfit(new.saw, owner[t], new.bet)
      BY <1>2, <2>1, <2>2, <3>3 DEF StageHolds
    <3> QED BY <1>1, <3>2, <3>3, <3>4, TabGoesOn
  <2>4. CASE r.call \notin {"create_match", "join_match"}
    <3>1. Goes(t, NoFlow) /\ Says(tabs[t].flow, "done")
      BY <1>3, <1>5, <2>4
    <3> QED BY <1>1, <2>2, <3>1, TabEnds DEF Said
  <2> QED BY <2>3, <2>4
<1> QED BY <1>4, <1>5

\* A call is signed, at the sequence number its account had when it was built, or declined.
LEMMA SignsRight ==
  ASSUME ClientInv, NEW t \in Tabs, Signs(t)
  PROVE  ClientInv'
<1>1. Busy(t) /\ tabs[t].pc = "sign" /\ UNCHANGED <<owner, account, matches, applied, cut>>
  BY DEF Signs, Busy
<1>2. tabs[t] \in FlowType /\ Untried(tabs[t].flow) /\ Unfit(tabs[t].saw, owner[t], tabs[t].bet)
  BY <1>1, BusyTab DEF ClientInv, StageInv, StageHolds, SawInv
<1>3. CASE Refused(t) /\ UNCHANGED network
  BY <1>1, <1>2, <1>3, UntriedSays, RefusedRight DEF chainVars
<1> DEFINE new  == [tabs[t] EXCEPT !.pc = "poll"]
           sent == Sent(t)
<1>4. /\ new \in FlowType /\ new.pc = "poll" /\ new.flow = tabs[t].flow
      /\ new.saw = tabs[t].saw /\ new.bet = tabs[t].bet /\ new.calls = tabs[t].calls
  BY <1>2 DEF FlowType
<1>5. Unfit(new.saw, owner[t], new.bet)
  BY <1>2, <1>4
<1>6. CASE Goes(t, new) /\ UNCHANGED told /\ UNCHANGED network
  <2> HIDE DEF new
  <2>1. StageHolds(new)
    BY <1>2, <1>4 DEF StageHolds
  <2> QED BY <1>1, <1>4, <1>5, <1>6, <2>1, TabGoesOn DEF chainVars
<1>7. CASE Goes(t, new) /\ UNCHANGED told /\ network' = network \cup {sent}
  <2>1. /\ sent \in SentType /\ sent.flow = tabs[t].flow /\ sent.call = Head(tabs[t].calls)
        /\ sent.who = owner[t] /\ sent.bet = tabs[t].bet /\ sent.saw = tabs[t].saw
    <3>1. Head(tabs[t].calls) \in Call /\ owner[t] \in Players
      BY <1>2, CallsType DEF FlowType, ClientInv, ClientTypes
    <3> QED BY <1>2, <3>1 DEF Sent, SentType, FlowType
  <2> HIDE DEF new, sent
  <2>2. tabs' = [tabs EXCEPT ![t] = new] /\ tabs \in [Tabs -> {NoFlow} \cup FlowType]
    BY <1>7 DEF Goes, ClientInv, ClientTypes
  <2>3. /\ tabs' \in [Tabs -> {NoFlow} \cup FlowType]
        /\ tabs'[t] = new /\ \A u \in Tabs \ {t} : tabs'[u] = tabs[u]
    BY <1>4, <2>2
  <2>4. ClientTypes'
    BY <1>1, <1>7, <2>1, <2>3 DEF ClientInv, ClientTypes
  <2>5. tabs[t].flow \in Flows /\ told[tabs[t].flow] = "busy"
    BY <1>1 DEF ClientInv, TabsInv
  <2>6. /\ \A u \in Tabs : tabs'[u].pc # "idle" => tabs[u].pc # "idle"
        /\ \A u \in Tabs : tabs'[u].pc # "idle" => tabs'[u].flow = tabs[u].flow
    BY <1>1, <1>4, <2>3 DEF Busy
  <2>7. TabsInv' /\ Flows' = Flows
    BY <1>7, <2>6 DEF ClientInv, TabsInv, Busy, Flows
  <2>8. OnceInv'
    <3>1. /\ \A c \in network : c.flow = sent.flow => c.call = "approve"
          /\ \A r \in applied : r.flow = sent.flow => r.call = "approve"
      BY <1>2, <2>1 DEF Untried, Pending, Ended
    <3>2. /\ \A c \in network' : c.flow \in Flows
          /\ \A r \in applied : r.flow \in Flows
      BY <1>7, <2>1, <2>5 DEF ClientInv, OnceInv
    <3>3. \A c, d \in network' : c.flow = d.flow /\ {c.call, d.call} \subseteq Last => c = d
      BY <1>7, <3>1 DEF ClientInv, OnceInv, Last
    <3>4. \A c \in network', r \in applied : c.flow = r.flow => "approve" \in {c.call, r.call}
      BY <1>7, <3>1 DEF ClientInv, OnceInv
    <3>5. \A r, s \in applied : r.flow = s.flow /\ {r.call, s.call} \subseteq Last => r.ok = s.ok
      BY DEF ClientInv, OnceInv
    <3> QED BY <1>1, <2>7, <3>2, <3>3, <3>4, <3>5 DEF OnceInv
  <2>9. StageInv'
    <3>1. ASSUME NEW f, Untried(f), f # sent.flow \/ sent.call = "approve"
          PROVE  Untried(f)'
      BY <1>1, <1>7, <3>1 DEF Untried, Pending, Ended
    <3>2. Landed' = Landed
      BY <1>1 DEF Landed
    <3>3. ASSUME NEW u \in Tabs, u # t, tabs[u].pc # "idle"
          PROVE  tabs[u].flow # sent.flow
      BY <1>1, <2>1, <3>3 DEF ClientInv, TabsInv, Busy
    <3>4. ASSUME NEW u \in Tabs, u # t
          PROVE  StageHolds(tabs[u])'
      <4>1. tabs'[u] = tabs[u] /\ StageHolds(tabs[u])
        BY <2>3, <3>4 DEF ClientInv, StageInv
      <4> QED BY <3>1, <3>2, <3>3, <3>4, <4>1 DEF StageHolds
    <3>5. StageHolds(tabs[t])'
      <4>1. \A f : f = sent.flow /\ sent.call = "approve" => Untried(f)'
        BY <1>2, <2>1, <3>1
      <4>2. /\ tabs'[t].pc = "poll" /\ tabs'[t].flow = sent.flow
            /\ Head(tabs'[t].calls) = sent.call
        BY <1>4, <2>1, <2>3
      <4> QED BY <4>1, <4>2 DEF StageHolds
    <3> QED BY <3>4, <3>5 DEF StageInv
  <2>10. SawInv'
    <3>1. \A u \in Tabs : tabs'[u].pc # "idle" => Unfit(tabs'[u].saw, owner[u], tabs'[u].bet)
      BY <1>5, <2>3 DEF ClientInv, SawInv, Busy
    <3>2. \A c \in network' : Unfit(c.saw, c.who, c.bet)
      BY <1>2, <1>7, <2>1 DEF ClientInv, SawInv
    <3> QED BY <1>1, <3>1, <3>2 DEF ClientInv, SawInv, Unfit, Busy, Matches
  <2>11. PageTellsTheTruth'
    <3>1. Landed' = Landed
      BY <1>1 DEF Landed
    <3>2. \A f \in Flows : told[f] = "failed" => f # sent.flow
      BY <2>1, <2>5
    <3> QED BY <1>1, <1>7, <2>7, <3>1, <3>2 DEF ClientInv, PageTellsTheTruth
  <2> QED BY <2>4, <2>7, <2>8, <2>9, <2>10, <2>11 DEF ClientInv
<1> QED BY <1>3, <1>6, <1>7 DEF Signs

\* The ways in which a submission ends or its wait does.
LEMMA EndsRight ==
  ASSUME ClientInv, NEW t \in Tabs,
         \/ Declines(t) \/ FailedOnChain(t) \/ TimesOut(t) \/ Waited(t)
         \/ RequestFails(t) \/ Reloaded(t)
  PROVE  ClientInv'
<1>1. Busy(t) /\ UNCHANGED <<owner, chainVars>>
  BY DEF Declines, FailedOnChain, TimesOut, Waited, RequestFails, Reloaded, Busy
<1>2. StageHolds(tabs[t]) /\ tabs[t] \in FlowType
  BY <1>1, BusyTab DEF ClientInv, StageInv
<1>3. /\ tabs[t].pc \in {"search", "build", "sign"} \/ Head(tabs[t].calls) = "approve" =>
           tabs[t].flow \notin Landed /\ Pending(tabs[t].flow) = {}
      /\ tabs[t].pc = "wait" => tabs[t].flow \in Landed
  BY <1>2, UntriedSays DEF StageHolds, FlowType
<1>4. CASE Declines(t)
  BY <1>1, <1>3, <1>4, RefusedRight DEF Declines
<1>5. CASE FailedOnChain(t)
  <2>1. tabs[t].flow \notin Landed /\ Pending(tabs[t].flow) = {}
    BY <1>1, <1>3, <1>5, ResultsSay DEF FailedOnChain
  <2> QED BY <1>1, <1>5, <2>1, RefusedRight DEF FailedOnChain
<1>6. CASE TimesOut(t) \/ RequestFails(t)
  <2>1. tabs[t].pc \in {"build", "sign", "poll"} /\ Refused(t) /\ GivesUp(t)
    BY <1>6 DEF TimesOut, RequestFails
  <2>2. cut \subseteq cut' /\ (tabs[t].flow \notin cut' =>
                                tabs[t].pc # "poll" \/ Head(tabs[t].calls) = "approve")
    BY <2>1 DEF GivesUp
  <2> QED BY <1>1, <1>3, <2>1, <2>2, RefusedRight
<1>7. CASE Waited(t)
  <2> DEFINE what == IF Awaited(t) THEN "done" ELSE "early"
  <2>1. Goes(t, NoFlow) /\ Says(tabs[t].flow, what) /\ tabs[t].pc = "wait" /\ UNCHANGED cut
    BY <1>7 DEF Waited
  <2>2. what \in {"done", "early"} /\ what \in Said \ {"busy"} /\ what # "failed"
    BY DEF Said
  <2> HIDE DEF what
  <2> QED BY <1>1, <1>3, <2>1, <2>2, TabEnds
<1>8. CASE Reloaded(t)
  <2>1. Goes(t, NoFlow) /\ Says(tabs[t].flow, "nothing") /\ UNCHANGED cut
    BY <1>8 DEF Reloaded
  <2>2. "nothing" \in Said \ {"busy", "done", "early", "failed"}
    BY DEF Said
  <2> QED BY <1>1, <2>1, <2>2, TabEnds
<1> QED BY <1>4, <1>5, <1>6, <1>7, <1>8

\* The buttons of the pages.
LEMMA SubmitsRight ==
  ASSUME ClientInv, NEW t \in Tabs,
         \/ \E bet \in Bets : FindsOrCreates(t, bet)
         \/ \E m \in Matches : Disputes(t, m) \/ Resolves(t, m) \/ \E bet \in Bets : PlacesBet(t, m, bet)
  PROVE  ClientInv'
<1>1. Bets \subseteq Nat /\ Matches \subseteq Nat
  BY ClientAssumption DEF ClientInv, ClientTypes, Matches
<1>2. {createMatch, placeTrade, dispute, resolveDispute} \subseteq Calls
  BY EntryPoints
<1>3. PICK pc \in {"search", "build"}, calls \in Calls, m \in Nat, bet \in Nat :
        Submits(t, pc, calls, m, bet)
  BY <1>1, <1>2 DEF FindsOrCreates, Disputes, Resolves, PlacesBet
<1> QED BY <1>3, Submitted
-----------------------------------------------------------------------------
(* The theorems *)

\* No tab is busy and nothing has been submitted.
LEMMA ClientInit ==
  Init => ClientInv
<1> SUFFICES ASSUME Init PROVE ClientInv
  OBVIOUS
<1>1. matches \in Seq(GameType) /\ \A m \in Matches : matches[m].saw = {}
  <2>1. CASE matches = <<>>
    BY <2>1 DEF Matches
  <2>2. CASE matches # <<>>
    <3>1. PICK pair \in Opponents, bet \in Bets, status \in {"active", "submitted", "disputed"} :
            matches = <<[a |-> pair[1], b |-> pair[2], bet |-> bet, status |-> status,
                         locked |-> FALSE, saw |-> {}]>>
      BY <2>2 DEF Init
    <3> DEFINE game == [a |-> pair[1], b |-> pair[2], bet |-> bet, status |-> status,
                        locked |-> FALSE, saw |-> {}]
    <3>2. game \in GameType /\ game.saw = {}
      <4>1. pair[1] \in Players /\ pair[2] \in Players
        BY ClientAssumption
      <4> QED BY <4>1, ClientAssumption DEF GameType
    <3>3. matches = <<game>>
      BY <3>1
    <3> HIDE DEF game
    <3> QED BY <3>2, <3>3 DEF Matches
  <2> QED BY <2>1, <2>2
<1>2. owner \in [Tabs -> Players] /\ DOMAIN account = Players /\ \A x \in Players : account[x].seq \in Nat
  BY ClientAssumption DEF Init
<1>3. /\ network = {} /\ applied = {} /\ told = <<>> /\ tabs = [t \in Tabs |-> NoFlow]
      /\ \A t \in Tabs : tabs[t] = NoFlow
  BY DEF Init
<1>4. ClientTypes
  BY <1>1, <1>2, <1>3 DEF ClientTypes
<1>5. TabsInv /\ OnceInv /\ StageInv
  BY <1>3 DEF TabsInv, OnceInv, StageInv, StageHolds, Busy, NoFlow
<1>6. PageTellsTheTruth
  BY <1>3 DEF PageTellsTheTruth, Flows
<1>7. SawInv
  BY <1>1, <1>3 DEF SawInv, Unfit, Busy, NoFlow
<1> QED BY <1>4, <1>5, <1>6, <1>7 DEF ClientInv

\* Every step keeps all parts.
LEMMA ClientStep ==
  ClientInv /\ [Next]_vars => ClientInv'
<1> SUFFICES ASSUME ClientInv, [Next]_vars PROVE ClientInv'
  OBVIOUS
<1>1. CASE \E c \in network : Applies(c) \/ Expires(c)
  BY <1>1, Applied, Expired
<1>2. CASE \E m \in Matches : MatchGoesOn(m)
  BY <1>2, GameWentOn
<1>3. CASE UNCHANGED <<owner, chainVars, pageVars>>
  <2>1. UNCHANGED <<owner, account, matches, network, applied, tabs, told, cut>>
    BY <1>3 DEF chainVars, pageVars
  <2> QED BY <2>1 DEF ClientInv, ClientTypes, TabsInv, OnceInv, StageInv, StageHolds, SawInv, Unfit, Busy,
                      Matches, Untried, Pending, Ended, PageTellsTheTruth, Flows, Landed
<1>4. CASE \E t \in Tabs : PageGoesOn(t)
  BY <1>4, SearchesRight, BuildsRight, ConfirmedRight, EndsRight DEF PageGoesOn
<1>5. CASE \E t \in Tabs : Signs(t) \/ Declines(t) \/ RequestFails(t) \/ Reloaded(t)
  BY <1>5, SignsRight, EndsRight
<1>6. CASE \E t \in Tabs :
             \/ \E bet \in Bets : FindsOrCreates(t, bet)
             \/ \E m \in Matches : Disputes(t, m) \/ Resolves(t, m) \/ \E bet \in Bets : PlacesBet(t, m, bet)
  BY <1>6, SubmitsRight
<1>7. CASE \E m \in Matches : Indexed(m)
  BY <1>3, <1>7 DEF Indexed
<1>8. CASE UNCHANGED vars
  BY <1>3, <1>8 DEF vars
<1> QED BY <1>1, <1>2, <1>4, <1>5, <1>6, <1>7, <1>8 DEF Next

\* So they always hold.
LEMMA ClientInvariant ==
  Spec => []ClientInv
BY ClientInit, ClientStep, PTL DEF Spec

\* With any number of tabs, accounts and submissions, and transactions that land whenever
\* they like: "done" is never said of a submission that was not made, nor an error shown of
\* one that was or will be, but for those cut off when their last transaction was sent.
THEOREM PagesTellTheTruth ==
  Spec => []PageTellsTheTruth
<1>1. ClientInv => PageTellsTheTruth
  BY DEF ClientInv
<1> QED BY <1>1, ClientInvariant, PTL

\* Of two open matches for one stake, the later one's creator had not read of the earlier.
THEOREM SearchersFindEachOther ==
  Spec => []SearchersMeet
<1>1. ClientInv => SearchersMeet
  BY DEF ClientInv, SawInv, Unfit, SearchersMeet
<1> QED BY <1>1, ClientInvariant, PTL
=============================================================================
