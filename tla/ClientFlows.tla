----------------------------- MODULE ClientFlows -----------------------------
(***************************************************************************)
(* What people do with their wallets in the browser: find or create a      *)
(* match, trade on one, dispute its result and, as the arbiter, decide it. *)
(* Each is a submission of one or two contract calls, every call built on  *)
(* the account as it is, simulated, signed, sent and polled for; a page    *)
(* that created or joined a match then waits for the relayer to know it.   *)
(*                                                                         *)
(* A signed transaction is on its own: it may be applied long after the    *)
(* page has given it up, and only if its sequence number is the account's  *)
(* next one.  The pages know of matches what the relayer has indexed.      *)
(*                                                                         *)
(* The allowance that approveUsdc sets is not kept here: no contract reads *)
(* it, since their transfers are authorised by the same signature.         *)
(***************************************************************************)
EXTENDS Integers, Sequences, FiniteSets

CONSTANTS
  Tabs, Players,
  Owners,         \* whose wallet may be connected in which tab
  Opponents,      \* who may be playing a match in the beginning: <<a, b>>
  Arbiter,        \* one of the players' addresses, or none of them
  Bets,           \* amounts that are played for
  Balance,        \* what each player has in the beginning, in USDC
  MaxSubmits,     \* bound: submissions
  LOBBY_LIMIT     \* matches in one answer of GET /matches (50)

ASSUME ClientAssumption ==
  /\ Owners \subseteq [Tabs -> Players]
  /\ \A pair \in Opponents : pair \in Players \X Players /\ pair[1] # pair[2]
  /\ Bets \subseteq Nat \ {0}
  /\ Balance \in [Players -> Nat]
  /\ {MaxSubmits, LOBBY_LIMIT} \subseteq Nat

VARIABLES
  owner,    \* whose wallet is connected in which tab
  account,  \* per player: the account's sequence number and its USDC
  matches,  \* the matches on the chain, in order; .saw (history): the open matches in the
            \* answer that its creator's page had searched
  lobby,    \* the status that the relayer knows for each
  network,  \* signed transactions that are sent and neither applied nor expired
  applied,  \* transactions that are: .ok, or failed
  tabs,     \* the submission in each tab
  told,     \* history: what the page has said of each submission
  cut       \* history: those of which an error was shown while their last call was awaited

pageVars  == <<tabs, told, cut>>
chainVars == <<account, matches, network, applied>>
vars == <<owner, chainVars, lobby, pageVars>>

Nobody  == "nobody"
NoFlow  == [pc |-> "idle"]
Flows   == 1 .. Len(told)
Matches == DOMAIN matches

\* The entry points of lib/contracts.ts: the calls that each of them makes, one
\* after the other.
approveUsdc    == <<"approve">>
createMatch    == approveUsdc \o <<"create_match">>
joinMatch      == approveUsdc \o <<"join_match">>
placeTrade     == approveUsdc \o <<"buy_outcome">>
dispute        == <<"dispute">>
resolveDispute == <<"resolve_dispute">>

\* In the beginning there is no match, or one that is played, or whose result is
\* reported or disputed; the tabs are one player's or several players'.
Init ==
  /\ owner \in Owners
  /\ account = [p \in Players |-> [seq |-> 0, usdc |-> Balance[p]]]
  /\ \/ matches = <<>>
     \/ \E pair \in Opponents, bet \in Bets, status \in {"active", "submitted", "disputed"} :
          matches = <<[a |-> pair[1], b |-> pair[2], bet |-> bet, status |-> status,
                       locked |-> FALSE, saw |-> {}]>>
  /\ lobby = [m \in Matches |-> matches[m].status]
  /\ network = {} /\ applied = {}
  /\ tabs = [t \in Tabs |-> NoFlow]
  /\ told = <<>> /\ cut = {}

Goes(t, flow) == tabs' = [tabs EXCEPT ![t] = flow]
Says(f, what) == told' = [told EXCEPT ![f] = what]

\* An error is shown, whatever it is of, and the form can be submitted again.
Refused(t) ==
  /\ Goes(t, NoFlow)
  /\ Says(tabs[t].flow, "failed")

\* What has been sent stays sent when the page awaits its answer no longer.
GivesUp(t) ==
  cut' = IF tabs[t].pc = "poll" /\ Head(tabs[t].calls) # "approve" THEN cut \cup {tabs[t].flow} ELSE cut
-----------------------------------------------------------------------------
(* The contracts, and the relayer's index of their matches *)

\* Would this call succeed now?
Accepts(c) ==
  CASE c.call = "approve"         -> TRUE
    [] c.call = "create_match"    -> account[c.who].usdc >= c.bet
    [] c.call = "join_match"      -> /\ matches[c.match].status = "open" /\ matches[c.match].a # c.who
                                     /\ account[c.who].usdc >= matches[c.match].bet
    [] c.call = "buy_outcome"     -> /\ matches[c.match].status \notin {"open", "settled"}
                                     /\ ~matches[c.match].locked /\ account[c.who].usdc >= c.bet
    [] c.call = "dispute"         -> /\ matches[c.match].status = "submitted"
                                     /\ c.who \in {matches[c.match].a, matches[c.match].b, Arbiter}
    [] c.call = "resolve_dispute" -> matches[c.match].status = "disputed" /\ c.who = Arbiter

Pays(c) == IF c.call \in {"create_match", "buy_outcome"} THEN c.bet
           ELSE IF c.call = "join_match" THEN matches[c.match].bet ELSE 0

Effect(c, who) ==
  matches' = CASE c.call = "create_match" ->
                    Append(matches, [a |-> who, b |-> Nobody, bet |-> c.bet, status |-> "open",
                                     locked |-> FALSE, saw |-> c.saw])
               [] c.call = "join_match" -> [matches EXCEPT ![c.match].b = who, ![c.match].status = "active"]
               [] c.call = "dispute" -> [matches EXCEPT ![c.match].status = "disputed"]
               [] c.call = "resolve_dispute" -> [matches EXCEPT ![c.match].status = "settled"]
               [] OTHER -> matches

\* A transaction is applied, if it is the account's next one, with or without
\* success; it is not if it is too late, or if another took its number.
Applies(c) ==
  /\ c.seq = account[c.who].seq + 1
  /\ network' = network \ {c}
  /\ LET ok == Accepts(c) IN
     /\ applied' = applied \cup {[flow |-> c.flow, call |-> c.call, ok |-> ok,
                                   match |-> IF c.call = "create_match" THEN Len(matches) + 1 ELSE c.match]}
     /\ account' = [account EXCEPT ![c.who] = [seq |-> @.seq + 1, usdc |-> @.usdc - IF ok THEN Pays(c) ELSE 0]]
     /\ IF ok THEN Effect(c, c.who) ELSE UNCHANGED matches
     /\ lobby' = IF ok /\ c.call = "create_match" THEN Append(lobby, "none") ELSE lobby
  /\ UNCHANGED <<owner, pageVars>>

Expires(c) ==
  /\ network' = network \ {c}
  /\ UNCHANGED <<owner, account, matches, applied, lobby, pageVars>>

\* The relayer's own transactions: an evaluation locks the market, the result is
\* reported, and the keeper finalizes it when nobody has disputed it before its window
\* elapsed.
LocksMarket(m) ==
  /\ matches[m].status # "open" /\ ~matches[m].locked
  /\ matches' = [matches EXCEPT ![m].locked = TRUE]

PostsResult(m) == matches[m].status = "active" /\ matches' = [matches EXCEPT ![m].status = "submitted"]

WindowElapses(m) == matches[m].status = "submitted" /\ matches' = [matches EXCEPT ![m].status = "elapsed"]

Finalizes(m) == matches[m].status = "elapsed" /\ matches' = [matches EXCEPT ![m].status = "settled"]

MatchGoesOn(m) ==
  /\ LocksMarket(m) \/ PostsResult(m) \/ WindowElapses(m) \/ Finalizes(m)
  /\ UNCHANGED <<owner, account, network, applied, lobby, pageVars>>

\* The end of a window is no event, and nothing that the relayer tells a page.
Known(status) == IF status = "elapsed" THEN "submitted" ELSE status

Indexed(m) ==
  /\ lobby[m] # Known(matches[m].status)
  /\ lobby' = [lobby EXCEPT ![m] = Known(matches[m].status)]
  /\ UNCHANGED <<owner, chainVars, pageVars>>
-----------------------------------------------------------------------------
(* The pages: create, BetForm, DisputeButton and the arbiter's *)

\* A submission starts with its first call; busy forms take no other one.
Submits(t, pc, calls, m, bet) ==
  /\ tabs[t].pc = "idle" /\ Len(told) < MaxSubmits
  /\ Goes(t, [pc |-> pc, calls |-> calls, match |-> m, bet |-> bet, saw |-> {}, seq |-> 0,
              flow |-> Len(told) + 1])
  /\ told' = Append(told, "busy")
  /\ UNCHANGED <<owner, chainVars, lobby, cut>>

\* handleSubmit of the create page.
FindsOrCreates(t, bet) == Submits(t, "search", createMatch, 0, bet)

\* placeBet, on the page of a match that the relayer shows.
PlacesBet(t, m, bet) == lobby[m] # "none" /\ Submits(t, "build", placeTrade, m, bet)

\* submit of the DisputeButton, on a player's page.
Disputes(t, m) ==
  /\ lobby[m] = "submitted" /\ owner[t] \in {matches[m].a, matches[m].b}
  /\ Submits(t, "build", dispute, m, 0)

\* The rows of the arbiter's page, which reads them once: a dispute that is shown may
\* have been resolved since.
DisputeShown(t, m) == owner[t] = Arbiter /\ lobby[m] \in {"disputed", "settled"}

\* resolve of a DisputeRow.
Resolves(t, m) ==
  /\ DisputeShown(t, m)
  /\ Submits(t, "build", resolveDispute, m, 0)

\* listLobbyGames: the newest matches that are not finished.
InLobby == {m \in Matches : lobby[m] \in {"open", "active"}}
Listed  == {m \in InLobby : Cardinality({n \in InLobby : n > m}) < LOBBY_LIMIT}

\* Mutant of Compatible: the amount asked for is taken for an upper bound that
\* is not reached.
CheaperOnly(m, t) == lobby[m] = "open" /\ matches[m].a # owner[t] /\ matches[m].bet < tabs[t].bet

Compatible(m, t) == lobby[m] = "open" /\ matches[m].a # owner[t] /\ matches[m].bet = tabs[t].bet

\* The match that is found, if there is one: the first in the list.
Found(t) ==
  LET compatible == {m \in Listed : Compatible(m, t)} IN
  {m \in compatible : \A n \in compatible : n <= m}

\* findCompatibleOpenMatch: an error counts as none.
Searches(t) ==
  /\ tabs[t].pc = "search"
  /\ \/ /\ \E m \in Found(t) : Goes(t, [tabs[t] EXCEPT !.pc = "build", !.calls = joinMatch, !.match = m])
     \/ /\ Found(t) = {}
        /\ Goes(t, [tabs[t] EXCEPT !.pc = "build",
                                   !.saw = {m \in Listed : lobby[m] = "open"}])
     \/ Goes(t, [tabs[t] EXCEPT !.pc = "build"])
  /\ UNCHANGED <<owner, chainVars, lobby, told, cut>>
-----------------------------------------------------------------------------
(* invokeWithWallet *)

\* The call that the page makes next, as a transaction.
Sent(t) == [who |-> owner[t], seq |-> tabs[t].seq, flow |-> tabs[t].flow, call |-> Head(tabs[t].calls),
            match |-> tabs[t].match, bet |-> tabs[t].bet, saw |-> tabs[t].saw]

\* getAccount and simulateTransaction.
Builds(t) ==
  /\ tabs[t].pc = "build"
  /\ IF Accepts(Sent(t))
     THEN Goes(t, [tabs[t] EXCEPT !.pc = "sign", !.seq = account[owner[t]].seq + 1]) /\ UNCHANGED told
     ELSE Refused(t)
  /\ UNCHANGED <<owner, chainVars, lobby, cut>>

\* signTransaction and sendTransaction: a number that is used up is an error;
\* while another transaction of the account waits, this one may be put off.
Signs(t) ==
  /\ tabs[t].pc = "sign"
  /\ IF tabs[t].seq <= account[owner[t]].seq
     THEN Refused(t) /\ UNCHANGED network
     ELSE /\ Goes(t, [tabs[t] EXCEPT !.pc = "poll"]) /\ UNCHANGED told
          /\ \/ network' = network \cup {Sent(t)}
             \/ (\E c \in network : c.who = owner[t]) /\ UNCHANGED network
  /\ UNCHANGED <<owner, account, matches, applied, lobby, cut>>

Declines(t) == tabs[t].pc = "sign" /\ Refused(t) /\ UNCHANGED <<owner, chainVars, lobby, cut>>

Results(t, ok) == {r \in applied : r.flow = tabs[t].flow /\ r.call = Head(tabs[t].calls) /\ r.ok = ok}

\* The call is confirmed: the next one is made, or that was the last one.
Confirmed(t) ==
  /\ tabs[t].pc = "poll"
  /\ \E r \in Results(t, TRUE) :
       IF Len(tabs[t].calls) > 1
       THEN Goes(t, [tabs[t] EXCEPT !.pc = "build", !.calls = Tail(@)]) /\ UNCHANGED told
       ELSE IF r.call \in {"create_match", "join_match"}
       THEN Goes(t, [tabs[t] EXCEPT !.pc = "wait", !.match = r.match]) /\ UNCHANGED told
       ELSE Goes(t, NoFlow) /\ Says(tabs[t].flow, "done")
  /\ UNCHANGED <<owner, chainVars, lobby, cut>>

\* waitForMatch, waitForActiveMatch: what the page waits for, after create_match
\* and after join_match.
Awaited(t) == IF Head(tabs[t].calls) = "create_match" THEN lobby[tabs[t].match] # "none"
              ELSE lobby[tabs[t].match] = "active"

\* The page goes to its match when it is known, or when the tries are used up.
Waited(t) ==
  /\ tabs[t].pc = "wait"
  /\ Goes(t, NoFlow)
  /\ Says(tabs[t].flow, IF Awaited(t) THEN "done" ELSE "early")
  /\ UNCHANGED <<owner, chainVars, lobby, cut>>

FailedOnChain(t) ==
  /\ tabs[t].pc = "poll" /\ Results(t, FALSE) # {} /\ Refused(t)
  /\ UNCHANGED <<owner, chainVars, lobby, cut>>

\* Mutants: the page is content with a transaction that it has sent, or keeps
\* asking for one.
TimesOutDone(t) ==
  /\ tabs[t].pc = "poll" /\ Results(t, TRUE) \cup Results(t, FALSE) = {}
  /\ Goes(t, NoFlow) /\ Says(tabs[t].flow, "done")
  /\ UNCHANGED <<owner, chainVars, lobby, cut>>

PollsOn(t) ==
  /\ tabs[t].pc = "poll" /\ Results(t, TRUE) \cup Results(t, FALSE) = {}
  /\ UNCHANGED vars

\* CONFIRM_TIMEOUT_MS: an error like any other, though the transaction may still be
\* applied.
TimesOut(t) ==
  /\ tabs[t].pc = "poll" /\ Results(t, TRUE) \cup Results(t, FALSE) = {}
  /\ Refused(t) /\ GivesUp(t)
  /\ UNCHANGED <<owner, chainVars, lobby>>

\* A request to the RPC server fails: what the page shows of it does not say whether
\* the transaction had been sent.
RequestFails(t) ==
  /\ tabs[t].pc \in {"build", "sign", "poll"}
  /\ Refused(t) /\ GivesUp(t)
  /\ UNCHANGED <<owner, chainVars, lobby>>

\* The page is reloaded, or left: it says nothing more.
Reloaded(t) ==
  /\ tabs[t].pc # "idle"
  /\ Goes(t, NoFlow) /\ Says(tabs[t].flow, "nothing")
  /\ UNCHANGED <<owner, chainVars, lobby, cut>>

\* What a tab does without its user.
PageGoesOn(t) == Searches(t) \/ Builds(t) \/ Confirmed(t) \/ FailedOnChain(t) \/ TimesOut(t) \/ Waited(t)

Next ==
  \/ \E c \in network : Applies(c) \/ Expires(c)
  \/ \E m \in Matches : MatchGoesOn(m) \/ Indexed(m)
  \/ \E t \in Tabs :
       \/ PageGoesOn(t) \/ Signs(t) \/ Declines(t) \/ RequestFails(t) \/ Reloaded(t)
       \/ \E bet \in Bets : FindsOrCreates(t, bet)
       \/ \E m \in Matches : Disputes(t, m) \/ Resolves(t, m) \/ \E bet \in Bets : PlacesBet(t, m, bet)

Spec == Init /\ [][Next]_vars
=============================================================================
