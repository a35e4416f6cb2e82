# MateFi in TLA+

MateFi stakes USDC on chess games. Two players lock equal stakes in a match,
anyone may bet on the outcome in a parimutuel market, a relayer referees the
game off-chain and reports the winner, and five Soroban contracts hold the money
and pay it out after a challenge window in which the result can be disputed.

This directory models the system from its source, checks the models with TLC on
small instances, and proves the properties that matter most with TLAPS.

## 1. Inventory

| Part | Source | State | Operations | Talks to |
|---|---|---|---|---|
| MatchRegistry | `contracts/match_registry` | match records, counter | create, join, cancel, set_pending_finalization, set_disputed, complete | token, vault, pool (calls); called by Settlement |
| EscrowVault | `contracts/escrow_vault` | deposit record per match, one token account | record_deposit, add_bonus, release, release_draw, refund | token; called by registry, pool, Settlement |
| PredictionPool | `contracts/prediction_pool` | market per match, positions, one token account | open_market, buy_outcome, lock_market, settle, pay_trader | token, vault; called by registry, oracle, Settlement |
| OracleGateway | `contracts/oracle_gateway` | threshold, confirmations, streak per match | post_evaluation, post_result, set_threshold, set_confirmations | pool, Settlement; called by the relayer |
| Settlement | `contracts/settlement` | pending results, disputes, window, arbiter | submit_result, finalize, dispute, resolve_dispute, set_challenge_window, set_arbiter | registry, pool, vault |
| Game manager | `relayer/src/chess/gameManager.ts` | a GameState per live match, flag-fall timers | moves, flag fall, resignation, evaluation, rehydration | database, oracle, engine, WebSocket |
| Engine queue, anti-cheat | `relayer/src/chess/engine.ts`, `db/queries/antiCheat.ts` | job queue over one Stockfish process; analysis rows, flags | evaluate, time out; insert, aggregate, flag | game manager |
| Event listener, keeper, reconciler | `relayer/src/stellar`, `relayer/src/jobs` | polling cursor, seen ids, database mirror | poll, handle event, finalize due matches, pay traders, re-post results | RPC, database, game manager |
| WebSocket, REST | `relayer/src/websocket`, `relayer/src/api` | subscriptions | broadcast, queries, POST move | frontend |
| Match page | `frontend/src/hooks`, `app/match`, `components/board`, `components/trading` | record, live state, pools and odds | load, hear messages, reconnect, move | relayer |
| Wallet and transactions | `hooks/useWallet.ts`, `lib/contracts.ts`, `app/create`, `app/admin` | address, a submission per form | connect; pair, bet, dispute, resolve: build, sign, send, wait | wallet kit, RPC, relayer |
| History, lobby, XLM pages | `app/history`, `lib/stats.ts`, `app/lobby`, `app/wallet` | rows shown, record, payment | page, poll, pay | relayer, Freighter, Horizon |

What is hard. On-chain, a settlement is one transaction through four contracts
that each keep their own account of the match: one contradicting check freezes
the stakes for good; all matches share two token accounts; three divisions are
floored separately; finalize and dispute race at the end of a window that the
arbiter may change under a pending result. Off-chain, every handler of the game
manager is interrupted at each `await`, timers fire between, and the relayer may
crash anywhere; the engine answers late, events are read twice, confirmations do
not come; in the browser, snapshots, messages, wallets and transactions each
answer when they like. `PROJECT.json` lists these hazards at their lines, with the
properties that would catch them.

What makes each part correct. Registry: a match moves only along its lifecycle,
and its record agrees with every other contract's. Vault: its account holds
exactly what it owes, and a stake leaves only by a verdict. Pool: it can pay
every claim in every order, and keeps no more than rounding dust. Oracle: a
market is locked exactly when an advantage was sustained. Settlement: a pending
result can always be either disputed or finalized and never both, and its
cascade can always run. Game manager: one game ends once, with the winner the
board and the clock give, and the database and the chain agree on it. Engine: an
answer belongs to its question, and no request waits for ever. Listener: no event
is passed over, and the rows end up as the chain decided, replays and all. Pages:
what is shown is, or was, so, and is not taken back by something older.

## 2. Modules

On-chain, in the order they build on each other:

- `MateFiTypes` - accounts, outcomes, match states, the fee arithmetic.
- `MatchRegistry`, `EscrowVault`, `PredictionPool`, `OracleGateway`,
  `Settlement` - one per contract: its storage as variables, each entry point's
  effect on its own storage under the entry point's name in the source.
- `MateFiChain` - the contracts and the USDC token composed. One action is one
  transaction: an entry point with every cross-contract call it makes. A panic
  anywhere reverts all of it, so an action's guard is the conjunction of every
  check on the way, and a failed transaction is a stutter. `Cascade` is
  `run_cascade`: the pool settles and pays fees, the vault is credited the
  flywheel bonus and pays the players, the match completes, the result is
  forgotten. `Spec` is the specification the proofs are about.
- `MateFiSafety` - the invariants and action properties of `MateFiChain`.
- `Wager` - what users are promised, with no contracts in it: wallets, wagers,
  bets. A winner gets at least 97% of both stakes, a drawn player exactly the
  stake, a winning bet at least 97% of itself, and nothing else moves a wallet.
  `MateFiRefinement` maps the contracts onto it.
- `MateFiLiveness` - the fairness of keeper, arbiter and clock.
- `OracleHistory` - `MateFiChain` with the posted evaluations kept as a history,
  to state the lock rule without the streak counter that implements it.

Off-chain:

- `GameManager` - the relayer's game manager for one match: `gameManager.ts` with
  the database rows it writes, the `MatchActive` event that starts a game and the
  result it posts. Node runs a handler up to its next `await`, so a handler that
  waits is a member of `tasks`, and the action for its `pc` is what it does when
  the awaited call is over, together with the write it waited for. Every await at
  which another handler could see or change the game is such a point; two writes
  with nothing between them are one. Several `GameState` objects may exist,
  because `ensureGameLoaded` and `initGame` put a new one in the map while
  handlers and timers still hold the old one.
- `GameProperties` - what it promises, its fairness, and what its comments say.
- `EngineQueue` - `engine.ts` and what waits for it: the two analyses that a stored
  move starts, the rows they write, the anti-cheat flags. A position is a number
  of half-moves and an answer is the position it is about, so that an answer to
  another question can be told. `queue` is the chain of promises behind
  `evaluateExclusive`, `searches` what Stockfish has been sent and not finished: a
  search that timed out stays there, and its `bestmove` goes to whichever request
  then has its line handler installed. `EngineProperties` states what can be
  relied on all the same.
- `EventMirror` - one match as the relayer mirrors it: the chain's log of events,
  the poll with its cursor, page and seen ids, every handler with the rows it
  writes, the keeper, the reconciler, and the game manager as far as it posts and
  records the result. `MatchSettled` is the one handler with steps of its own
  (settlement, dispute row, payments), because others can act between them. The
  match itself is a summary of `MateFiChain`. `MirrorProperties` relates rows and
  chain.
- `MatchView` - the page of one match: rows and handlers of the relayer reduced to
  the order in which they write and broadcast what a page can see; the room's
  messages; `load`, whose snapshot is read in steps (`row`, `rest`, `reply`); the
  merge of snapshots into the live state; the visitor's move. `useAntiCheat` has
  its own socket, whose messages are heard or not. `ViewProperties` says what the
  visitor may rely on.
- `ClientFlows` - what people do with their wallets: a submission is one or two
  calls, each built on the account, simulated, signed, sent and polled for.
  `network` holds what was sent: it may be applied long after the page gave it up,
  in the order of sequence numbers only. Any request may fail at any time, and every
  error is shown in the same way; `cut` remembers, for the properties only, which of
  them were shown while the last call was awaited. The contracts are what they check
  and change here, the match on the chain goes on (locked, reported, window elapsed,
  finalized), and the relayer is an index (`lobby`) that lags. `ClientProperties`.
- `WalletStore`, `HistoryPage`, `TradingPanel`, `LobbyPage`, `XlmWallet` - the
  remaining pages and hooks, a module each, and `Pages`, which composes them: one
  page (`route`) is open at a time, as in the site; the wallet button of the layout
  is let act on the front page, where it is all there is, and on the history page,
  which reads the address. `HistoryPage` extends `WalletStore`; its `games` are in
  the order of completion, where a game goes to the front when it is completed
  again, and leaves when a late market lock takes its row for one that is played.
  `TradingPanel` spans the bet on the chain, the relayer's handler of its event with
  two contract reads, the message and the page's pools; `payout` and `get_odds` are
  the contract's. `PagesProperties`.

Proofs, a module each, which extends the properties it is about:

- `MateFiProofs` - the contracts, the oracle's history and the wager.
- `GameProofs`, `EngineProofs`, `MirrorProofs`, `ViewProofs`, `ClientProofs`,
  `PagesProofs` - the off-chain modules of these names.
- `FiniteSums` - least elements, sums of integer weights over finite sets, shares of
  a pot, folds: what the others cite, and the contracts' books and the site's pools
  and records are made of.

How state corresponds to the code, off-chain. `objects` are the `GameState`s and
`games` the map's entry; `ply` is the board and `end` whether it is mated or
drawn, `count` is `moveCount`, `locked`, `side` and `streak` the market-lock
fields, `timer` the ply at which the flag-fall timer was armed (`finishes` counts
calls of `finishMatch` and is read only to bound resignations). `row`, `moves`, `settlement` are the database, `chain` the result
on-chain. Clocks are not counted: a timer may fire and a move may come too late
at any moment, which includes every moment it really can. A recorded move is
taken to be legal in a replay when it is for the next ply; with games of two
plies that is exact for gaps and duplicates, whose mover has the wrong colour.

How state corresponds to the code, on-chain. `matches`, `records`, `markets`,
`positions`, `pendingResults` and `disputes` are the persistent entries keyed by
match id; a missing entry is the value a failed lookup finds (`NoMatch`,
`NoRecord`, ...). `threshold`, `confirmations`, `streak`, `challenge_window` and
`arbiter` are the instance entries of the same names. `balance` is the token.
The market's `pool_a`, `pool_b`, `pool_draw` are one function. `submitted_at` is
kept as the result's age, because the code only compares `now` with
`submitted_at + window`; `MaxWindow` is the age of a result at the last `u64`
timestamp, so a longer window is one whose deadline overflows and panics.
Amounts are integers; `MIN_BET` may be any number from 100 up, the source's
10,000,000 being one of them, and small ones make the same roundings happen.

## 3. Runs

- **chain** (`MCChain`, 125,475 states). One match, three interchangeable
  accounts that may each play, trade, dispute and arbitrate; stakes and bets of
  99 (refused), 117 and 118, which leave a remainder in every division; windows
  0 (refused), 1, 2 and 3, the last overflowing the deadline; an account can
  afford two bets. Checks the type invariant, agreement of the contracts,
  that a cascade can always run, the challenge window, three action properties, and
  that every step of the contracts is a step of `Wager`.
- **pair** (`MCPair`, 212,771 states). Two matches, two accounts, stakes of
  100 and bets of 117: vault and pool stay solvent although the two matches share
  their token accounts, where an error in one match's books would be paid by the
  other.
- **live** (`MCLive`). `FairSpec` on one match: every reported match is settled
  and paid. Fairness: time passes; `finalize` is permissionless and retried by
  `disputeWindowKeeper.ts`; the arbiter decides a dispute. No player, trader or
  oracle is fair, and the arbiter may keep changing the window as long as it does
  not overflow (`Windows = {1, 2}`): with an overflowing window and an arbiter
  who never lowers it, results do stay pending, which `WindowDecides` says.
- **oracle** (`MCOracle`). One match, scores on both sides of two thresholds and
  a mate, up to four evaluations (`MaxEvaluations`), confirmations 2 or 3,
  threshold and confirmations changing between evaluations, streak saturating at
  3 (`MaxStreak`): the market is locked exactly when the history calls for it.
- **game** (`MCGame`, 3.4 million states). Two `GameState`s, one move, one
  request that rebuilds the game, one restart, one kind of database write that
  fails, an engine that sees mate. An ended game stays ended, whatever resumes
  after its end; a settlement row names the winner the chain took, however
  endings race and posts fail.
- **game_live** (`MCGameLive`, 1.1 million states). Two moves, which may be in
  flight together, an advantage that must be confirmed once, a rebuilding
  request, a restart: some clock always runs, and it is the right one except
  while a move is being stored; and `EveryGameEnds` under `Fairness`: timers
  fire, awaited calls return or fail, polling goes on. No player or request is
  fair. A restart is taken to be within the listener's lookback (8640 ledgers by
  default), so that the event is seen again.
- **game_timeout** - a comment of `gameManager.ts` that the code does not keep; see
  Findings.
- **engine** (`MCEngine`, 351,000 states). A game of four half-moves, two of them
  played before; one restart, one write that fails; cutoff 1, minimum 2,
  threshold 85 %. After any number of late answers, the first request sent to an
  engine that owes nothing gets its own answer (`AnswersCatchUp`); analyses are
  filed under their half-move unless two were being stored at once; a flag rests
  on enough moves that the engine would have played, and agrees with the evidence
  endpoint unless a row was stored after it. `EveryRequestSettles` needs only
  timers, the outcome of the handshake and writes that end: Stockfish owes
  nothing.
- **mirror** (`MCMirror`, 300,511 states). Three ledgers of up to two events each
  (more when settlement adds its own), pages of five, ids forgotten beyond three,
  a lookback of one ledger, one failure, one restart; the listener's window (0) is
  shorter than the contract's (1), so that the keeper asks too early and must ask
  again. `NoLostEvent` and `RowsFollowChain` hold with failures (an event whose
  handler failed counts as delivered); the three liveness properties hold in every
  behaviour without one (`Clean`), however often the relayer restarts within its
  bound. Disputes and the arbiter's decision may come while a caller still polls for
  its result or has yet to record it; if `MatchSettled` is written down before that,
  `MirrorSettles` claims nothing of the settlement's winner (section 4), but still
  everything of the other rows. Fairness: ledgers close, polls, handlers and keeper
  ticks go on; people, games, failures and restarts need not.
- **view** (`MCView`, 890,821 states). Two half-moves, two messages on their way, a
  load, one fault (a dropped connection or a failed request). Weakly fair are only
  the page's own load and poll.
- **client** (`MCClient`, 505,480 states). Two tabs of one player or of two, one of
  them the arbiter; two submissions, whose requests may fail at every point; a match
  that may be under way from the start and is locked, reported and finalized; a lobby
  that lists two matches. "done" is said only of what landed; an error is final
  unless it came while the last call was awaited, which the page cannot tell and
  section 4 speaks of. Fair: polls, timers and requests; never a signature, nor that
  a transaction is applied.
- **pages** (`MCPages`, 929,386 states). Two accounts and three clicks on the wallet
  button, as many as it takes for a disconnect to cross a dialog (two of them to
  disconnect, one to connect), of which one may be made on the history page; there up
  to three games of a pair, in pages of one, with every mixture of win, loss and draw
  that two winners and two sides give, one settlement that may name another winner,
  and one fault: a request that fails, or a game that is completed again or taken for
  one that is played. Bets of 1000 and 2501, which leave remainders, a restart that replays all events, a failure; a lobby that lists one
  of two matches, asked for by two overlapping polls; two payments from accounts
  that can afford one. Fair: the lobby's timer and answers.

The off-chain runs turn deadlock checking off: with the bounds on restarts, faults
and submissions used up, a system that is done has nothing left to do.

Why the bounds are enough. On-chain, every property speaks of one match, or of the two
shared accounts, which two matches exercise. Nothing in the code depends on an
amount except the divisions by 100 and the pro-rata share, and the amounts are
chosen to leave remainders in them. Three accounts are the two players and an
outsider; each may also be the arbiter, because `arbiter` starts and moves freely.
Off-chain, the hazards are races of two: two handlers of one object (two plies,
or a move and an ending), two objects, a restart between two steps. `MaxPly`,
`MaxObjects`, `MaxLoads`, `MaxFinishes`, `MaxCrashes` and `MaxFailures` bound each
of them by the one or two that such a race needs. A shift of answers in the engine
needs two requests after one that timed out, which two moves make (each asks for two).
In the browser the races are of two again: a snapshot and a message, two tabs, two
polls, two answers of the wallet; the limits of pages and lists are set below the
number of things that can be in them, so that they are reached.

## 4. Findings

- `submitMove` awaits two database writes with the mover's timer still armed; if
  it fires there, `handleTimeout` makes the opponent lose on time
  (**game_timeout**).

Further observations, met while modelling and visible in the models' actions:

Contracts
- `post_evaluation`'s doc comment (`oracle_gateway/src/lib.rs:98`) says one score
  over the threshold locks the market; the code waits for a confirmed streak.
- A game that ends by resignation or on time reports its result with the market
  open, and `buy_outcome` takes bets on the reported winner for the whole
  challenge window; README section 15 (`README.md:659`) speaks of decisive
  positions only.

Game manager and engine
- `handleGameOver` and `handleResignation` (`gameManager.ts:536`, `:578`) do not ask
  whether the game is over: it can be finished twice, with two posted results and
  the second winner in the row.
- A `MatchActive` event seen again after a restart gets to `initGame`
  (`eventListener.ts:202`) before anybody has asked for the game: a fresh board
  replaces the recorded one, which `gameManager.ts:60-62` would rebuild.
- A late `bestmove` shifts every answer until the queue runs dry; an engine whose
  handshake times out rejects every request for ever, because the promise is kept;
  `degraded` is reached only when starting the process throws at once.
- Comments at `gameManager.ts:417-425`, `reconcile.ts:8-13` and `client.ts:63-68`
  say that `post_result` settles the match; it only submits the result.

Mirror
- A `MarketLocked` event replayed after the end turns the row of a completed match
  back to `locked` (`eventListener.ts:184`; `matches.ts:148` is unconditional).
- The settlement row follows the arbiter, `games.winner` keeps what was reported,
  and the reconciler works from the latter; `recordSettlement` lets the last winner
  given win (`matches.ts:206`). So a caller that had its result confirmed and records
  it only after `MatchSettled` was handled puts the reported winner back over the
  arbiter's (`gameManager.ts:437-444`, after up to thirty seconds of polling,
  `client.ts:102-109`), and nothing corrects it. The comment at `matches.ts:176-181`
  has the two writers arrive in either order and speaks of the fields that only one
  of them knows. `MirrorSettles` says where it stops (`SettledBeforeRecorded`).
- A ledger with as many events as a page holds would be read again for ever; one
  match never makes that many.

Pages
- A client that lost messages is not brought up to date by reconnecting
  (`README.md:733`): `useWebSocket` subscribes again and `useMatch` loads nothing. The
  dispute button (`README.md:694`) needs a message of `useAntiCheat`'s socket: after a
  reload, or a missed message, it is not there. `MATCH_STARTED` starts no clock;
  the first move or the next snapshot does.
- Messages with pools come from the contract and REST pools from the relayer's
  rows: either may overwrite a newer one of the other. `getMarket` and `getOdds` are
  two reads, which a bet can fall between; a failed read announces zero pools.
- Two players who search at the same time both create a match and wait, and the
  lobby lists only the fifty newest (`matches.ts:84-85`).
- A form that gives up waiting, or whose request fails after the transaction was
  sent, shows an error like any other (`lib/contracts.ts:101-118`,
  `create/page.tsx:140-145`, `useTrading.ts:78-83`) and can be submitted again, though
  the first transaction may land: then both take effect.
- The allowance that `approveUsdc` asks for is read by no contract
  (`README.md:259`, `:871`).
- When the rows are an exact multiple of the page size, "Next" leads to an empty
  history page without buttons. Pages are cut by offset: when a completed row leaves
  the list (a late market lock, `matches.ts:148-151`), the rows below it move up and
  the next page skips one. A first load that fails is not tried again. The
  table shows the reported winner where the record uses the settled one, and the
  record's window of 200 is cut to 100 games of all players by the relayer.
- A second click on "disconnect" takes effect late and may take off a wallet that
  was connected in between. On `/wallet`, disconnecting does not stop a payment
  that is under way, and a Horizon time-out is shown as a failure although the
  payment may be made (`SendXlmForm.tsx:79-91`).

## 5. Proofs

Every invariant and every action property that a passing run checks is also a
theorem, for every value of the constants, as is the refinement of `Wager`.
The one thing about them left to TLC is that they are not vacuous: the runs reach
their interesting cases, and each has a mutant that breaks it.

Assumptions. Each module that declares constants names one about their types
(`ClientAssumption`, `EngineAssumption`, ...: numbers are natural, percentages at
most 100, page sizes not zero). The ones that say more:

- `AddressAssumption` - contracts and treasury are not wallets, nor each other.
- `AccountsAssumption`, `MatchAssumption` - finitely many accounts and matches, as
  on a ledger; without them a sum of balances means nothing.
- `MinBetAssumption` - the minimum bet is at least 100 units; it is 10,000,000.
- `StreakAssumption` - the streak is an `i32` and the confirmations a `u32`. Either
  a match has no more evaluations than the streak can count (at one a second, sixty
  years' worth), or no lock asks for more than that. Otherwise a saturated streak
  would never lock a market that its evaluations call for.

Induction. The library's theorems for it take an operator as a parameter, which the
provers cannot instantiate. `FiniteSums` does without: of natural numbers where a
claim fails there is a least one (`LeastNat`), of finite sets a smallest
(`LeastSet`), and both come from well-foundedness, which the library has as a plain
theorem. So sums exist and do not depend on an order (`SumsExist`, `SumsAgree`),
change by what one weight does (`SumChanges`), and a fold has a value of its type
for every finite set (`FoldsExist`, `FoldsTyped`).

### Contracts (`MateFiProofs`)

- **TypeCorrect**. Mostly that no balance goes negative: each transfer of the cascade
  is covered by what the token checks (`VaultPays`, `PoolPays`, `DrawPays`), with the
  arithmetic of the fees in `FeeBounds` and `PrizeBounds`.
- **ContractsAlwaysAgree**. `IInv == TypeOK /\ ContractsAgree` is inductive. An
  action touches one match: `AgreeFrame` carries the others over, and one lemma per
  action shows the touched one agreed. From it **WindowAlwaysDecides**,
  **ChecksAlwaysPass**, and the action properties **VaultAlwaysMovesWithBooks**,
  **StakesAlwaysReleasedByVerdict** and **AlwaysOneWay**.
- **VaultAlwaysSolvent**, **PoolAlwaysSolvent**, **CascadeNeverSticks**.
  `MoneyInv == IInv /\ VaultHolds /\ (\A m : BucketsCount(m)) /\ PoolHolds`.
  The vault's balance is the sum of the books, and a step changes one of them. The
  pool needs more: its buckets are the sums of the traders' stakes
  (`BucketsCount`), because only then do the rounded shares of the winners, all
  together, come to no more than the pot, and to less by no more than one unit for
  each (`SharesCover`). `PoolSolvent` alone is not inductive: a trader's payment
  could be any of the pot. TLC had found `BucketsCount` true on both instances of the
  runs before it was proved.
- **LocksExactlyWhenSustained**. `OracleInv` adds `Counts`: the magnitude of the
  signed streak is the length of the decisive run at the end of the evaluations, cut
  off at `MaxStreak`, and its sign their side. A run is judged by the thresholds of
  its own times, a lock by the confirmations of the evaluation that completes it.
- **PromiseAlwaysKept** - the contracts implement `Wager`. Initial states map to
  initial states; each transaction is one step of the wager (`CreateOffers`,
  `JoinAccepts`, ..., `PaymentCollects`) or none of it. The amounts are the work:
  a cascade pays both players what the wager says in one step (`PrizeKept`), and a
  trader's share is at least 97% of the stake because the buckets count the
  positions (`ShareKept`). Hence the invariant of this proof is `MoneyInv`.

### Relayer

- **GameTypes**, **RecordedIsReported**, **ClocksRun**, **EndedStaysEnded**
  (`GameProofs`). `GameInv == ObjectInv /\ BooksInv /\ ReportInv /\ ClockInv`: every
  object is `Sound`, every task fits the object it works on, whoever is about to
  write the settlement row has had that result applied, and every live object has
  its timer, a move being stored, or a failed one. `Serves` is what any handler may
  make of one object, so each handler is shown to be such once. That a rehydrated
  game is sound needs `ReplayEnds`, an induction along the recorded moves.
- **AnswersAreTheirOwn**, **AnalysesFiled**, **FlagsEarned**, **FlagsAndEvidence**
  (`EngineProofs`). `EngineInv == QueueInv /\ GameTyped /\ FiledInv /\ EarnedInv /\
  DrawnInv`: if the request at the head of the queue was sent to an engine that owed
  nothing, the engine has its search and no other, which is what makes its answer
  its own; flags are
  judged already while they wait to be recorded, by counting rows.
- **NoEventIsLost**, **RowsAreTrue** (`MirrorProofs`). `MirrorInv == ChainInv /\
  WindowInv /\ RowsInv /\ CallersInv`. The window: what a poll has yet to handle is
  in its page, up to where the next one begins; that an answer with a full page
  still reaches that far is `AnswerStretch`. The rows: each logged event says
  something that stays true of the match (`EventHolds`), so that a replay after a
  restart cannot write what is not so; a caller that was told of a success holds a
  result that the chain has.

### Pages

- **ViewTypes**, **PageShowsTheMatch**, **NothingForgotten** (`ViewProofs`).
  `ViewInv == ServerInv /\ InboxInv /\ LiveInv /\ LoadsInv /\ FollowInv`. A page that
  has lost nothing shows the match as it was before the messages on their way
  (`Follows`), and each message says by how much; snapshots that were overtaken are
  marked, and say something that stays true.
- **PagesTellTheTruth**, **SearchersFindEachOther** (`ClientProofs`). `ClientInv ==
  ClientTypes /\ TabsInv /\ OnceInv /\ StageInv /\ PageTellsTheTruth /\ SawInv`. The
  last call of a submission is sent once: it is on its way, or has succeeded, or has
  failed, and nothing of it is there before it is signed. So an error that is shown
  before it was sent, or after it has failed, is final; one that is shown in between
  is not, and the theorem says nothing of it. What a search found unfit stays so.
- **ConnectAlwaysEnds**, **PaymentAlwaysTold**, **PoolsAreNeverOverstated**,
  **QuoteAlwaysPaid**, **HistoryAlwaysRight** (`PagesProofs`), from one invariant each
  for the part of the site that they are about. Pools: the relayer's rows are
  places in the chain's log of bets, each once (`SumInjects`), and reads, answers and
  messages are of pools that the chain had, which only grow (`PanelInv`). Quotes:
  `QuoteArithmetic`, by a rounding of the page's and by the contract's. History:
  what a pass has seen is an interval that goes on where the next page begins
  (`SeenFrom`); it stays one when a game is taken out of its place and put in front
  (`SeenMoves`, `PassGoesOn`), and begins anew when one at or above its end leaves
  the list. And the loops of `stats.ts` count the runs that they are said to
  (`CurrentStreakIs`, `BestStreakIs`, `CountsAddUp`).

What the proofs changed. The first form of `PagesSkipNothing` counted a game as
seen although it was completed after the first page of the pass was read. Its
proof failed, and TLC with four games showed why: with game 1 seen, three more
completed and the next page read, game 3 is seen and game 2 is not. Nobody is owed a game that was not there at the start; the property now
speaks of those that were, `seen` keeps just these, and the filter is reached with
the three games of the run. Games that are completed again or leave the list came
later; for them the proof needed what becomes of an interval of places when one is
removed. `StreakAssumption` was met in the same way. `Outcomes`
and `Counted` were `SelectSeq`s, which the prover cannot expand, and are now the
fold and the count that the code's loop and filters are.

Model-checked only: liveness under fairness, which is out of the prover's reach
(`DecidedMatchesSettle`, `EveryGameEnds`, `EveryRequestSettles`, `MirrorSettles`,
`ResultsAreFinalized`, `WinnersArePaid`, `WaitingPageStarts`, `SubmissionsEnd`,
`LobbyCatchesUp`), and the one violation of section 4.

## 6. Not modelled

Entry-point authentication and error codes: a refused call changes nothing.
Storage expiry and contract upgrades: the code has none of its own. The text of
FENs, reasons and events. Of the game manager: clock arithmetic, and matches
created by the development API. Of the engine: a `bestmove (none)`, which only a
finished position gives. Of the transaction client: fees and encoding. Of the
relayer's server: heartbeats, rate limits, request validation. Of the frontend:
the landing page, drawing, sounds, toasts, ticking clocks, and three parts that no
page mounts (`USDCBalance`, `stellar-wallet-panel`, `use-stellar-wallet`).
Deployment scripts run once, before `Init`.

Abstractions worth knowing. In `EngineQueue`, a restart counts moves that were being
written as written. In `MatchView`, a write and the broadcast right after it are one
step; the visitor plays black; one load is under way at a time. In `ClientFlows`, the wait for the relayer's index may end at any moment
(its tries used up, `early`). In `TradingPanel`, the page's floating-point product
is taken to be exact; pools are of 1000 units or more, as with the contract's
minimum bet they are. `HistoryPage` knows a game by its place in the order of
completion.

## 7. Plan

1. Contracts, composition, promise, liveness, oracle history - done and proved.
2. `GameManager`, `EngineQueue`, `EventMirror`, `MatchView`, `ClientFlows`, `Pages`
   and their properties - done and proved, but for liveness.
3. Left: that `EventMirror`'s summary of a match, and the relayer in `MatchView`,
   are implemented by `MateFiChain` and by `GameManager` as far as they go; a
   theorem that no reported match can be stuck for want of a step that is enabled,
   as far as it can be said without ENABLED; a database that is ahead of the
   registry of games after a crash between posting a result and completing the row.
