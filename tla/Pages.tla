-------------------------------- MODULE Pages --------------------------------
(***************************************************************************)
(* The pages of the site besides the match page and the forms: one is      *)
(* open at a time, and going to another one starts it anew.  The wallet    *)
(* button is on each of them; here it is used on the first page, which     *)
(* takes no notice of it, and on the history page, which computes the      *)
(* record of the address that is connected.  What else is done with that   *)
(* address is in ClientFlows.                                              *)
(***************************************************************************)
EXTENDS HistoryPage, TradingPanel, LobbyPage, XlmWallet

CONSTANT HistoryClicks   \* bound: of the clicks on the wallet button, on the history page

VARIABLE route   \* the page that is open

vars == <<route, walletVars, historyVars, panelVars, lobbyVars, xlmVars>>

Routes == {"/", "/history", "/match/[matchId]", "/lobby", "/wallet"}

Init ==
  /\ route \in Routes
  /\ WalletInit /\ HistoryInit /\ PanelInit /\ LobbyInit /\ XlmInit
  /\ route \notin {"/", "/history"} => address = None
  /\ route # "/history" => games = <<>>
  /\ route # "/lobby" => \A m \in Ids : statuses[m] = "absent"
  /\ route # "/wallet" => freighter = Missing

OnFirst ==
  /\ route = "/" /\ WalletStep
  /\ UNCHANGED <<historyVars, panelVars, lobbyVars, xlmVars>>

OnHistory ==
  /\ route = "/history"
  /\ \/ WalletStep /\ clicks' <= HistoryClicks /\ AddressSeen /\ UNCHANGED <<games, table, seen, faults>>
     \/ HistoryStep /\ UNCHANGED walletVars
  /\ UNCHANGED <<panelVars, lobbyVars, xlmVars>>

OnMatch == route = "/match/[matchId]" /\ PanelStep /\ UNCHANGED <<walletVars, historyVars, lobbyVars, xlmVars>>

OnLobby == route = "/lobby" /\ LobbyStep /\ UNCHANGED <<walletVars, historyVars, panelVars, xlmVars>>

OnWallet == route = "/wallet" /\ XlmStep /\ UNCHANGED <<walletVars, historyVars, panelVars, lobbyVars>>

Next == (OnFirst \/ OnHistory \/ OnMatch \/ OnLobby \/ OnWallet) /\ UNCHANGED route

\* The lobby's timer runs, and its requests are answered or fail.
LobbyGoesOn(r) ==
  /\ route = "/lobby" /\ PollGoesOn(r)
  /\ UNCHANGED <<route, walletVars, historyVars, panelVars, xlmVars>>

Spec == Init /\ [][Next]_vars /\ \A r \in Polls : WF_vars(LobbyGoesOn(r))
=============================================================================
