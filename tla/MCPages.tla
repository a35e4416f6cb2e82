------------------------------- MODULE MCPages -------------------------------
(***************************************************************************)
(* A small site: two accounts and three games, two bets, two matches in    *)
(* the lobby with two overlapping polls, two payments.                     *)
(***************************************************************************)
EXTENDS PagesProperties

MCPairs == {<<"p", "q">>}
MCXlmBalance == [a \in XlmAccounts |-> 1]
=============================================================================
