------------------------------ MODULE MCClient ------------------------------
(* The wallets in the browser: two tabs, of one player or of two.  MCClient.cfg. *)
EXTENDS ClientProperties

CONSTANTS t1, t2, p, q

MCTabs    == {t1, t2}
MCPlayers == {p, q}
MCOwners  == {o \in [MCTabs -> MCPlayers] : o[t1] = p}
MCOpponents == {<<p, q>>}
MCBalance == [x \in MCPlayers |-> IF x = p THEN 2 ELSE 1]
=============================================================================
