------------------------------ MODULE XlmWallet ------------------------------
(***************************************************************************)
(* The /wallet page: Freighter, connected on its own beside the site's     *)
(* wallet, and the form that sends XLM from the connected account.         *)
(*                                                                         *)
(* Disconnecting takes the form off the page but stops nothing that it has *)
(* begun.  Freighter signs with the account chosen in it at that moment.   *)
(***************************************************************************)
EXTENDS Naturals, Sequences, FiniteSets

CONSTANTS
  XlmAccounts,   \* accounts in Freighter
  XlmBalance,    \* payments that each can afford
  MaxSends,      \* bound: payments
  MaxConnects,   \* bound: clicks on the connect button
  MaxXlmFaults   \* bound: requests to Horizon that fail, and accounts switched in Freighter

ASSUME XlmAssumption ==
  /\ "None" \notin XlmAccounts /\ XlmBalance \in [XlmAccounts -> Nat]
  /\ {MaxSends, MaxConnects, MaxXlmFaults} \subseteq Nat

VARIABLES
  freighter,  \* the account chosen in the extension, "None" where it is missing
  page,       \* useFreighterWallet: status and address; funds: whose balance is shown
  sends,      \* the calls of handleSend, in order: how far each has come ("cut": its answer
              \* did not), and what is told of it
  ledger,     \* sequence numbers, funds left, payments sent and payments made
  connects, xlmFaults

xlmVars == <<freighter, page, sends, ledger, connects, xlmFaults>>

Missing == "None"

XlmInit ==
  /\ freighter \in XlmAccounts \cup {Missing}
  /\ page = [status |-> "checking", address |-> Missing, funds |-> Missing]
  /\ sends = <<>>
  /\ ledger = [seq |-> [a \in XlmAccounts |-> 0], left |-> XlmBalance, sent |-> {}, paid |-> {}]
  /\ connects = 0 /\ xlmFaults = 0

Faulty == xlmFaults < MaxXlmFaults /\ xlmFaults' = xlmFaults + 1

\* isConnected, when the page is mounted.
Detected ==
  /\ page.status = "checking"
  /\ page' = [page EXCEPT !.status = IF freighter = Missing THEN "not_installed" ELSE "disconnected"]
  /\ UNCHANGED <<freighter, sends, ledger, connects, xlmFaults>>

\* WalletStatus: the button of each status.
ConnectButton    == page.status = "disconnected"
DisconnectButton == page.status = "connected"

Connects ==
  /\ ConnectButton /\ connects < MaxConnects /\ connects' = connects + 1
  /\ page' = [page EXCEPT !.status = "connecting"]
  /\ UNCHANGED <<freighter, sends, ledger, xlmFaults>>

\* requestAccess gives the account that is chosen, or is refused.
AccessRequested ==
  /\ page.status = "connecting"
  /\ \/ page' = [status |-> "connected", address |-> freighter, funds |-> Missing]
     \/ page' = [status |-> "disconnected", address |-> Missing, funds |-> Missing]
  /\ UNCHANGED <<freighter, sends, ledger, connects, xlmFaults>>

Switches ==
  /\ freighter # Missing /\ Faulty
  /\ freighter' \in XlmAccounts \ {freighter}
  /\ UNCHANGED <<page, sends, ledger, connects>>

\* The balance and the form go with the address.
Disconnects ==
  /\ DisconnectButton
  /\ page' = [status |-> "disconnected", address |-> Missing, funds |-> Missing]
  /\ sends' = [i \in DOMAIN sends |-> [sends[i] EXCEPT !.shown = FALSE]]
  /\ UNCHANGED <<freighter, ledger, connects, xlmFaults>>

\* useXlmBalance; an account that does not exist has none.
BalanceFetched ==
  /\ DisconnectButton /\ page.funds = Missing
  /\ page' = [page EXCEPT !.funds = page.address]
  /\ UNCHANGED <<freighter, sends, ledger, connects, xlmFaults>>
-----------------------------------------------------------------------------
(* handleSend *)

Goes(i, to) == sends' = [sends EXCEPT ![i] = to]

Over(i) == sends[i].pc \in {"done", "cut"}

\* The form of the page is busy with one payment at a time.
Sends ==
  /\ DisconnectButton /\ Len(sends) < MaxSends
  /\ \A i \in DOMAIN sends : sends[i].shown => Over(i)
  /\ sends' = Append(sends, [pc |-> "load", from |-> page.address, seq |-> 0, shown |-> TRUE, told |-> "busy"])
  /\ UNCHANGED <<freighter, page, ledger, connects, xlmFaults>>

Ends(i, told) == Goes(i, [sends[i] EXCEPT !.pc = "done", !.told = told])

\* Mutant of Submitted: sent is as good as paid.
SubmittedIsPaid(i) ==
  /\ sends[i].pc = "submit"
  /\ Ends(i, "paid") /\ ledger' = [ledger EXCEPT !.sent = @ \cup {i}]
  /\ UNCHANGED <<freighter, page, connects, xlmFaults>>

AccountLoaded(i) ==
  /\ sends[i].pc = "load"
  /\ \/ Goes(i, [sends[i] EXCEPT !.pc = "sign", !.seq = ledger.seq[sends[i].from] + 1]) /\ UNCHANGED xlmFaults
     \/ Faulty /\ Ends(i, "failed")
  /\ UNCHANGED <<freighter, page, ledger, connects>>

\* Freighter's prompt; a signature of another account is refused by Horizon.
Signed(i) ==
  /\ sends[i].pc = "sign"
  /\ \/ Goes(i, [sends[i] EXCEPT !.pc = IF freighter = sends[i].from THEN "submit" ELSE "refused"])
     \/ Ends(i, "failed")
  /\ UNCHANGED <<freighter, page, ledger, connects, xlmFaults>>

Refused(i) ==
  /\ \/ sends[i].pc = "refused"
     \/ sends[i].pc = "submit" /\ ledger.seq[sends[i].from] >= sends[i].seq
  /\ Ends(i, "failed")
  /\ UNCHANGED <<freighter, page, ledger, connects, xlmFaults>>

\* submitTransaction: Horizon takes it, and answers when it is in a ledger.
Submitted(i) ==
  /\ sends[i].pc = "submit" /\ ledger.seq[sends[i].from] < sends[i].seq
  /\ Goes(i, [sends[i] EXCEPT !.pc = "wait"]) /\ ledger' = [ledger EXCEPT !.sent = @ \cup {i}]
  /\ UNCHANGED <<freighter, page, connects, xlmFaults>>

Answered(i) ==
  /\ sends[i].pc = "wait" /\ i \notin ledger.sent
  /\ Ends(i, IF i \in ledger.paid THEN "paid" ELSE "failed")
  /\ UNCHANGED <<freighter, page, ledger, connects, xlmFaults>>

\* Horizon's answer takes too long, or is lost: an error like any other, though the
\* payment may yet be made.
TimedOut(i) ==
  /\ sends[i].pc = "wait" /\ Faulty
  /\ Goes(i, [sends[i] EXCEPT !.pc = "cut", !.told = "failed"])
  /\ UNCHANGED <<freighter, page, ledger, connects>>

\* The network: a payment is made if its number is next and the funds suffice,
\* fails if they do not, and expires after thirty seconds.
Applied(i) ==
  /\ i \in ledger.sent
  /\ LET a == sends[i].from
         next == sends[i].seq = ledger.seq[a] + 1
         pays == next /\ ledger.left[a] > 0 IN
     ledger' = [seq  |-> IF next THEN [ledger.seq EXCEPT ![a] = @ + 1] ELSE ledger.seq,
                left |-> IF pays THEN [ledger.left EXCEPT ![a] = @ - 1] ELSE ledger.left,
                paid |-> IF pays THEN ledger.paid \cup {i} ELSE ledger.paid,
                sent |-> ledger.sent \ {i}]
  /\ UNCHANGED <<freighter, page, sends, connects, xlmFaults>>

Expired(i) ==
  /\ i \in ledger.sent
  /\ ledger' = [ledger EXCEPT !.sent = @ \ {i}]
  /\ UNCHANGED <<freighter, page, sends, connects, xlmFaults>>

SendStep(i) ==
  \/ AccountLoaded(i) \/ Signed(i) \/ Refused(i) \/ Submitted(i) \/ Answered(i) \/ TimedOut(i)
  \/ Applied(i) \/ Expired(i)

XlmStep ==
  \/ Detected \/ Connects \/ AccessRequested \/ Switches \/ Disconnects \/ BalanceFetched
  \/ Sends \/ \E i \in DOMAIN sends : SendStep(i)
=============================================================================
