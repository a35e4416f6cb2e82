----------------------------- MODULE WalletStore -----------------------------
(***************************************************************************)
(* The wallet that the whole site shares: useWallet's store, and the       *)
(* button in the navigation bar that connects and disconnects it.          *)
(*                                                                         *)
(* The wallet kit answers when it likes: its modal may be closed, its      *)
(* address refused, and a disconnect takes a while, during which the       *)
(* button is still there; it then clears whatever address there is.        *)
(***************************************************************************)
EXTENDS Naturals

CONSTANTS
  Accounts,    \* the addresses that the visitor's wallets have
  MaxClicks    \* bound: clicks on the wallet button

ASSUME WalletAssumption == "None" \notin Accounts /\ MaxClicks \in Nat

VARIABLES
  address,     \* the store's address, kept in localStorage
  connecting,
  kit,         \* the modal, the address asked for, and disconnects under way
  clicks

walletVars == <<address, connecting, kit, clicks>>

None == "None"

\* A session may have been kept from an earlier visit.
WalletInit ==
  /\ address \in Accounts \cup {None}
  /\ connecting = FALSE
  /\ kit = [modal |-> FALSE, asked |-> FALSE, leaving |-> 0]
  /\ clicks = 0

Clicked == clicks < MaxClicks /\ clicks' = clicks + 1

\* The button connects, or disconnects, whichever it is; getKit or openModal may throw.
Connect ==
  /\ address = None /\ ~connecting /\ Clicked
  /\ \/ connecting' = TRUE /\ kit' = [kit EXCEPT !.modal = TRUE]
     \/ UNCHANGED <<connecting, kit>>
  /\ UNCHANGED address

Disconnect ==
  /\ address # None /\ Clicked
  /\ kit' = [kit EXCEPT !.leaving = @ + 1]
  /\ UNCHANGED <<address, connecting>>

\* onWalletSelected, and onClosed.
Selected ==
  /\ kit.modal
  /\ kit' = [kit EXCEPT !.modal = FALSE, !.asked = TRUE]
  /\ UNCHANGED <<address, connecting, clicks>>

Closed ==
  /\ kit.modal
  /\ kit' = [kit EXCEPT !.modal = FALSE] /\ connecting' = FALSE
  /\ UNCHANGED <<address, clicks>>

\* Mutant of AddressGiven: a refusal leaves the button as it is.
RefusalForgotten ==
  /\ kit.asked
  /\ kit' = [kit EXCEPT !.asked = FALSE]
  /\ \/ address' \in Accounts /\ connecting' = FALSE
     \/ UNCHANGED <<address, connecting>>
  /\ UNCHANGED clicks

\* getAddress, which may be refused; setWallet has chosen the wallet before.
AddressGiven ==
  /\ kit.asked
  /\ kit' = [kit EXCEPT !.asked = FALSE] /\ connecting' = FALSE
  /\ address' \in Accounts \cup {address}
  /\ UNCHANGED clicks

Disconnected ==
  /\ kit.leaving > 0
  /\ kit' = [kit EXCEPT !.leaving = @ - 1]
  /\ address' = None
  /\ UNCHANGED <<connecting, clicks>>

WalletStep == Connect \/ Disconnect \/ Selected \/ Closed \/ AddressGiven \/ Disconnected
=============================================================================
