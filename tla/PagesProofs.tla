----------------------------- MODULE PagesProofs -----------------------------
(***************************************************************************)
(* What the pages of the site show, for any number of connects, payments,  *)
(* bets, quotes and games: PagesProperties, each from what the part of the *)
(* site that it is about keeps (ButtonInv, XlmInv, PanelInv, HistoryInv).  *)
(*                                                                         *)
(* The pools and the outcomes are sums and folds over what the chain has   *)
(* and the server lists; FiniteSums has the facts about both.              *)
(***************************************************************************)
EXTENDS PagesProperties, FiniteSums, SequenceTheorems

-----------------------------------------------------------------------------
\* Each part of the site takes its own steps.
LEMMA Apart ==
  [Next]_vars => /\ WalletStep \/ UNCHANGED walletVars
                 /\ PanelStep \/ UNCHANGED panelVars
                 /\ XlmStep \/ UNCHANGED xlmVars
  BY DEF Next, OnFirst, OnHistory, OnMatch, OnLobby, OnWallet, vars
-----------------------------------------------------------------------------
(* The wallet button *)

\* The modal and the request for an address follow each other, so whichever
\* ends may end the wait.
ButtonInv ==
  /\ kit \in [modal : BOOLEAN, asked : BOOLEAN, leaving : Nat]
  /\ connecting \in BOOLEAN
  /\ ~(kit.modal /\ kit.asked)
  /\ ConnectEnds

\* Nobody has pressed the button.
LEMMA InitButton == Init => ButtonInv
<1> SUFFICES ASSUME Init PROVE ButtonInv
  OBVIOUS
<1>1. connecting = FALSE /\ kit = [modal |-> FALSE, asked |-> FALSE, leaving |-> 0]
  BY DEF Init, WalletInit
<1>2. /\ kit \in [modal : BOOLEAN, asked : BOOLEAN, leaving : Nat]
      /\ kit.modal = FALSE /\ kit.asked = FALSE
  BY <1>1
<1> QED BY <1>1, <1>2, Zenon DEF ButtonInv, ConnectEnds

\* The click, the kit and the cancelling keep the wait and its end together.
LEMMA StepButton == ButtonInv /\ [Next]_vars => ButtonInv'
<1> SUFFICES ASSUME ButtonInv, [Next]_vars
             PROVE  ButtonInv'
  OBVIOUS
<1> USE DEF ButtonInv, ConnectEnds
<1>1. CASE UNCHANGED walletVars
  BY <1>1 DEF walletVars
<1>2. CASE Connect
  <2>1. ~connecting /\ ~kit.modal /\ ~kit.asked
    BY <1>2 DEF Connect
  <2>2. \/ connecting' = TRUE /\ kit' = [kit EXCEPT !.modal = TRUE]
        \/ connecting' = connecting /\ kit' = kit
    BY <1>2 DEF Connect
  <2>3. CASE connecting' = TRUE /\ kit' = [kit EXCEPT !.modal = TRUE]
    <3>1. /\ kit' \in [modal : BOOLEAN, asked : BOOLEAN, leaving : Nat]
          /\ kit'.modal = TRUE /\ kit'.asked = kit.asked
      BY <2>3
    <3> QED BY <2>1, <2>3, <3>1, Zenon
  <2>4. CASE connecting' = connecting /\ kit' = kit
    BY <2>4
  <2> QED BY <2>2, <2>3, <2>4
<1>3. CASE Disconnect
  BY <1>3 DEF Disconnect
<1>4. CASE Selected
  BY <1>4 DEF Selected
<1>5. CASE Closed
  BY <1>5 DEF Closed
<1>6. CASE AddressGiven
  BY <1>6 DEF AddressGiven
<1>7. CASE Disconnected
  BY <1>7 DEF Disconnected
<1> QED BY <1>1, <1>2, <1>3, <1>4, <1>5, <1>6, <1>7, Apart DEF WalletStep

\* The wallet button is disabled while a connection is under way, and only then.
THEOREM ConnectAlwaysEnds == Spec => []ConnectEnds
<1>1. ButtonInv => ConnectEnds
  BY DEF ButtonInv
<1> QED BY <1>1, InitButton, StepButton, PTL DEF Spec
-----------------------------------------------------------------------------
(* The /wallet page *)

Payment == [pc : {"load", "sign", "refused", "submit", "wait", "done", "cut"},
            from : XlmAccounts, seq : Nat, shown : BOOLEAN, told : {"busy", "paid", "failed"}]

\* Who is asked for an account has one, and pays from it.
XlmTypes ==
  /\ freighter \in XlmAccounts \cup {Missing}
  /\ page \in [status : {"checking", "not_installed", "disconnected", "connecting", "connected"},
               address : XlmAccounts \cup {Missing}, funds : XlmAccounts \cup {Missing}]
  /\ page.status \in {"disconnected", "connecting", "connected"} => freighter # Missing
  /\ page.status = "connected" => page.address # Missing
  /\ sends \in Seq(Payment)
  /\ ledger \in [seq : [XlmAccounts -> Nat], left : [XlmAccounts -> Nat],
                 sent : SUBSET DOMAIN sends, paid : SUBSET DOMAIN sends]

\* What the network has of a payment, by how far its form has come.
TellsInv(i) ==
  /\ sends[i].pc \in {"load", "sign", "refused", "submit"} => i \notin ledger.sent \cup ledger.paid
  /\ ~Over(i) => sends[i].told = "busy"
  /\ sends[i].told = "paid" => i \in ledger.paid
  /\ sends[i].told = "failed" /\ sends[i].pc # "cut" => i \notin ledger.sent \cup ledger.paid

XlmInv == XlmTypes /\ \A i \in DOMAIN sends : TellsInv(i)

\* No payment has been made.
LEMMA InitXlm == Init => XlmInv
<1> SUFFICES ASSUME Init PROVE XlmInv
  OBVIOUS
<1>1. sends = <<>> /\ DOMAIN sends = {} /\ sends \in Seq(Payment)
  BY DEF Init, XlmInit
<1> QED BY <1>1, XlmAssumption DEF Init, XlmInit, XlmInv, XlmTypes

Codes == {"load", "sign", "refused", "submit", "wait", "done", "cut"}
Told  == {"busy", "paid", "failed"}

\* What the form's own updates make of a payment.
LEMMA EditsCode ==
  ASSUME NEW p \in Payment, NEW pc \in Codes
  PROVE  \E q \in Payment : q = [p EXCEPT !.pc = pc] /\ q.pc = pc /\ q.told = p.told
<1>1. PICK q : q = [p EXCEPT !.pc = pc]
  OBVIOUS
<1>2. q \in Payment /\ q.pc = pc /\ q.told = p.told
  BY <1>1 DEF Payment, Codes
<1> QED BY <1>1, <1>2

\* The form ends with something told.
LEMMA EditsTold ==
  ASSUME NEW p \in Payment, NEW told \in Told
  PROVE  \E q \in Payment : q = [p EXCEPT !.pc = "done", !.told = told] /\ q.pc = "done" /\ q.told = told
<1>1. PICK x \in Payment : x = [p EXCEPT !.pc = "done"] /\ x.pc = "done"
  <2>1. "done" \in Codes
    BY DEF Codes
  <2> QED BY ONLY p \in Payment, <2>1, EditsCode
<1>2. PICK q : q = [p EXCEPT !.pc = "done", !.told = told]
  OBVIOUS
<1>3. q = [x EXCEPT !.told = told]
  BY <1>1, <1>2
<1>4. q \in Payment /\ q.pc = "done" /\ q.told = told
  BY <1>1, <1>3 DEF Payment, Told
<1> QED BY <1>2, <1>4

\* Its answer did not come.
LEMMA EditsCut ==
  ASSUME NEW p \in Payment
  PROVE  \E q \in Payment : q = [p EXCEPT !.pc = "cut", !.told = "failed"] /\ q.pc = "cut" /\ q.told = "failed"
<1>1. PICK x \in Payment : x = [p EXCEPT !.pc = "cut"] /\ x.pc = "cut"
  <2>1. "cut" \in Codes
    BY DEF Codes
  <2> QED BY ONLY p \in Payment, <2>1, EditsCode
<1>2. PICK q : q = [p EXCEPT !.pc = "cut", !.told = "failed"]
  OBVIOUS
<1>3. q = [x EXCEPT !.told = "failed"]
  BY <1>1, <1>2
<1>4. q \in Payment /\ q.pc = "cut" /\ q.told = "failed"
  BY <1>1, <1>3 DEF Payment
<1> QED BY <1>2, <1>4

\* The account has been loaded, and its number taken.
LEMMA EditsSeq ==
  ASSUME NEW p \in Payment, NEW n \in Nat
  PROVE  \E q \in Payment : q = [p EXCEPT !.pc = "sign", !.seq = n] /\ q.pc = "sign" /\ q.told = p.told
<1>1. PICK x \in Payment : x = [p EXCEPT !.pc = "sign"] /\ x.pc = "sign" /\ x.told = p.told
  <2>1. "sign" \in Codes
    BY DEF Codes
  <2> QED BY ONLY p \in Payment, <2>1, EditsCode
<1>2. PICK q : q = [p EXCEPT !.pc = "sign", !.seq = n]
  OBVIOUS
<1>3. q = [x EXCEPT !.seq = n]
  BY <1>1, <1>2
<1>4. q \in Payment /\ q.pc = "sign" /\ q.told = p.told
  BY <1>1, <1>3 DEF Payment
<1> QED BY <1>2, <1>4

\* The form is taken away; the payment goes on.
LEMMA EditsShown ==
  ASSUME NEW p \in Payment
  PROVE  /\ [p EXCEPT !.shown = FALSE] \in Payment
         /\ [p EXCEPT !.shown = FALSE].pc = p.pc
         /\ [p EXCEPT !.shown = FALSE].told = p.told
  BY DEF Payment

\* A step of the form of one payment, and of the ledger for it.
LEMMA FormSteps ==
  ASSUME XlmInv, NEW i \in DOMAIN sends, NEW q \in Payment, sends' = [sends EXCEPT ![i] = q],
         UNCHANGED <<freighter, page>>,
         ledger' \in [seq : [XlmAccounts -> Nat], left : [XlmAccounts -> Nat],
                      sent : SUBSET DOMAIN sends, paid : SUBSET DOMAIN sends],
         \A k \in DOMAIN sends \ {i} : /\ k \in ledger'.sent <=> k \in ledger.sent
                                       /\ k \in ledger'.paid <=> k \in ledger.paid,
         q.pc \in {"load", "sign", "refused", "submit"} => i \notin ledger'.sent \cup ledger'.paid,
         q.pc \notin {"done", "cut"} => q.told = "busy",
         q.told = "paid" => i \in ledger'.paid,
         q.told = "failed" /\ q.pc # "cut" => i \notin ledger'.sent \cup ledger'.paid
  PROVE  XlmInv'
<1>1. /\ sends' \in Seq(Payment) /\ DOMAIN sends' = DOMAIN sends /\ sends'[i] = q
      /\ \A k \in DOMAIN sends \ {i} : sends'[k] = sends[k]
  BY DEF XlmInv, XlmTypes
<1>2. XlmTypes'
  BY <1>1 DEF XlmInv, XlmTypes
<1>3. \A k \in DOMAIN sends : TellsInv(k)'
  BY <1>1 DEF XlmInv, TellsInv, Over
<1> QED BY <1>1, <1>2, <1>3 DEF XlmInv

\* What the page does about the wallet leaves the payments as they are.
LEMMA PageSteps ==
  ASSUME XlmInv, Detected \/ Connects \/ AccessRequested \/ Switches \/ BalanceFetched
  PROVE  XlmInv'
<1>1. UNCHANGED <<sends, ledger>>
  BY DEF Detected, Connects, AccessRequested, Switches, BalanceFetched
<1>2. XlmTypes'
  <2> USE DEF XlmInv, XlmTypes
  <2>1. CASE Detected
    BY <1>1, <2>1 DEF Detected
  <2>2. CASE Connects
    BY <1>1, <2>2 DEF Connects, ConnectButton
  <2>3. CASE AccessRequested
    BY <1>1, <2>3 DEF AccessRequested
  <2>4. CASE Switches
    BY <1>1, <2>4, XlmAssumption DEF Switches, Missing
  <2>5. CASE BalanceFetched
    BY <1>1, <2>5 DEF BalanceFetched
  <2> QED BY <2>1, <2>2, <2>3, <2>4, <2>5
<1> QED BY <1>1, <1>2 DEF XlmInv, TellsInv, Over

\* A disconnect hides the forms, and changes nothing else of them.
LEMMA HidesForms == XlmInv /\ Disconnects => XlmInv'
<1> SUFFICES ASSUME XlmInv, Disconnects PROVE XlmInv'
  OBVIOUS
<1>1. /\ DOMAIN sends' = DOMAIN sends /\ Len(sends') = Len(sends)
      /\ \A i \in DOMAIN sends : sends'[i] = [sends[i] EXCEPT !.shown = FALSE]
      /\ sends' \in Seq(Payment)
  <2>1. PICK n \in Nat : DOMAIN sends = 1 .. n
    BY DEF XlmInv, XlmTypes
  <2>2. sends' = [i \in 1 .. n |-> [sends[i] EXCEPT !.shown = FALSE]]
    BY <2>1 DEF Disconnects
  <2>3. \A i \in 1 .. n : [sends[i] EXCEPT !.shown = FALSE] \in Payment
    <3>1. \A i \in 1 .. n : sends[i] \in Payment
      BY <2>1 DEF XlmInv, XlmTypes
    <3> QED BY <3>1, EditsShown
  <2>4. sends' \in [1 .. n -> Payment]
    BY <2>2, <2>3
  <2>5. sends' \in Seq(Payment)
    BY <2>4
  <2> QED BY <2>1, <2>2, <2>4, <2>5 DEF XlmInv, XlmTypes
<1>2. UNCHANGED <<freighter, ledger>>
  BY DEF Disconnects
<1>3. page' = [status |-> "disconnected", address |-> Missing, funds |-> Missing]
      /\ page.status = "connected"
  BY DEF Disconnects, DisconnectButton
<1>4. XlmTypes'
  BY <1>1, <1>2, <1>3 DEF XlmInv, XlmTypes
<1>5. \A i \in DOMAIN sends : sends'[i].pc = sends[i].pc /\ sends'[i].told = sends[i].told
  <2>1. \A i \in DOMAIN sends : sends[i] \in Payment
    BY DEF XlmInv, XlmTypes
  <2> QED BY <1>1, <2>1, EditsShown
<1> QED BY <1>1, <1>2, <1>4, <1>5 DEF XlmInv, TellsInv, Over

\* A new payment is neither sent nor told of.
LEMMA SendsOne == XlmInv /\ Sends => XlmInv'
<1> SUFFICES ASSUME XlmInv, Sends PROVE XlmInv'
  OBVIOUS
<1> DEFINE new == [pc |-> "load", from |-> page.address, seq |-> 0, shown |-> TRUE, told |-> "busy"]
<1>1. new \in Payment
  BY DEF Sends, DisconnectButton, XlmInv, XlmTypes, Payment
<1>2. sends' = Append(sends, new) /\ UNCHANGED <<freighter, page, ledger>>
  BY DEF Sends
<1>3. new.pc = "load" /\ new.told = "busy"
  OBVIOUS
<1> HIDE DEF new
<1>4. /\ sends \in Seq(Payment) /\ sends' \in Seq(Payment)
      /\ DOMAIN sends = 1 .. Len(sends) /\ DOMAIN sends' = 1 .. Len(sends) + 1
      /\ Len(sends) \in Nat /\ sends'[Len(sends) + 1] = new
      /\ \A i \in DOMAIN sends : sends'[i] = sends[i]
  BY <1>1, <1>2 DEF XlmInv, XlmTypes
<1>5. DOMAIN sends \subseteq DOMAIN sends' /\ Len(sends) + 1 \notin DOMAIN sends
  BY <1>4
<1>6. XlmTypes'
  BY <1>2, <1>4, <1>5 DEF XlmInv, XlmTypes
<1>7. ASSUME NEW i \in DOMAIN sends' PROVE TellsInv(i)'
  <2>1. CASE i \in DOMAIN sends
    BY <1>2, <1>4, <2>1 DEF XlmInv, TellsInv, Over
  <2>2. CASE i = Len(sends) + 1
    BY <1>2, <1>3, <1>4, <1>5, <2>2 DEF XlmInv, XlmTypes, TellsInv, Over
  <2> QED BY <1>4, <2>1, <2>2
<1> QED BY <1>6, <1>7 DEF XlmInv

\* Each await of a payment, and each end of it.
LEMMA SendSteps ==
  ASSUME XlmInv, NEW i \in DOMAIN sends, SendStep(i)
  PROVE  XlmInv'
<1> DEFINE Ledgers == [seq : [XlmAccounts -> Nat], left : [XlmAccounts -> Nat],
                       sent : SUBSET DOMAIN sends, paid : SUBSET DOMAIN sends]
<1>1. PICK p : p = sends[i] /\ p \in Payment
  BY DEF XlmInv, XlmTypes
<1>2. /\ sends[i] = p /\ TellsInv(i) /\ ledger \in Ledgers
      /\ sends \in Seq(Payment)
  BY <1>1 DEF XlmInv, XlmTypes
<1>5. ASSUME NEW told \in {"paid", "failed"}, Ends(i, told),
             UNCHANGED <<freighter, page, ledger>>,
             told = "paid" => i \in ledger.paid,
             told = "failed" => i \notin ledger.sent \cup ledger.paid
      PROVE  XlmInv'
  <2>1. PICK q \in Payment : q = [p EXCEPT !.pc = "done", !.told = told] /\ q.pc = "done" /\ q.told = told
    <3>1. p \in Payment /\ told \in Told
      BY <1>1 DEF Told
    <3> QED BY ONLY <3>1, EditsTold
  <2>2. sends' = [sends EXCEPT ![i] = q]
    BY <1>2, <1>5, <2>1 DEF Ends, Goes
  <2> QED BY <1>2, <1>5, <2>1, <2>2, FormSteps
<1>6. ASSUME NEW pc \in {"submit", "refused"}, sends' = [sends EXCEPT ![i] = [p EXCEPT !.pc = pc]],
             p.pc = "sign", UNCHANGED <<freighter, page, ledger>>
      PROVE  XlmInv'
  <2>1. PICK q \in Payment : q = [p EXCEPT !.pc = pc] /\ q.pc = pc /\ q.told = p.told
    <3>1. p \in Payment /\ pc \in Codes
      BY <1>1 DEF Codes
    <3> QED BY ONLY <3>1, EditsCode
  <2>2. i \notin ledger.sent \cup ledger.paid /\ p.told = "busy"
    BY <1>1, <1>2, <1>6 DEF TellsInv, Over
  <2> QED BY <1>2, <1>6, <2>1, <2>2, FormSteps
<1>7. CASE AccountLoaded(i)
  <2>1. /\ p.pc = "load" /\ UNCHANGED <<freighter, page, ledger>>
        /\ i \notin ledger.sent \cup ledger.paid /\ p.told = "busy"
    BY <1>1, <1>2, <1>7 DEF AccountLoaded, TellsInv, Over
  <2>2. CASE Ends(i, "failed")
    BY <1>5, <2>1, <2>2
  <2>3. CASE Goes(i, [sends[i] EXCEPT !.pc = "sign", !.seq = ledger.seq[sends[i].from] + 1])
    <3>1. PICK n \in Nat : n = ledger.seq[sends[i].from] + 1
      <4>1. ledger.seq \in [XlmAccounts -> Nat] /\ sends[i].from \in XlmAccounts
        BY <1>1, <1>2 DEF Payment
      <4> QED BY <4>1
    <3>2. PICK q \in Payment : q = [p EXCEPT !.pc = "sign", !.seq = n] /\ q.pc = "sign" /\ q.told = p.told
      <4>1. p \in Payment /\ n \in Nat
        BY <1>1
      <4> QED BY ONLY <4>1, EditsSeq
    <3>3. sends' = [sends EXCEPT ![i] = q]
      BY <1>2, <2>3, <3>1, <3>2 DEF Goes
    <3> QED BY <1>2, <2>1, <3>2, <3>3, FormSteps
  <2> QED BY <1>7, <2>2, <2>3 DEF AccountLoaded
<1>8. CASE Signed(i)
  <2>1. /\ p.pc = "sign" /\ UNCHANGED <<freighter, page, ledger>>
        /\ i \notin ledger.sent \cup ledger.paid
    BY <1>1, <1>2, <1>8 DEF Signed, TellsInv, Over
  <2>2. PICK pc \in {"submit", "refused"} :
          pc = IF freighter = sends[i].from THEN "submit" ELSE "refused"
    OBVIOUS
  <2>3. sends' = [sends EXCEPT ![i] = [p EXCEPT !.pc = pc]] \/ Ends(i, "failed")
    BY <1>2, <1>8, <2>2 DEF Signed, Goes
  <2> QED BY <1>5, <1>6, <2>1, <2>3
<1>9. CASE Refused(i)
  <2>1. /\ Ends(i, "failed") /\ UNCHANGED <<freighter, page, ledger>>
        /\ i \notin ledger.sent \cup ledger.paid
    BY <1>1, <1>2, <1>9 DEF Refused, TellsInv, Over
  <2> QED BY <1>5, <2>1
<1>10. CASE Submitted(i)
  <2>1. /\ p.pc = "submit" /\ sends' = [sends EXCEPT ![i] = [p EXCEPT !.pc = "wait"]]
        /\ ledger' = [ledger EXCEPT !.sent = ledger.sent \cup {i}]
        /\ UNCHANGED <<freighter, page>> /\ p.told = "busy"
    BY <1>1, <1>2, <1>10 DEF Submitted, Goes, TellsInv, Over
  <2>2. /\ ledger' \in Ledgers /\ ledger'.sent = ledger.sent \cup {i} /\ ledger'.paid = ledger.paid
    BY <1>2, <2>1
  <2>3. PICK q \in Payment : q = [p EXCEPT !.pc = "wait"] /\ q.pc = "wait" /\ q.told = p.told
    BY <1>1, EditsCode DEF Codes
  <2> QED BY <1>2, <2>1, <2>2, <2>3, FormSteps
<1>11. CASE Answered(i)
  <2>1. /\ Ends(i, IF i \in ledger.paid THEN "paid" ELSE "failed")
        /\ UNCHANGED <<freighter, page, ledger>> /\ i \notin ledger.sent
    BY <1>11 DEF Answered
  <2>2. CASE i \in ledger.paid
    BY <1>5, <2>1, <2>2
  <2>3. CASE i \notin ledger.paid
    BY <1>5, <2>1, <2>3
  <2> QED BY <2>2, <2>3
<1>12. CASE TimedOut(i)
  <2>1. PICK q \in Payment : q = [p EXCEPT !.pc = "cut", !.told = "failed"] /\ q.pc = "cut" /\ q.told = "failed"
    <3>1. p \in Payment
      BY <1>1
    <3> QED BY ONLY <3>1, EditsCut
  <2>2. sends' = [sends EXCEPT ![i] = q] /\ UNCHANGED <<freighter, page, ledger>>
    BY <1>2, <1>12, <2>1 DEF TimedOut, Goes
  <2> QED BY <1>2, <2>1, <2>2, FormSteps
<1>13. ASSUME i \in ledger.sent, UNCHANGED <<freighter, page, sends>>, ledger' \in Ledgers,
              ledger'.sent = ledger.sent \ {i}, ledger'.paid \in {ledger.paid, ledger.paid \cup {i}}
       PROVE  XlmInv'
  <2>1. XlmTypes'
    BY <1>2, <1>13 DEF XlmInv, XlmTypes
  <2>2. TellsInv(i)'
    BY <1>2, <1>13 DEF TellsInv, Over
  <2>3. \A k \in DOMAIN sends \ {i} : TellsInv(k)'
    BY <1>13 DEF XlmInv, TellsInv, Over
  <2> QED BY <1>13, <2>1, <2>2, <2>3 DEF XlmInv
<1>14. CASE Applied(i)
  <2> DEFINE next == p.seq = ledger.seq[p.from] + 1
             pays == next /\ ledger.left[p.from] > 0
             seq == IF next THEN [ledger.seq EXCEPT ![p.from] = @ + 1] ELSE ledger.seq
             left == IF pays THEN [ledger.left EXCEPT ![p.from] = @ - 1] ELSE ledger.left
             paid == IF pays THEN ledger.paid \cup {i} ELSE ledger.paid
  <2>1. /\ i \in ledger.sent /\ UNCHANGED <<freighter, page, sends>>
        /\ ledger' = [seq |-> seq, left |-> left, paid |-> paid, sent |-> ledger.sent \ {i}]
    BY <1>2, <1>14 DEF Applied
  <2>2. seq \in [XlmAccounts -> Nat] /\ left \in [XlmAccounts -> Nat]
    <3>1. PICK f, g : /\ f = ledger.seq /\ f \in [XlmAccounts -> Nat]
                      /\ g = ledger.left /\ g \in [XlmAccounts -> Nat]
      BY <1>2
    <3>2. p.from \in XlmAccounts
      BY <1>1 DEF Payment
    <3>3. [f EXCEPT ![p.from] = @ + 1] \in [XlmAccounts -> Nat]
      BY <3>1, <3>2
    <3>4. pays => [g EXCEPT ![p.from] = @ - 1] \in [XlmAccounts -> Nat]
      BY <3>1, <3>2
    <3> QED BY <3>1, <3>3, <3>4
  <2>3. paid \in {ledger.paid, ledger.paid \cup {i}} /\ paid \in SUBSET DOMAIN sends
    BY <1>2
  <2> HIDE DEF seq, left, paid
  <2>4. /\ ledger' \in Ledgers /\ ledger'.sent = ledger.sent \ {i} /\ ledger'.paid = paid
    BY <1>2, <2>1, <2>2, <2>3
  <2> QED BY <1>13, <2>1, <2>3, <2>4
<1>15. CASE Expired(i)
  <2>1. /\ i \in ledger.sent /\ UNCHANGED <<freighter, page, sends>>
        /\ ledger' = [ledger EXCEPT !.sent = ledger.sent \ {i}]
    BY <1>15 DEF Expired
  <2>2. /\ ledger' \in Ledgers /\ ledger'.sent = ledger.sent \ {i} /\ ledger'.paid = ledger.paid
    BY <1>2, <2>1
  <2> QED BY <1>13, <2>1, <2>2
<1> QED BY <1>7, <1>8, <1>9, <1>10, <1>11, <1>12, <1>14, <1>15 DEF SendStep

\* Every step of the /wallet page keeps what is told true.
LEMMA StepXlm == XlmInv /\ [Next]_vars => XlmInv'
<1> SUFFICES ASSUME XlmInv, [Next]_vars
             PROVE  XlmInv'
  OBVIOUS
<1>1. CASE UNCHANGED xlmVars
  BY <1>1 DEF xlmVars, XlmInv, XlmTypes, TellsInv, Over
<1> QED BY <1>1, Apart, PageSteps, HidesForms, SendsOne, SendSteps DEF XlmStep

\* What the page says of a payment stays true.
THEOREM PaymentAlwaysTold == Spec => []PaymentTold
<1>1. XlmInv => PaymentTold
  BY DEF XlmInv, TellsInv, PaymentTold
<1> QED BY <1>1, InitXlm, StepXlm, PTL DEF Spec
-----------------------------------------------------------------------------
(* The match page's pools *)

Bet == [outcome : Outcome, amount : Amounts]

\* Some places among the bets, each at most once: rows, or all of them.
Rows(bs, r) ==
  /\ r \in Seq(DOMAIN bs)
  /\ \A j, k \in DOMAIN r : r[j] = r[k] => j = k

\* The rows about an outcome, their stakes, and what these add up to.
About(bs, r, o)  == {j \in DOMAIN r : bs[r[j]].outcome = o}
Stakes(bs, r, o) == [j \in About(bs, r, o) |-> bs[r[j]].amount]
Staked(bs, r, o) == SumOf(Stakes(bs, r, o), About(bs, r, o))

All(bs) == [i \in DOMAIN bs |-> i]

\* The stakes of some rows add up to a natural number.
LEMMA StakesTyped ==
  ASSUME NEW bs \in Seq(Bet), NEW r, Rows(bs, r), NEW o
  PROVE  /\ IsFiniteSet(About(bs, r, o))
         /\ \A j \in About(bs, r, o) : Stakes(bs, r, o)[j] \in Nat
         /\ Weights(Stakes(bs, r, o), About(bs, r, o))
         /\ Staked(bs, r, o) \in Nat
<1>1. IsFiniteSet(About(bs, r, o))
  <2>1. PICK n \in Nat : DOMAIN r = 1 .. n
    BY DEF Rows
  <2>2. IsFiniteSet(1 .. n)
    BY FS_Interval
  <2> QED BY <2>1, <2>2, FS_Subset DEF About
<1>2. \A j \in About(bs, r, o) : Stakes(bs, r, o)[j] \in Nat
  <2>1. ASSUME NEW j \in About(bs, r, o) PROVE bs[r[j]].amount \in Nat
    <3>1. r[j] \in DOMAIN bs
      BY DEF Rows, About
    <3>2. bs[r[j]] \in Bet
      BY <3>1
    <3> QED BY <3>2, PanelAssumption DEF Bet
  <2> QED BY <2>1 DEF Stakes
<1>3. Weights(Stakes(bs, r, o), About(bs, r, o))
  BY <1>1, <1>2 DEF Weights
<1>4. Staked(bs, r, o) \in Int
  BY <1>3, SumTypes DEF Staked
<1>5. \A j \in About(bs, r, o) : Stakes(bs, r, o)[j] >= 0
  BY <1>2
<1>6. Staked(bs, r, o) >= 0
  BY <1>3, <1>5, SumNotNegative DEF Staked
<1> QED BY <1>1, <1>2, <1>3, <1>4, <1>6

\* All the bets are rows.
LEMMA AllRows ==
  ASSUME NEW bs \in Seq(Bet)
  PROVE  Rows(bs, All(bs)) /\ DOMAIN All(bs) = DOMAIN bs
<1>1. PICK n \in Nat : DOMAIN bs = 1 .. n
  OBVIOUS
<1>2. All(bs) = [i \in 1 .. n |-> i]
  BY <1>1 DEF All
<1>3. All(bs) \in Seq(1 .. n)
  BY <1>2
<1> QED BY <1>1, <1>2, <1>3 DEF Rows

\* bs may have been added to.
Longer(bs, bt) == DOMAIN bs \subseteq DOMAIN bt /\ \A i \in DOMAIN bs : bt[i] = bs[i]

\* Rows, each of another bet, add up to no more than all the bets.
LEMMA RowsWithin ==
  ASSUME NEW bs \in Seq(Bet), NEW bt \in Seq(Bet), Longer(bs, bt),
         NEW r, Rows(bs, r), NEW o
  PROVE  Staked(bs, r, o) <= Staked(bt, All(bt), o)
<1> DEFINE T == About(bs, r, o)
           S == About(bt, All(bt), o)
           p == [j \in T |-> r[j]]
           f == Stakes(bt, All(bt), o)
           h == Stakes(bs, r, o)
<1>1. Rows(bt, All(bt)) /\ DOMAIN All(bt) = DOMAIN bt
  BY AllRows
<1>2. Weights(f, S) /\ \A y \in S : f[y] \in Nat
  BY <1>1, StakesTyped
<1>3. IsFiniteSet(T)
  BY StakesTyped
<1>4. ASSUME NEW j \in T
      PROVE  r[j] \in S /\ h[j] = f[r[j]]
  <2>1. j \in DOMAIN r /\ r[j] \in DOMAIN bs /\ bs[r[j]].outcome = o
    BY DEF About, Rows
  <2>2. r[j] \in DOMAIN bt /\ bt[r[j]] = bs[r[j]] /\ All(bt)[r[j]] = r[j]
    BY <2>1 DEF Longer, All
  <2>3. r[j] \in S
    BY <1>1, <2>1, <2>2 DEF About
  <2>4. h[j] = bs[r[j]].amount /\ f[r[j]] = bt[r[j]].amount
    BY <2>2, <2>3 DEF Stakes
  <2> QED BY <2>2, <2>3, <2>4
<1>5. \A j, k \in T : r[j] = r[k] => j = k
  BY DEF About, Rows
<1>6. /\ p \in [T -> S]
      /\ \A j, k \in T : p[j] = p[k] => j = k
      /\ \A j \in T : h[j] = f[p[j]]
  BY <1>4, <1>5
<1>7. \A y \in S : f[y] >= 0
  BY <1>2
<1> HIDE DEF T, S, p, f, h
<1>8. SumOf(h, T) <= SumOf(f, S)
  BY <1>2, <1>3, <1>6, <1>7, SumInjects
<1> QED BY <1>8 DEF Staked, T, S, f, h

\* Pools adds the stakes up so.
PoolsIn(bs, r) ==
  [o \in Outcome |-> MapThenSumSet(LAMBDA j : bs[r[j]].amount,
                                   {j \in DOMAIN r : bs[r[j]].outcome = o})]

\* The fold over the rows is the sum of their stakes.
LEMMA PoolsAdd ==
  ASSUME NEW bs \in Seq(Bet), NEW r, Rows(bs, r), NEW o \in Outcome
  PROVE  PoolsIn(bs, r)[o] = Staked(bs, r, o)
<1> DEFINE S == About(bs, r, o)
           f == Stakes(bs, r, o)
           Sums(h) == h = [s \in SUBSET S |->
             IF s = {} THEN 0
             ELSE bs[r[CHOOSE x \in s : TRUE]].amount + h[s \ {CHOOSE x \in s : TRUE}]]
           sum == CHOOSE h : Sums(h)
<1>1. PoolsIn(bs, r)[o] = MapThenSumSet(LAMBDA j : bs[r[j]].amount, S)
  BY DEF PoolsIn, About
<1>1a. MapThenSumSet(LAMBDA j : bs[r[j]].amount, S) = sum[S]
  BY DEF MapThenSumSet, MapThenFoldSet
<1>2. \A h : Sums(h) <=> Takes(h, f, S)
  BY DEF Takes, Stakes
<1>3. Weights(f, S)
  BY StakesTyped
<1> HIDE DEF Sums
<1>4. Takes(sum, f, S)
  <2>1. \E h : Sums(h)
    BY <1>2, <1>3, TakesSum
  <2>2. Sums(sum)
    BY <2>1
  <2> QED BY <1>2, <2>2
<1>5. sum[S] = SumOf(f, S)
  BY <1>3, <1>4, TakesSum
<1> QED BY <1>1, <1>1a, <1>5 DEF Staked

\* The pools of the model are these.
LEMMA PoolsAre == \A r : Pools(r) = PoolsIn(bets, r)
  BY DEF Pools, PoolsIn

\* So are those on the chain,
LEMMA OnChainIs == OnChain = PoolsIn(bets, All(bets))
  BY PoolsAre DEF OnChain, All

\* and those on it after the step.
LEMMA NextOnChain == (OnChain = PoolsIn(bets, All(bets)))'
  BY OnChainIs, PTL

\* Pools that the chain has, or had at some time.
Within(pools, chain) ==
  pools \in [Outcome -> Nat] /\ \A o \in Outcome : pools[o] <= chain[o]

\* Bets are only added to the chain.
LEMMA ChainGrows ==
  ASSUME bets \in Seq(Bet), bets' \in Seq(Bet), Longer(bets, bets')
  PROVE  /\ OnChain \in [Outcome -> Nat] /\ OnChain' \in [Outcome -> Nat]
         /\ \A p : Within(p, OnChain) => Within(p, OnChain')
         /\ \A r : Rows(bets, r) => Rows(bets', r) /\ Within(Pools(r), OnChain)
<1>1. PICK bs, bt : bs = bets /\ bt = bets'
  OBVIOUS
<1>2. bs \in Seq(Bet) /\ bt \in Seq(Bet) /\ Longer(bs, bt) /\ Longer(bs, bs)
  BY <1>1 DEF Longer
<1>3. Rows(bs, All(bs)) /\ Rows(bt, All(bt))
  BY <1>2, AllRows
<1>4. PICK c, d : c = OnChain /\ d = OnChain' /\ c = PoolsIn(bs, All(bs)) /\ d = PoolsIn(bt, All(bt))
  <2>1. OnChain' = PoolsIn(bets', All(bets'))
    BY NextOnChain
  <2> QED BY <1>1, <2>1, OnChainIs
<1>5. ASSUME NEW r, NEW bv \in Seq(Bet), Rows(bv, r)
      PROVE  /\ PoolsIn(bv, r) \in [Outcome -> Nat]
             /\ \A o \in Outcome : PoolsIn(bv, r)[o] = Staked(bv, r, o)
  <2>1. \A o \in Outcome : PoolsIn(bv, r)[o] = Staked(bv, r, o) /\ Staked(bv, r, o) \in Nat
    BY <1>5, PoolsAdd, StakesTyped
  <2>2. PoolsIn(bv, r) = [o \in Outcome |-> PoolsIn(bv, r)[o]]
    BY DEF PoolsIn
  <2> QED BY <2>1, <2>2
<1>6. ASSUME NEW r, Rows(bs, r)
      PROVE  /\ \A o \in Outcome : PoolsIn(bs, r)[o] <= c[o] /\ PoolsIn(bs, r)[o] <= d[o]
  <2>1. ASSUME NEW o \in Outcome
        PROVE  Staked(bs, r, o) <= Staked(bs, All(bs), o) /\ Staked(bs, r, o) <= Staked(bt, All(bt), o)
    BY <1>2, <1>6, RowsWithin
  <2> QED BY <1>2, <1>3, <1>4, <1>5, <1>6, <2>1
<1>7. c \in [Outcome -> Nat] /\ d \in [Outcome -> Nat] /\ \A o \in Outcome : c[o] <= d[o]
  BY <1>2, <1>3, <1>4, <1>5, <1>6
<1>8. \A p : Within(p, c) => Within(p, d)
  BY <1>7 DEF Within
<1>9. \A r : Rows(bs, r) => Rows(bt, r)
  <2>1. DOMAIN bs \subseteq DOMAIN bt
    BY <1>2 DEF Longer
  <2>2. \A r \in Seq(DOMAIN bs) : r \in Seq(DOMAIN bt)
    BY <2>1
  <2> QED BY <2>2 DEF Rows
<1>10. \A r : Rows(bs, r) => Within(Pools(r), c)
  BY <1>1, <1>2, <1>5, <1>6, PoolsAre DEF Within
<1> QED BY <1>1, <1>4, <1>7, <1>8, <1>9, <1>10
-----------------------------------------------------------------------------
(* The reports of the pools, to whoever follows a match *)

Reads  == [DOMAIN NotRead -> SUBSET [Outcome -> Nat]]
Report == [pools : [Outcome -> Nat], odds : [Outcome -> Nat], by : {"page", "contract"}]
Market == [next : Nat \ {0}, pc : {"next", "read"}, read : Reads, rows : Seq(Nat), replays : Nat]

\* Nothing is reported that the chain never had.
Reported(report, chain) ==
  report \in Report /\ Within(report.pools, chain) /\ Within(report.odds, chain)

MarketInv(chain) ==
  /\ market \in Market
  /\ Rows(bets, market.rows)
  /\ \A what \in DOMAIN NotRead : \A pools \in market.read[what] : Within(pools, chain)

RestInv(chain) == rest.pc = "answered" => Within(rest.pools, chain)

MessagesInv(chain) ==
  messages \in Seq(Report) /\ \A k \in DOMAIN messages : Reported(messages[k], chain)

PanelInv ==
  /\ bets \in Seq(Bet)
  /\ MarketInv(OnChain)
  /\ Reported(panel, OnChain)
  /\ RestInv(OnChain)
  /\ MessagesInv(OnChain)

\* An empty pool is never too large.
LEMMA NothingWithin ==
  ASSUME NEW chain \in [Outcome -> Nat]
  PROVE  /\ Within(NoPools, chain) /\ NoPools \in [Outcome -> Nat]
         /\ Reported([pools |-> NoPools, odds |-> NoPools, by |-> "page"], chain)
<1>1. Within(NoPools, chain) /\ NoPools \in [Outcome -> Nat]
  BY DEF Within, NoPools
<1> HIDE DEF NoPools
<1> QED BY <1>1 DEF Reported, Report

\* Nothing has been read.
LEMMA NotReadIs ==
  /\ DOMAIN NotRead = {"getMarket", "getOdds"} /\ NotRead \in Reads
  /\ \A what \in DOMAIN NotRead : NotRead[what] = {}
  BY DEF NotRead, Reads

\* No bets, no reports.
LEMMA InitPanel == Init => PanelInv
<1> SUFFICES ASSUME Init PROVE PanelInv
  OBVIOUS
<1>1. /\ bets = <<>> /\ market = [next |-> 1, pc |-> "next", read |-> NotRead, rows |-> <<>>, replays |-> 0]
      /\ panel = [pools |-> NoPools, odds |-> NoPools, by |-> "page"]
      /\ rest = [pc |-> "asked"] /\ messages = <<>>
  BY DEF Init, PanelInit
<1>2. bets \in Seq(Bet) /\ Rows(bets, <<>>) /\ messages \in Seq(Report) /\ DOMAIN messages = {}
  BY <1>1 DEF Rows
<1>3. OnChain \in [Outcome -> Nat]
  <2>1. PICK bs : bs = bets
    OBVIOUS
  <2>2. Rows(bs, All(bs)) /\ bs \in Seq(Bet)
    BY <1>2, <2>1, AllRows
  <2>3. \A o \in Outcome : PoolsIn(bs, All(bs))[o] \in Nat
    BY <2>2, PoolsAdd, StakesTyped
  <2>4. PoolsIn(bs, All(bs)) = [o \in Outcome |-> PoolsIn(bs, All(bs))[o]]
    BY DEF PoolsIn
  <2>5. PoolsIn(bs, All(bs)) \in [Outcome -> Nat]
    BY <2>3, <2>4
  <2> QED BY <2>1, <2>5, OnChainIs
<1>4. MarketInv(OnChain)
  <2>1. market \in Market /\ market.rows = <<>> /\ market.read = NotRead
    BY <1>1, NotReadIs DEF Market
  <2> QED BY <1>2, <2>1, NotReadIs DEF MarketInv
<1> QED BY <1>1, <1>2, <1>3, <1>4, NothingWithin DEF PanelInv, RestInv, MessagesInv

\* A bet makes the chain larger, and every report is of rows that it has.
LEMMA StepPanel == PanelInv /\ [Next]_vars => PanelInv'
<1> SUFFICES ASSUME PanelInv, [Next]_vars
             PROVE  PanelInv'
  OBVIOUS
<1>1. bets' \in Seq(Bet) /\ Longer(bets, bets')
  <2>1. CASE bets' = bets
    BY <2>1 DEF PanelInv, Longer
  <2>2. CASE BetPlaced
    <3>1. PICK o \in Outcome, a \in Amounts : bets' = Append(bets, [outcome |-> o, amount |-> a])
      BY <2>2 DEF BetPlaced
    <3>2. PICK b \in Bet : b = [outcome |-> o, amount |-> a]
      BY DEF Bet
    <3>3. bets' = Append(bets, b) /\ bets \in Seq(Bet)
      BY <3>1, <3>2 DEF PanelInv
    <3> QED BY <3>3 DEF Longer
  <2> QED BY <2>1, <2>2, Apart
          DEF PanelStep, BetRecorded, ContractRead, BetTold, Replayed, TradersAnswered,
              PoolsSeeded, BetHeard, AnswerMissing, Reloaded, panelVars
<1>2. PICK chain, next : chain = OnChain /\ next = OnChain'
  OBVIOUS
<1>3. /\ chain \in [Outcome -> Nat] /\ next \in [Outcome -> Nat]
      /\ \A p : Within(p, chain) => Within(p, next)
      /\ \A r : Rows(bets, r) => Rows(bets', r) /\ Within(Pools(r), chain)
  BY <1>1, <1>2, ChainGrows DEF PanelInv
<1>4. /\ MarketInv(chain) /\ Reported(panel, chain) /\ RestInv(chain) /\ MessagesInv(chain)
  BY <1>2 DEF PanelInv
<1>5. \A report : Reported(report, chain) => Reported(report, next)
  BY <1>3 DEF Reported
<1>6. /\ UNCHANGED panel => Reported(panel', next)
      /\ UNCHANGED rest => RestInv(next)'
      /\ UNCHANGED messages => MessagesInv(next)'
  BY <1>3, <1>4, <1>5 DEF RestInv, MessagesInv
<1>7. ASSUME NEW m \in Market, market' = m, Rows(bets, m.rows),
             \A what \in DOMAIN NotRead : \A pools \in m.read[what] : Within(pools, chain)
      PROVE  MarketInv(next)'
  BY <1>3, <1>7 DEF MarketInv
<1>8. UNCHANGED market => MarketInv(next)'
  BY <1>4, <1>7 DEF MarketInv
<1>9. /\ messages' = <<>> => MessagesInv(next)'
      /\ rest'.pc \in {"none", "asked"} => RestInv(next)'
  <2>1. <<>> \in Seq(Report) /\ DOMAIN <<>> = {}
    OBVIOUS
  <2>2. messages' = <<>> => MessagesInv(next)'
    BY <2>1 DEF MessagesInv
  <2>3. rest'.pc \in {"none", "asked"} => RestInv(next)'
    BY DEF RestInv
  <2> QED BY <2>2, <2>3
<1>10. SUFFICES MarketInv(next)' /\ Reported(panel', next) /\ RestInv(next)' /\ MessagesInv(next)'
  BY <1>1, <1>2 DEF PanelInv, MarketInv, RestInv, MessagesInv
<1>11. market \in Market /\ Rows(bets, market.rows)
       /\ \A what \in DOMAIN NotRead : \A pools \in market.read[what] : Within(pools, chain)
  BY <1>4 DEF MarketInv
<1>12. CASE UNCHANGED panelVars \/ BetPlaced
  BY <1>6, <1>8, <1>12 DEF panelVars, BetPlaced
<1>13. CASE BetRecorded
  <2>1. UNCHANGED <<bets, panel, rest, messages>>
    BY <1>13 DEF BetRecorded
  <2>2. CASE market' = [market EXCEPT !.rows = insertTrader(market.next), !.pc = "read"]
    <3>1. market.next \in DOMAIN bets
      BY <1>11, <1>13 DEF BetRecorded, Market, PanelInv
    <3>2. Rows(bets, insertTrader(market.next))
      <4>1. CASE market.next \in ToSet(market.rows)
        BY <1>11, <4>1 DEF insertTrader
      <4>2. CASE market.next \notin ToSet(market.rows)
        <5>1. \A j \in DOMAIN market.rows : market.rows[j] # market.next
          BY <4>2 DEF ToSet
        <5>2. PICK r, i : r = market.rows /\ i = market.next /\ r \in Seq(DOMAIN bets)
          BY <1>11 DEF Rows
        <5>3. insertTrader(market.next) = Append(r, i)
          BY <4>2, <5>2 DEF insertTrader
        <5>4. /\ Append(r, i) \in Seq(DOMAIN bets) /\ DOMAIN Append(r, i) = 1 .. Len(r) + 1
              /\ DOMAIN r = 1 .. Len(r) /\ Append(r, i)[Len(r) + 1] = i /\ Len(r) \in Nat
              /\ \A j \in 1 .. Len(r) : Append(r, i)[j] = r[j]
          BY <3>1, <5>2
        <5>5. \A j, k \in DOMAIN r : r[j] = r[k] => j = k
          BY <1>11, <5>2 DEF Rows
        <5> QED BY <5>1, <5>2, <5>3, <5>4, <5>5 DEF Rows
      <4> QED BY <4>1, <4>2
    <3>3. PICK rows : rows = insertTrader(market.next)
      OBVIOUS
    <3>4. rows \in Seq(Nat)
      <4>1. DOMAIN bets \subseteq Nat
        BY DEF PanelInv
      <4>2. rows \in Seq(DOMAIN bets)
        BY <3>2, <3>3 DEF Rows
      <4> QED BY <4>1, <4>2
    <3>5. PICK x : x = [market EXCEPT !.rows = rows]
      OBVIOUS
    <3>6. x \in Market /\ x.rows = rows /\ x.read = market.read
      BY <1>11, <3>4, <3>5 DEF Market
    <3>7. PICK m : m = [x EXCEPT !.pc = "read"]
      OBVIOUS
    <3>8. m \in Market /\ m.rows = rows /\ m.read = market.read
      BY <3>6, <3>7 DEF Market
    <3>9. market' = m
      BY <2>2, <3>3, <3>5, <3>7
    <3>10. MarketInv(next)'
      BY <1>7, <1>11, <3>2, <3>3, <3>8, <3>9
    <3> QED BY <1>6, <2>1, <3>10
  <2>3. CASE market' = [market EXCEPT !.next = @ + 1]
    <3>1. PICK m : m = market' /\ m \in Market /\ m.rows = market.rows /\ m.read = market.read
      BY <1>11, <2>3 DEF Market
    <3>2. MarketInv(next)'
      BY <1>7, <1>11, <3>1
    <3> QED BY <1>6, <2>1, <3>2
  <2> QED BY <1>13, <2>2, <2>3 DEF BetRecorded
<1>14. ASSUME NEW what \in DOMAIN NotRead, ContractRead(what)
       PROVE  MarketInv(next)' /\ Reported(panel', next) /\ RestInv(next)' /\ MessagesInv(next)'
  <2>1. UNCHANGED <<bets, panel, rest, messages>>
    BY <1>14 DEF ContractRead
  <2>2. PICK p : Within(p, chain) /\ market' = [market EXCEPT !.read[what] = {p}]
    BY <1>2, <1>3, <1>14, NothingWithin DEF ContractRead, Within
  <2>3. PICK m : m = [market EXCEPT !.read[what] = {p}]
    OBVIOUS
  <2>4. PICK reads : reads = [market.read EXCEPT ![what] = {p}]
    OBVIOUS
  <2>5. market.read \in Reads
    BY <1>11 DEF Market
  <2>6. reads \in Reads /\ \A w \in DOMAIN NotRead : \A pools \in reads[w] : Within(pools, chain)
    <3>1. p \in [Outcome -> Nat]
      BY <2>2 DEF Within
    <3> QED BY <1>11, <2>2, <2>4, <2>5, <3>1 DEF Reads
  <2>7. m = [market EXCEPT !.read = reads]
    BY <2>3, <2>4, <1>11 DEF Market
  <2>8. m \in Market /\ m.rows = market.rows /\ m.read = reads
    BY <1>11, <2>6, <2>7 DEF Market
  <2>9. MarketInv(next)'
    BY <1>7, <1>11, <2>2, <2>3, <2>6, <2>8
  <2> QED BY <1>6, <2>1, <2>9
<1>15. ASSUME NEW m, market' = m, m.read = NotRead, m.rows = market.rows, m \in Market
       PROVE  MarketInv(next)'
  BY <1>7, <1>11, <1>15, NotReadIs
<1>16. CASE BetTold
  <2>1. UNCHANGED <<bets, panel, rest>> /\ market' = Handled
    BY <1>16 DEF BetTold
  <2>2. PICK x : x = [market EXCEPT !.read = NotRead]
    OBVIOUS
  <2>3. x \in Market /\ x.read = NotRead /\ x.rows = market.rows
    BY <1>11, <2>2, NotReadIs DEF Market
  <2>4. PICK y : y = [x EXCEPT !.pc = "next"]
    OBVIOUS
  <2>5. y \in Market /\ y.read = NotRead /\ y.rows = market.rows /\ y.next = market.next
    BY <1>11, <2>2, <2>3, <2>4 DEF Market
  <2>6. PICK z : z = [y EXCEPT !.next = @ + 1]
    OBVIOUS
  <2>7. z \in Market /\ z.read = NotRead /\ z.rows = market.rows
    BY <2>5, <2>6 DEF Market
  <2>8. market' = z
    BY <2>1, <2>2, <2>4, <2>5, <2>6 DEF Handled
  <2>9. MarketInv(next)'
    BY <1>15, <2>7, <2>8
  <2>10. MessagesInv(next)'
    <3>1. CASE UNCHANGED messages
      BY <1>6, <3>1
    <3>2. ASSUME NEW pools \in market.read["getMarket"], NEW odds \in market.read["getOdds"],
                 messages' = Append(messages, [pools |-> pools, odds |-> odds, by |-> "contract"])
          PROVE  MessagesInv(next)'
      <4>1. Within(pools, chain) /\ Within(odds, chain)
        BY <1>11, <3>2, NotReadIs
      <4>2. PICK q : q = [pools |-> pools, odds |-> odds, by |-> "contract"] /\ Reported(q, next)
        BY <1>5, <4>1 DEF Reported, Report, Within
      <4>3. messages \in Seq(Report) /\ \A k \in DOMAIN messages : Reported(messages[k], next)
        BY <1>4, <1>5 DEF MessagesInv
      <4>4. messages' = Append(messages, q) /\ q \in Report
        BY <3>2, <4>2 DEF Reported
      <4>5. /\ messages' \in Seq(Report) /\ DOMAIN messages' = 1 .. Len(messages) + 1
            /\ DOMAIN messages = 1 .. Len(messages) /\ messages'[Len(messages) + 1] = q
            /\ Len(messages) \in Nat /\ \A k \in 1 .. Len(messages) : messages'[k] = messages[k]
        BY <4>3, <4>4
      <4> QED BY <4>2, <4>3, <4>5 DEF MessagesInv
    <3> QED BY <1>16, <3>1, <3>2 DEF BetTold
  <2> QED BY <1>6, <2>1, <2>9, <2>10
<1>17. CASE Replayed
  <2>1. UNCHANGED <<bets, panel, rest>> /\ messages' = <<>>
        /\ market' = [market EXCEPT !.next = 1, !.pc = "next", !.read = NotRead, !.replays = @ + 1]
    BY <1>17 DEF Replayed
  <2>2. PICK x : x = [market EXCEPT !.next = 1]
    OBVIOUS
  <2>3. x \in Market /\ x.rows = market.rows
    <3>1. PICK one \in Nat \ {0} : one = 1
      OBVIOUS
    <3>2. x = [market EXCEPT !.next = one]
      BY <2>2, <3>1
    <3> QED BY <1>11, <3>2 DEF Market
  <2>4. PICK y : y = [x EXCEPT !.pc = "next"]
    OBVIOUS
  <2>5. y \in Market /\ y.rows = market.rows
    BY <2>3, <2>4 DEF Market
  <2>6. PICK z : z = [y EXCEPT !.read = NotRead]
    OBVIOUS
  <2>7. z \in Market /\ z.read = NotRead /\ z.rows = market.rows
    BY <2>5, <2>6, NotReadIs DEF Market
  <2>8. PICK w : w = [z EXCEPT !.replays = market.replays + 1]
    OBVIOUS
  <2>9. w \in Market /\ w.read = NotRead /\ w.rows = market.rows
    BY <1>11, <2>7, <2>8 DEF Market
  <2>10. market' = w
    BY <2>1, <2>2, <2>4, <2>6, <2>8
  <2>11. MarketInv(next)'
    BY <1>15, <2>9, <2>10
  <2> QED BY <1>6, <1>9, <2>1, <2>11
<1>18. CASE TradersAnswered
  <2>1. UNCHANGED <<bets, market, panel, messages>> /\ rest' = [pc |-> "answered", pools |-> Pools(market.rows)]
    BY <1>18 DEF TradersAnswered
  <2>2. Within(Pools(market.rows), next)
    BY <1>3, <1>11
  <2> QED BY <1>6, <1>8, <2>1, <2>2 DEF RestInv
<1>19. CASE PoolsSeeded
  <2>1. /\ UNCHANGED <<bets, market, messages>> /\ rest' = [pc |-> "none"]
        /\ panel' = [pools |-> rest.pools, odds |-> rest.pools, by |-> "page"]
        /\ Within(rest.pools, next)
    BY <1>3, <1>4, <1>19 DEF PoolsSeeded, RestInv
  <2>2. Reported(panel', next)
    BY <2>1 DEF Reported, Report, Within
  <2> QED BY <1>6, <1>8, <1>9, <2>1, <2>2
<1>20. CASE BetHeard
  <2>1. /\ messages # <<>> /\ panel' = Head(messages) /\ messages' = Tail(messages)
        /\ UNCHANGED <<bets, market, rest>>
    BY <1>20 DEF BetHeard
  <2>2. messages \in Seq(Report) /\ \A k \in DOMAIN messages : Reported(messages[k], next)
    BY <1>4, <1>5 DEF MessagesInv
  <2>3. Reported(panel', next)
    BY <2>1, <2>2
  <2>4. MessagesInv(next)'
    BY <2>1, <2>2 DEF MessagesInv
  <2> QED BY <1>6, <1>8, <2>1, <2>3, <2>4
<1>21. CASE AnswerMissing
  BY <1>6, <1>8, <1>9, <1>21 DEF AnswerMissing
<1>22. CASE Reloaded
  <2>1. /\ panel' = [pools |-> NoPools, odds |-> NoPools, by |-> "page"]
        /\ rest' = [pc |-> "asked"] /\ messages' = <<>> /\ UNCHANGED <<bets, market>>
    BY <1>22 DEF Reloaded
  <2> QED BY <1>3, <1>8, <1>9, <2>1, NothingWithin
<1> QED BY <1>12, <1>13, <1>14, <1>16, <1>17, <1>18, <1>19, <1>20, <1>21, <1>22, Apart DEF PanelStep

\* However the rows, the replayed events and the messages cross, the page
\* shows no pool larger than the chain's.
THEOREM PoolsAreNeverOverstated == Spec => []PoolsNeverOverstated
<1>1. PanelInv => PoolsNeverOverstated
  BY DEF PanelInv, Reported, Within, PoolsNeverOverstated
<1> QED BY <1>1, InitPanel, StepPanel, PTL DEF Spec
-----------------------------------------------------------------------------
(* What a quote says, and what the contract pays for it *)

\* A quote in hundredths, by the page from the pools or by the contract from
\* the net of its fee, is within one hundredth of the payout for each staked
\* unit, and the rounding of the payout adds less than one unit.
LEMMA QuoteArithmetic ==
  ASSUME NEW stake \in Nat, NEW p \in Nat, 0 < stake, stake <= p,
         NEW T \in Nat, NEW N \in Nat, NEW P \in Nat, NEW q \in Nat,
         97 * T <= 100 * N, 100 * N <= 97 * T + 99,
         p * P <= stake * N, stake * N < p * P + p,
         \/ /\ (2 * p) * q <= 194 * T + p
            /\ 194 * T + p < (2 * p) * q + 2 * p
         \/ \E g \in Nat :
               /\ 100 * g <= 97 * T /\ N <= g + 1
               /\ p * q <= 100 * g /\ 100 * g < p * q + p
  PROVE  /\ stake * (q - 1) - 100 < 100 * P
         /\ 100 * P < stake * (q + 1) + 100
<1>1. PICK A \in Int, B \in Int, X \in Int, u \in Int, r \in Int, v \in Int :
        /\ A = stake * N /\ B = p * P /\ X = stake * T /\ u = stake * p
        /\ r = p * q /\ v = stake * r
  OBVIOUS
<1>2. 97 * X <= 100 * A /\ 100 * A <= 97 * X + 99 * stake
  <2>1. stake * (97 * T) <= stake * (100 * N)
    BY Scale
  <2>2. stake * (100 * N) <= stake * (97 * T + 99)
    BY Scale
  <2>3. /\ stake * (97 * T) = 97 * X /\ stake * (100 * N) = 100 * A
        /\ stake * (97 * T + 99) = 97 * X + 99 * stake
    BY <1>1
  <2> QED BY <2>1, <2>2, <2>3
<1>3. B <= A /\ A < B + p
  BY <1>1
<1>4. u >= 0
  BY <1>1
<1>5. v - u < 100 * B + 100 * p /\ 100 * B < v + u + 100 * p
  <2>1. CASE /\ (2 * p) * q <= 194 * T + p
             /\ 194 * T + p < (2 * p) * q + 2 * p
    <3>1. (2 * p) * q = 2 * r
      BY <1>1
    <3>2. 2 * r <= 194 * T + p /\ 194 * T + p + 1 <= 2 * r + 2 * p
      BY <2>1, <3>1, <1>1
    <3>3. stake * (2 * r) <= stake * (194 * T + p) /\ stake * (194 * T + p + 1) <= stake * (2 * r + 2 * p)
      BY <1>1, <3>2, Scale
    <3>4. /\ stake * (2 * r) = 2 * v /\ stake * (194 * T + p) = 194 * X + u
          /\ stake * (194 * T + p + 1) = 194 * X + u + stake /\ stake * (2 * r + 2 * p) = 2 * v + 2 * u
      BY <1>1
    <3>5. 2 * v <= 194 * X + u /\ 194 * X + u + stake <= 2 * v + 2 * u
      BY <3>3, <3>4
    <3> QED BY <1>2, <1>3, <1>4, <3>5
  <2>2. ASSUME NEW g \in Nat, 100 * g <= 97 * T, N <= g + 1,
               p * q <= 100 * g, 100 * g < p * q + p
        PROVE  v - u < 100 * B + 100 * p /\ 100 * B < v + u + 100 * p
    <3>1. PICK G \in Int : G = stake * g
      OBVIOUS
    <3>2. 100 * G <= 97 * X /\ A <= G + stake /\ v <= 100 * G /\ 100 * G + stake <= v + u
      <4>1. /\ stake * (100 * g) <= stake * (97 * T)
            /\ stake * N <= stake * (g + 1)
        BY <2>2, Scale
      <4>2. r <= 100 * g /\ 100 * g + 1 <= r + p
        BY <1>1, <2>2
      <4>3. stake * r <= stake * (100 * g) /\ stake * (100 * g + 1) <= stake * (r + p)
        BY <1>1, <4>2, Scale
      <4>4. /\ stake * (100 * g) = 100 * G /\ stake * (97 * T) = 97 * X
            /\ stake * (g + 1) = G + stake /\ stake * (100 * g + 1) = 100 * G + stake
            /\ stake * (r + p) = v + u
        BY <1>1, <3>1
      <4> QED BY <1>1, <4>1, <4>3, <4>4
    <3> QED BY <1>2, <1>3, <1>4, <3>1, <3>2
  <2> QED BY <2>1, <2>2
<1>6. /\ p * (100 * P) = 100 * B
      /\ p * (stake * (q - 1) - 100) = v - u - 100 * p
      /\ p * (stake * (q + 1) + 100) = v + u + 100 * p
  <2>1. v = p * (stake * q)
    BY <1>1
  <2>2. stake * (q - 1) = stake * q - stake /\ stake * (q + 1) = stake * q + stake
    OBVIOUS
  <2> QED BY <1>1, <2>1, <2>2
<1>7. 100 * P > stake * (q - 1) - 100
  <2>1. SUFFICES ASSUME 100 * P <= stake * (q - 1) - 100 PROVE FALSE
    OBVIOUS
  <2>2. p * (100 * P) <= p * (stake * (q - 1) - 100)
    BY <2>1, Scale
  <2> QED BY <1>1, <1>5, <1>6, <2>2
<1>8. 100 * P < stake * (q + 1) + 100
  <2>1. SUFFICES ASSUME stake * (q + 1) + 100 <= 100 * P PROVE FALSE
    OBVIOUS
  <2>2. p * (stake * (q + 1) + 100) <= p * (100 * P)
    BY <2>1, Scale
  <2> QED BY <1>1, <1>5, <1>6, <2>2
<1> QED BY <1>7, <1>8

\* Both derivations of a quote are such quotes.
LEMMA QuotesPay ==
  ASSUME NEW pools \in [Outcome -> Nat], NEW o \in Outcome, NEW stake \in Nat,
         0 < stake, stake <= pools[o],
         NEW q, q \in {deriveOddsFromPools(pools)[o], get_odds(pools)[o]}
  PROVE  /\ stake * (q - 1) - 100 < 100 * payout(pools, o, stake)
         /\ 100 * payout(pools, o, stake) < stake * (q + 1) + 100
<1>1. PICK p \in Nat, T \in Nat : p = pools[o] /\ T = Total(pools) /\ p > 0
  <2>1. Total(pools) \in Nat
    BY DEF Total, Outcome
  <2> QED BY <2>1
<1>2. PICK f \in Nat, N \in Int : f = (T * 3) \div 100 /\ N = T - f
  BY DivBounds
<1>3. 100 * f <= T * 3 /\ T * 3 < 100 * f + 100
  BY <1>2, DivBounds
<1>4. N \in Nat /\ 97 * T <= 100 * N /\ 100 * N <= 97 * T + 99
  BY <1>2, <1>3
<1>5. PICK a \in Nat : a = stake * N
  BY <1>4
<1>6. PICK P \in Nat : P = a \div p /\ p * P <= a /\ a < p * P + p
  BY <1>1, DivBounds
<1>7. payout(pools, o, stake) = P
  BY <1>1, <1>2, <1>5, <1>6 DEF payout
<1>8. PICK shown \in Nat : /\ shown = (194 * T + p) \div (2 * p)
                          /\ (2 * p) * shown <= 194 * T + p
                          /\ 194 * T + p < (2 * p) * shown + 2 * p
  <2>1. 194 * T + p \in Nat /\ 2 * p \in Nat /\ 2 * p > 0
    BY <1>1
  <2>2. PICK x \in Nat, w \in Nat : x = 194 * T + p /\ w = 2 * p /\ w > 0
    BY <2>1
  <2>3. x \div w \in Nat /\ w * (x \div w) <= x /\ x < w * (x \div w) + w
    BY <2>2, DivBounds
  <2> QED BY <2>2, <2>3
<1>9. PICK g \in Nat : g = (T * 97) \div 100 /\ 100 * g <= T * 97 /\ T * 97 < 100 * g + 100
  BY DivBounds
<1>10. PICK call \in Nat : call = (g * 100) \div p /\ p * call <= g * 100 /\ g * 100 < p * call + p
  BY <1>1, DivBounds
<1>11. q \in {shown, call}
  BY <1>1, <1>8, <1>9, <1>10 DEF deriveOddsFromPools, get_odds
<1>12. N <= g + 1
  BY <1>4, <1>9
<1>13. p * P <= stake * N /\ stake * N < p * P + p
  BY <1>5, <1>6
<1>14. \/ /\ (2 * p) * q <= 194 * T + p
          /\ 194 * T + p < (2 * p) * q + 2 * p
       \/ \E h \in Nat :
             /\ 100 * h <= 97 * T /\ N <= h + 1
             /\ p * q <= 100 * h /\ 100 * h < p * q + p
  <2>1. CASE q = shown
    BY <1>8, <2>1
  <2>2. CASE q = call
    <3>1. 100 * g <= 97 * T /\ p * call <= 100 * g /\ 100 * g < p * call + p
      BY <1>9, <1>10
    <3> QED BY <1>12, <2>2, <3>1
  <2> QED BY <1>11, <2>1, <2>2
<1>15. q \in Nat /\ stake <= p
  BY <1>1, <1>11
<1>16. /\ stake * (q - 1) - 100 < 100 * P
       /\ 100 * P < stake * (q + 1) + 100
  BY ONLY <1>4, <1>13, <1>14, <1>15, 0 < stake, stake \in Nat, p \in Nat, T \in Nat, P \in Nat, QuoteArithmetic
<1> QED BY <1>7, <1>16

THEOREM QuoteAlwaysPaid == Spec => []QuoteIsPaid
<1>1. ASSUME PanelInv PROVE QuoteIsPaid
  <2>1. SUFFICES ASSUME NEW o \in Outcome, NEW stake \in Amounts, stake <= panel.odds[o]
                 PROVE  LET paid == 100 * payout(panel.odds, o, stake) IN
                        /\ stake * (OddsDisplay[o] - 1) - 100 < paid
                        /\ paid < stake * (OddsDisplay[o] + 1) + 100
    BY DEF QuoteIsPaid
  <2>2. panel.odds \in [Outcome -> Nat]
    BY <1>1 DEF PanelInv, Reported, Within
  <2>3. stake \in Nat /\ 0 < stake
    BY PanelAssumption
  <2>4. PICK q, pools : q = OddsDisplay[o] /\ pools = panel.odds
    OBVIOUS
  <2>5. q \in {deriveOddsFromPools(pools)[o], get_odds(pools)[o]}
    BY <2>4 DEF OddsDisplay
  <2>6. /\ stake * (q - 1) - 100 < 100 * payout(pools, o, stake)
        /\ 100 * payout(pools, o, stake) < stake * (q + 1) + 100
    BY <2>1, <2>2, <2>3, <2>4, <2>5, QuotesPay
  <2> QED BY <2>4, <2>6
<1> QED BY <1>1, InitPanel, StepPanel, PTL DEF Spec
-----------------------------------------------------------------------------
(* The history page: the outcomes of the games *)

\* The folds take the last of 1 .. k, and the first of i .. n.
LEMMA FirstAndLast ==
  ASSUME NEW n \in Nat
  PROVE  /\ \A s \in SUBSET (1 .. n) : s # {} => Max(s) \in s /\ Min(s) \in s
         /\ \A k \in 1 .. n :
              /\ Max(1 .. k) = k /\ (1 .. k) \ {k} = 1 .. k - 1
              /\ {1 .. k, 1 .. k - 1} \subseteq SUBSET (1 .. n) /\ 1 .. k # {}
         /\ \A i \in 1 .. n :
              /\ Min(i .. n) = i /\ (i .. n) \ {i} = i + 1 .. n
              /\ {i .. n, i + 1 .. n} \subseteq SUBSET (1 .. n) /\ i .. n # {}
<1>1. ASSUME NEW s \in SUBSET (1 .. n), s # {}
      PROVE  Max(s) \in s /\ Min(s) \in s
  <2>1. s \in SUBSET Nat
    OBVIOUS
  <2>2. \E x \in s : \A y \in s : x <= y
    BY <1>1, <2>1, LeastNat
  <2>3. \E x \in s : \A y \in s : x >= y
    <3>1. PICK T : T = {n - x : x \in s}
      OBVIOUS
    <3>2. T \in SUBSET Nat /\ T # {}
      <4>1. \A x \in s : n - x \in Nat
        OBVIOUS
      <4> QED BY <1>1, <3>1, <4>1
    <3>3. PICK t \in T : \A y \in T : t <= y
      BY <3>2, LeastNat
    <3>4. PICK x \in s : t = n - x
      BY <3>1, <3>3
    <3>5. \A y \in s : n - x <= n - y
      BY <3>1, <3>3, <3>4
    <3> QED BY <3>5
  <2> QED BY <2>2, <2>3 DEF Max, Min
<1>2. ASSUME NEW k \in 1 .. n
      PROVE  /\ Max(1 .. k) = k /\ (1 .. k) \ {k} = 1 .. k - 1
             /\ {1 .. k, 1 .. k - 1} \subseteq SUBSET (1 .. n) /\ 1 .. k # {}
  <2>1. Max(1 .. k) = k
    BY DEF Max
  <2>2. (1 .. k) \ {k} = 1 .. k - 1
    OBVIOUS
  <2>3. 1 .. k \subseteq 1 .. n /\ 1 .. k - 1 \subseteq 1 .. n /\ k \in 1 .. k
    OBVIOUS
  <2> QED BY <2>1, <2>2, <2>3
<1>3. ASSUME NEW i \in 1 .. n
      PROVE  /\ Min(i .. n) = i /\ (i .. n) \ {i} = i + 1 .. n
             /\ {i .. n, i + 1 .. n} \subseteq SUBSET (1 .. n) /\ i .. n # {}
  <2>1. Min(i .. n) = i
    BY DEF Min
  <2>2. (i .. n) \ {i} = i + 1 .. n
    OBVIOUS
  <2>3. i .. n \subseteq 1 .. n /\ i + 1 .. n \subseteq 1 .. n /\ i \in i .. n
    OBVIOUS
  <2> QED BY <2>1, <2>2, <2>3
<1> QED BY <1>1, <1>2, <1>3

Kinds == {"win", "loss", "draw"}

\* What a row is for the player, None when it is not theirs.
LEMMA OutcomeTyped == \A m : outcomeFor(m) \in Kinds \cup {None}
  BY DEF outcomeFor, Kinds

\* The outcomes are those of the rows that are the player's.
LEMMA OutcomesTyped ==
  ASSUME NEW X, stats.rows \in Seq(X)
  PROVE  Outcomes \in Seq(Kinds)
<1>0. PICK rows : rows = stats.rows
  OBVIOUS
<1>1. PICK n \in Nat : rows = stats.rows /\ DOMAIN rows = 1 .. n
  BY <1>0
<1> DEFINE S == 1 .. n
           R == Seq(Kinds)
           added(i, known) == IF outcomeFor(rows[i]) = None THEN known ELSE Append(known, outcomeFor(rows[i]))
           Sums(h) == h = [s \in SUBSET S |-> IF s = {} THEN <<>> ELSE added(Max(s), h[s \ {Max(s)}])]
           sum == CHOOSE h : Sums(h)
           step == [x \in S \X R |-> added(x[1], x[2])]
           pick == [s \in SUBSET S |-> Max(s)]
<1>2. Outcomes = sum[S]
  BY <1>1 DEF Outcomes, FoldLeft, MapThenFoldSet
<1>3. IsFiniteSet(S) /\ <<>> \in R /\ \A s \in SUBSET S : s # {} => pick[s] \in s
  <2>1. IsFiniteSet(S)
    BY FS_Interval
  <2>2. <<>> \in R
    OBVIOUS
  <2>3. \A s \in SUBSET S : s # {} => Max(s) \in s
    BY FirstAndLast
  <2> QED BY <2>1, <2>2, <2>3
<1>4. step \in [S \X R -> R]
  <2>1. ASSUME NEW i \in S, NEW known \in R PROVE added(i, known) \in R
    BY OutcomeTyped
  <2> QED BY <2>1
<1>5. \A i \in S, known \in R : step[<<i, known>>] = added(i, known)
  OBVIOUS
<1> HIDE DEF added, step, R, S
<1>6. Sums(sum)
  <2>1. PICK h \in [SUBSET S -> R] : Folded(h, step, pick, <<>>, S)
    BY <1>3, <1>4, FoldsExist
  <2>2. \A s \in SUBSET S : s # {} => pick[s] \in S /\ s \ {pick[s]} \in SUBSET S /\ pick[s] = Max(s)
    BY <1>3
  <2>3. \A s \in SUBSET S : s # {} => step[<<pick[s], h[s \ {pick[s]}]>>] = added(Max(s), h[s \ {Max(s)}])
    BY <1>5, <2>1, <2>2
  <2>4. h = [s \in SUBSET S |-> IF s = {} THEN <<>> ELSE step[<<pick[s], h[s \ {pick[s]}]>>]]
    BY <2>1 DEF Folded
  <2>5. Sums(h)
    <3> HIDE DEF pick
    <3>1. \A s \in SUBSET S : (IF s = {} THEN <<>> ELSE step[<<pick[s], h[s \ {pick[s]}]>>])
                              = (IF s = {} THEN <<>> ELSE added(Max(s), h[s \ {Max(s)}]))
      BY <2>3
    <3> QED BY <2>4, <3>1
  <2> HIDE DEF Sums
  <2> QED BY <2>5
<1>7. /\ sum[{}] = <<>>
      /\ \A s \in SUBSET S : s # {} => sum[s] = added(Max(s), sum[s \ {Max(s)}])
  <2>1. PICK h : h = sum /\ Sums(h)
    BY <1>6
  <2> HIDE DEF sum
  <2> QED BY <2>1
<1> HIDE DEF sum
<1>8. \A s \in SUBSET S : s # {} /\ sum[s \ {pick[s]}] \in R => sum[s] = step[<<pick[s], sum[s \ {pick[s]}]>>]
  BY ZenonT(30), <1>3, <1>5, <1>7
<1> HIDE DEF pick
<1>9. \A s \in SUBSET S : sum[s] \in R
  <2>1. FoldsBy(sum, step, pick, <<>>, R, S)
    BY <1>3, <1>4, <1>7, <1>8 DEF FoldsBy
  <2> QED BY <2>1, FoldsTyped
<1> QED BY <1>2, <1>9 DEF R

\* The first loop goes as far as the outcomes are like the newest one.
LEMMA CurrentStreakIs ==
  ASSUME Outcomes \in Seq(Kinds)
  PROVE  currentStreak = Max({k \in 0 .. Len(Outcomes) : \A j \in 1 .. k : Outcomes[j] = Outcomes[1]})
<1>1. PICK o : o = Outcomes
  OBVIOUS
<1>2. PICK n \in Nat : n = Len(o) /\ DOMAIN o = 1 .. n /\ (n > 0 => Head(o) = o[1])
  BY <1>1
<1> DEFINE S == 1 .. n
           R == [length : Nat, open : BOOLEAN]
           b == [length |-> 0, open |-> TRUE]
           loop(i, run) == IF run.open /\ o[i] = Head(o) THEN [run EXCEPT !.length = @ + 1]
                           ELSE [run EXCEPT !.open = FALSE]
           Runs(h) == h = [s \in SUBSET S |-> IF s = {} THEN b ELSE loop(Max(s), h[s \ {Max(s)}])]
           run == CHOOSE h : Runs(h)
           step == [x \in S \X R |-> loop(x[1], x[2])]
           pick == [s \in SUBSET S |-> Max(s)]
<1>3. currentStreak = run[S].length
  BY <1>1, <1>2 DEF currentStreak, FoldLeft, MapThenFoldSet
<1>4. IsFiniteSet(S) /\ b \in R /\ \A s \in SUBSET S : s # {} => pick[s] \in s
  <2>1. IsFiniteSet(S)
    BY FS_Interval
  <2>2. \A s \in SUBSET S : s # {} => Max(s) \in s
    BY FirstAndLast
  <2> QED BY <2>1, <2>2
<1>5. \A i \in S, r \in R : loop(i, r) \in R
  <2>1. ASSUME NEW r \in R PROVE [r EXCEPT !.length = @ + 1] \in R /\ [r EXCEPT !.open = FALSE] \in R
    <3>1. PICK l \in Nat : l = r.length + 1
      OBVIOUS
    <3>2. [r EXCEPT !.length = l] \in R
      OBVIOUS
    <3>3. [r EXCEPT !.open = FALSE] \in R
      OBVIOUS
    <3> QED BY <3>1, <3>2, <3>3
  <2> HIDE DEF R, S
  <2> QED BY <2>1
<1>6. step \in [S \X R -> R] /\ \A i \in S, r \in R : step[<<i, r>>] = loop(i, r)
  <2> HIDE DEF loop, R, S
  <2> QED BY <1>5
<1>7. b.length = 0 /\ b.open = TRUE
  OBVIOUS
<1>8. \A i \in S, r \in R :
        /\ r.open /\ o[i] = Head(o) => loop(i, r).length = r.length + 1 /\ loop(i, r).open = TRUE
        /\ ~(r.open /\ o[i] = Head(o)) => loop(i, r).length = r.length /\ loop(i, r).open = FALSE
  OBVIOUS
<1> HIDE DEF loop, step, R, S, b
<1>9. Runs(run)
  <2>1. PICK h \in [SUBSET S -> R] : Folded(h, step, pick, b, S)
    BY <1>4, <1>6, FoldsExist
  <2>2. \A s \in SUBSET S : s # {} => step[<<pick[s], h[s \ {pick[s]}]>>] = loop(Max(s), h[s \ {Max(s)}])
    BY <1>4, <1>6, <2>1
  <2>3. h = [s \in SUBSET S |-> IF s = {} THEN b ELSE step[<<pick[s], h[s \ {pick[s]}]>>]]
    BY <2>1 DEF Folded
  <2>4. Runs(h)
    <3> HIDE DEF pick
    <3>1. \A s \in SUBSET S : (IF s = {} THEN b ELSE step[<<pick[s], h[s \ {pick[s]}]>>])
                              = (IF s = {} THEN b ELSE loop(Max(s), h[s \ {Max(s)}]))
      BY <2>2
    <3> QED BY <2>3, <3>1
  <2> HIDE DEF Runs
  <2> QED BY <2>4
<1>10. /\ run[{}] = b
       /\ \A s \in SUBSET S : s # {} => run[s] = loop(Max(s), run[s \ {Max(s)}])
  <2>1. PICK h : h = run /\ Runs(h)
    BY <1>9
  <2> HIDE DEF run
  <2> QED BY <2>1
<1> HIDE DEF run
<1>11. \A s \in SUBSET S : run[s] \in R
  <2>1. \A s \in SUBSET S : s # {} /\ run[s \ {pick[s]}] \in R => run[s] = step[<<pick[s], run[s \ {pick[s]}]>>]
    BY <1>4, <1>6, <1>10
  <2>2. FoldsBy(run, step, pick, b, R, S)
    BY <1>4, <1>6, <1>10, <2>1 DEF FoldsBy
  <2> QED BY <2>2, FoldsTyped
<1> DEFINE Is(k) == LET m == run[1 .. k].length IN
                    /\ m \in 0 .. k /\ \A j \in 1 .. m : o[j] = o[1]
                    /\ run[1 .. k].open \/ (m < k /\ o[m + 1] # o[1])
                    /\ run[1 .. k].open => m = k
           Bad == {k \in 0 .. n : ~Is(k)}
<1>12. Bad = {}
  <2>1. SUFFICES ASSUME Bad # {} PROVE FALSE
    OBVIOUS
  <2>2. PICK k \in Bad : \A j \in Bad : k <= j
    <3>1. Bad \in SUBSET Nat
      OBVIOUS
    <3> HIDE DEF Bad
    <3> QED BY <2>1, <3>1, LeastNat
  <2>3. k # 0
    <3>1. 1 .. 0 = {}
      OBVIOUS
    <3>2. Is(0)
      BY <1>7, <1>10, <3>1
    <3> QED BY <3>2
  <2>4. k \in S /\ Is(k - 1)
    BY <2>2, <2>3 DEF S
  <2>5. 1 .. k \in SUBSET S /\ 1 .. k # {} /\ Max(1 .. k) = k /\ (1 .. k) \ {k} = 1 .. k - 1 /\ 1 .. k - 1 \in SUBSET S
    BY <2>4, FirstAndLast DEF S
  <2>6. PICK r \in R, q \in R : r = run[1 .. k - 1] /\ q = run[1 .. k]
    BY <1>11, <2>5
  <2>7. q = loop(k, r)
    BY <1>10, <2>5, <2>6
  <2>8. Head(o) = o[1]
    BY <1>2, <2>4 DEF S
  <2>9. /\ r.open /\ o[k] = o[1] => q.length = r.length + 1 /\ q.open = TRUE
        /\ ~(r.open /\ o[k] = o[1]) => q.length = r.length /\ q.open = FALSE
    BY <1>8, <2>4, <2>6, <2>7, <2>8
  <2>10. r.length \in Nat /\ r.open \in BOOLEAN /\ k \in Nat /\ k > 0
    BY <2>4, <2>6 DEF R, S
  <2>11. /\ r.length \in 0 .. k - 1 /\ \A j \in 1 .. r.length : o[j] = o[1]
         /\ r.open \/ (r.length < k - 1 /\ o[r.length + 1] # o[1])
         /\ r.open => r.length = k - 1
    BY <2>4, <2>6
  <2>12. /\ q.length \in 0 .. k /\ \A j \in 1 .. q.length : o[j] = o[1]
         /\ q.open \/ (q.length < k /\ o[q.length + 1] # o[1])
         /\ q.open => q.length = k
    <3>1. CASE r.open /\ o[k] = o[1]
      BY <2>9, <2>10, <2>11, <3>1
    <3>2. CASE r.open /\ o[k] # o[1]
      BY <2>9, <2>10, <2>11, <3>2
    <3>3. CASE ~r.open
      BY <2>9, <2>10, <2>11, <3>3
    <3> QED BY <2>10, <3>1, <3>2, <3>3
  <2>13. Is(k)
    BY <2>6, <2>12
  <2> QED BY <2>13
<1>13. Is(n)
  BY <1>12
<1>14. PICK m : m = run[1 .. n].length
  OBVIOUS
<1> DEFINE likes == {k \in 0 .. n : \A j \in 1 .. k : o[j] = o[1]}
<1>15. m \in likes /\ \A k \in likes : m >= k
  <2>1. m \in 0 .. n /\ (\A j \in 1 .. m : o[j] = o[1]) /\ (m = n \/ (m < n /\ o[m + 1] # o[1]))
    BY <1>13, <1>14
  <2>2. ASSUME NEW k \in likes PROVE m >= k
    <3>1. m < k => m + 1 \in 1 .. k
      BY <2>1
    <3> QED BY <2>1, <3>1
  <2> QED BY <2>1, <2>2
<1>16. Max(likes) = m
  <2>1. likes \in SUBSET Nat
    OBVIOUS
  <2> HIDE DEF likes
  <2>2. \A k \in likes : (\A j \in likes : k >= j) => k = m
    BY <1>15, <2>1
  <2> QED BY <1>15, <2>2 DEF Max
<1> QED BY <1>1, <1>2, <1>3, <1>14, <1>16 DEF S

Wins(o, a, k) == \A j \in a + 1 .. a + k : o[j] = "win"

\* The other loop finds the longest run of wins.
LEMMA BestStreakIs ==
  ASSUME Outcomes \in Seq(Kinds)
  PROVE  bestStreak = Max({k \in 0 .. Len(Outcomes) :
                             \E a \in 0 .. Len(Outcomes) - k : Wins(Outcomes, a, k)})
<1>1. PICK o : o = Outcomes
  OBVIOUS
<1>2. PICK n \in Nat : n = Len(o) /\ DOMAIN o = 1 .. n
  BY <1>1
<1> DEFINE S == 1 .. n
           R == [now : Nat, best : Nat]
           b == [now |-> 0, best |-> 0]
           more(r) == [now |-> r.now + 1, best |-> IF r.best < r.now + 1 THEN r.now + 1 ELSE r.best]
           loop(i, r) == IF o[i] = "win" THEN more(r) ELSE [r EXCEPT !.now = 0]
           Runs(h) == h = [s \in SUBSET S |-> IF s = {} THEN b ELSE loop(Min(s), h[s \ {Min(s)}])]
           run == CHOOSE h : Runs(h)
           step == [x \in S \X R |-> loop(x[1], x[2])]
           pick == [s \in SUBSET S |-> Min(s)]
<1>3. bestStreak = run[S].best
  BY <1>1, <1>2 DEF bestStreak, FoldRight, MapThenFoldSet
<1>4. IsFiniteSet(S) /\ b \in R /\ \A s \in SUBSET S : s # {} => pick[s] \in s
  <2>1. IsFiniteSet(S)
    BY FS_Interval
  <2>2. \A s \in SUBSET S : s # {} => Min(s) \in s
    BY FirstAndLast
  <2> QED BY <2>1, <2>2
<1>5. \A r \in R : /\ more(r) \in R /\ more(r).now = r.now + 1
                   /\ more(r).best \in {r.best, r.now + 1} /\ more(r).best >= r.best /\ more(r).best >= r.now + 1
  OBVIOUS
<1>6. \A r \in R : [r EXCEPT !.now = 0] \in R
  OBVIOUS
<1>7. \A i \in S, r \in R :
        /\ loop(i, r) \in R
        /\ o[i] = "win" => loop(i, r) = more(r)
        /\ o[i] # "win" => loop(i, r).now = 0 /\ loop(i, r).best = r.best
  <2> HIDE DEF more
  <2>1. \A r \in R : [r EXCEPT !.now = 0].now = 0 /\ [r EXCEPT !.now = 0].best = r.best
    OBVIOUS
  <2> HIDE DEF R, S
  <2> QED BY <1>5, <1>6, <2>1
<1>8. b.now = 0 /\ b.best = 0 /\ \A r \in R : r.now \in Nat /\ r.best \in Nat
  OBVIOUS
<1> HIDE DEF more, loop, R, S, b
<1>9. step \in [S \X R -> R] /\ \A i \in S, r \in R : step[<<i, r>>] = loop(i, r)
  BY <1>7
<1> HIDE DEF step
<1>10. Runs(run)
  <2>1. PICK h \in [SUBSET S -> R] : Folded(h, step, pick, b, S)
    BY <1>4, <1>9, FoldsExist
  <2>2. \A s \in SUBSET S : s # {} => step[<<pick[s], h[s \ {pick[s]}]>>] = loop(Min(s), h[s \ {Min(s)}])
    BY <1>4, <1>9, <2>1
  <2>3. h = [s \in SUBSET S |-> IF s = {} THEN b ELSE step[<<pick[s], h[s \ {pick[s]}]>>]]
    BY <2>1 DEF Folded
  <2>4. Runs(h)
    <3> HIDE DEF pick
    <3>1. \A s \in SUBSET S : (IF s = {} THEN b ELSE step[<<pick[s], h[s \ {pick[s]}]>>])
                              = (IF s = {} THEN b ELSE loop(Min(s), h[s \ {Min(s)}]))
      BY <2>2
    <3> QED BY <2>3, <3>1
  <2> HIDE DEF Runs
  <2> QED BY <2>4
<1>11. /\ run[{}] = b
       /\ \A s \in SUBSET S : s # {} => run[s] = loop(Min(s), run[s \ {Min(s)}])
  <2>1. PICK h : h = run /\ Runs(h)
    BY <1>10
  <2> HIDE DEF run
  <2> QED BY <2>1
<1> HIDE DEF run
<1>12. \A s \in SUBSET S : run[s] \in R
  <2>1. \A s \in SUBSET S : s # {} /\ run[s \ {pick[s]}] \in R => run[s] = step[<<pick[s], run[s \ {pick[s]}]>>]
    BY <1>4, <1>9, <1>11
  <2>2. FoldsBy(run, step, pick, b, R, S)
    BY <1>4, <1>9, <1>11, <2>1 DEF FoldsBy
  <2> QED BY <2>2, FoldsTyped
\* With i outcomes still to come, now is the run of wins after them, best the
\* longest of all the runs after them.
<1> DEFINE Is(i, r) == /\ i + r.now <= n /\ Wins(o, i, r.now)
                       /\ i + r.now < n => o[i + r.now + 1] # "win"
                       /\ \E a \in i .. n - r.best : Wins(o, a, r.best)
                       /\ \A k \in Nat : \A a \in i .. n - k : Wins(o, a, k) => k <= r.best
           Bad == {k \in 0 .. n : ~Is(n - k, run[n - k + 1 .. n])}
<1>13. Bad = {}
  <2>1. SUFFICES ASSUME Bad # {} PROVE FALSE
    OBVIOUS
  <2>2. PICK l \in Bad : \A j \in Bad : l <= j
    <3>1. Bad \in SUBSET Nat
      OBVIOUS
    <3> HIDE DEF Bad
    <3> QED BY <2>1, <3>1, LeastNat
  <2>3. PICK i \in 0 .. n : i = n - l /\ l \in 0 .. n /\ ~Is(i, run[i + 1 .. n])
    OBVIOUS
  <2>4. i # n
    <3>1. n + 1 .. n = {}
      OBVIOUS
    <3>2. PICK r \in R : r = run[n + 1 .. n] /\ r.now = 0 /\ r.best = 0
      BY <1>4, <1>8, <1>11, <3>1
    <3>3. Wins(o, n, 0)
      BY DEF Wins
    <3>4. Is(n, r)
      BY <3>2, <3>3
    <3> QED BY <2>3, <3>2, <3>4
  <2>5. i + 1 \in S /\ Is(i + 1, run[i + 2 .. n])
    <3>1. l - 1 \in 0 .. n /\ l - 1 \notin Bad /\ n - (l - 1) = i + 1 /\ i + 1 \in 1 .. n
      <4>1. l \in Nat /\ l - 1 \in 0 .. n /\ n - (l - 1) = i + 1 /\ i + 1 \in 1 .. n
        BY <2>3, <2>4
      <4>2. l - 1 \notin Bad
        <5> HIDE DEF Bad
        <5> QED BY <2>2, <4>1
      <4> QED BY <4>1, <4>2
    <3>2. n - (l - 1) + 1 = i + 2
      BY <3>1
    <3>3. Is(n - (l - 1), run[n - (l - 1) + 1 .. n])
      BY <3>1
    <3> HIDE DEF Is
    <3> QED BY <3>1, <3>2, <3>3 DEF S
  <2>6. /\ i + 1 .. n \in SUBSET S /\ i + 1 .. n # {} /\ Min(i + 1 .. n) = i + 1
        /\ (i + 1 .. n) \ {i + 1} = i + 2 .. n /\ i + 2 .. n \in SUBSET S
    <3>1. PICK j \in 1 .. n : j = i + 1
      BY <2>5 DEF S
    <3>2. j + 1 = i + 2
      BY <3>1
    <3>3. /\ Min(j .. n) = j /\ (j .. n) \ {j} = j + 1 .. n
          /\ {j .. n, j + 1 .. n} \subseteq SUBSET (1 .. n) /\ j .. n # {}
      BY FirstAndLast
    <3> QED BY <3>1, <3>2, <3>3 DEF S
  <2>7. PICK r \in R : r = run[i + 2 .. n]
    BY <1>12, <2>6
  <2>8. PICK q \in R : q = run[i + 1 .. n]
    BY <1>12, <2>6
  <2>9. q = loop(i + 1, r)
    BY <1>11, <2>6, <2>7, <2>8
  <2>10. PICK N \in Nat, B \in Nat, M \in Nat, C \in Nat : N = r.now /\ B = r.best /\ M = q.now /\ C = q.best
    BY <1>8
  <2>11. i \in Nat /\ i < n
    BY <2>3, <2>4
  <2>12. /\ i + 1 + N <= n /\ Wins(o, i + 1, N)
         /\ i + 1 + N < n => o[i + 1 + N + 1] # "win"
    BY <2>5, <2>7, <2>10
  <2>13. PICK a \in i + 1 .. n - B : Wins(o, a, B)
    BY <2>5, <2>7, <2>10
  <2>14. \A k \in Nat : \A d \in i + 1 .. n - k : Wins(o, d, k) => k <= B
    BY <2>5, <2>7, <2>10
  <2>15. CASE o[i + 1] = "win"
    <3>1. M = N + 1 /\ C \in {B, N + 1} /\ C >= B /\ C >= N + 1
      BY <1>5, <1>7, <2>5, <2>9, <2>10, <2>15
    <3>2. Wins(o, i, N + 1)
      <4>1. ASSUME NEW j \in i + 1 .. i + (N + 1) PROVE o[j] = "win"
        <5>1. j = i + 1 \/ j \in i + 1 + 1 .. i + 1 + N
          BY SMTT(30), <2>11
        <5> QED BY <2>12, <2>15, <5>1 DEF Wins
      <4> QED BY <4>1 DEF Wins
    <3>3. i + M <= n /\ Wins(o, i, M) /\ (i + M < n => o[i + M + 1] # "win")
      <4>1. i + M + 1 = i + 1 + N + 1
        BY <2>11, <3>1
      <4> QED BY <2>11, <2>12, <3>1, <3>2, <4>1
    <3>4. \E d \in i .. n - C : Wins(o, d, C)
      <4>1. CASE C = B
        BY <2>11, <2>13, <4>1
      <4>2. CASE C = N + 1
        <5>1. i \in i .. n - C
          BY <2>11, <2>12, <4>2
        <5> QED BY <3>2, <4>2, <5>1
      <4> QED BY <3>1, <4>1, <4>2
    <3>5. ASSUME NEW k \in Nat, NEW d \in i .. n - k, Wins(o, d, k)
          PROVE  k <= C
      <4>1. CASE d = i
        <5>1. SUFFICES ASSUME k > N + 1 PROVE FALSE
          BY <3>1
        <5>2. i + 1 + N < n /\ i + 1 + N + 1 \in d + 1 .. d + k
          BY <2>11, <4>1, <5>1
        <5> QED BY <2>12, <3>5, <5>2 DEF Wins
      <4>2. CASE d # i
        <5>1. d \in i + 1 .. n - k
          BY <2>11, <4>2
        <5>2. k <= B
          BY <2>14, <3>5, <5>1
        <5> QED BY <3>1, <5>2
      <4> QED BY <4>1, <4>2
    <3>6. Is(i, q)
      BY <2>10, <3>3, <3>4, <3>5
    <3> HIDE DEF Is
    <3> QED BY <2>3, <2>8, <3>6
  <2>16. CASE o[i + 1] # "win"
    <3>1. M = 0 /\ C = B
      BY <1>7, <2>5, <2>9, <2>10, <2>16
    <3>2. i + M <= n /\ Wins(o, i, M) /\ (i + M < n => o[i + M + 1] # "win")
      <4>1. i + M + 1 = i + 1
        BY <2>11, <3>1
      <4> QED BY <2>11, <2>16, <3>1, <4>1 DEF Wins
    <3>3. \E d \in i .. n - C : Wins(o, d, C)
      BY <2>11, <2>13, <3>1
    <3>4. ASSUME NEW k \in Nat, NEW d \in i .. n - k, Wins(o, d, k)
          PROVE  k <= C
      <4>1. CASE d = i
        <5>1. k > 0 => i + 1 \in d + 1 .. d + k
          BY <2>11, <4>1
        <5>2. k = 0
          BY <2>16, <3>4, <5>1 DEF Wins
        <5> QED BY <5>2
      <4>2. CASE d # i
        <5>1. d \in i + 1 .. n - k
          BY <2>11, <4>2
        <5> QED BY <2>14, <3>1, <3>4, <5>1
      <4> QED BY <4>1, <4>2
    <3>5. Is(i, q)
      BY <2>10, <3>2, <3>3, <3>4
    <3> HIDE DEF Is
    <3> QED BY <2>3, <2>8, <3>5
  <2> QED BY <2>15, <2>16
<1>14. PICK r \in R : r = run[S] /\ Is(0, r)
  <2>1. n \notin Bad
    BY <1>13
  <2>2. n - n = 0 /\ n - n + 1 = 1 /\ n \in 0 .. n
    OBVIOUS
  <2>3. Is(n - n, run[n - n + 1 .. n])
    BY <2>1, <2>2
  <2> HIDE DEF Is
  <2> QED BY <1>12, <2>2, <2>3 DEF S
<1>15. PICK m \in Nat : m = r.best
  BY <1>8
<1> DEFINE streaks == {k \in 0 .. n : \E a \in 0 .. n - k : Wins(o, a, k)}
<1>16. m \in streaks /\ \A k \in streaks : m >= k
  <2>1. (\E a \in 0 .. n - m : Wins(o, a, m)) /\ \A k \in Nat : \A a \in 0 .. n - k : Wins(o, a, k) => k <= m
    BY <1>14, <1>15
  <2> QED BY <2>1
<1>17. Max(streaks) = m
  <2>1. streaks \in SUBSET Nat
    OBVIOUS
  <2> HIDE DEF streaks
  <2>2. \A k \in streaks : (\A j \in streaks : k >= j) => k = m
    BY <1>16, <2>1
  <2> QED BY <1>16, <2>2 DEF Max
<1> QED BY <1>1, <1>2, <1>3, <1>14, <1>15, <1>17

\* Two sets with nothing in common.
LEMMA TwoParts ==
  ASSUME NEW S, NEW T, IsFiniteSet(S), IsFiniteSet(T), S \cap T = {}
  PROVE  IsFiniteSet(S \cup T) /\ Cardinality(S \cup T) = Cardinality(S) + Cardinality(T)
<1>1. Cardinality(S \cup T) = Cardinality(S) + Cardinality(T) - Cardinality(S \cap T)
  BY FS_Union
<1>2. Cardinality(S \cap T) = 0
  BY FS_EmptySet
<1>3. IsFiniteSet(S \cup T)
  BY FS_Union
<1>4. Cardinality(S) \in Nat /\ Cardinality(T) \in Nat
  BY FS_CardinalityType
<1> QED BY <1>1, <1>2, <1>3, <1>4

\* The parts add up.
LEMMA CountsAddUp ==
  ASSUME Outcomes \in Seq(Kinds)
  PROVE  Len(Outcomes) = Counted("win") + Counted("loss") + Counted("draw")
<1>1. PICK o, n : o = Outcomes /\ n = Len(o)
  OBVIOUS
<1>2. n \in Nat /\ DOMAIN o = 1 .. n /\ \A i \in 1 .. n : o[i] \in Kinds
  BY <1>1
<1> DEFINE Of(kind) == {i \in DOMAIN o : o[i] = kind}
<1>3. PICK W, L, D : W = Of("win") /\ L = Of("loss") /\ D = Of("draw")
  OBVIOUS
<1>4. IsFiniteSet(1 .. n) /\ Cardinality(1 .. n) = n
  BY <1>2, FS_Interval
<1>5. IsFiniteSet(W) /\ IsFiniteSet(L) /\ IsFiniteSet(D)
  BY <1>2, <1>3, <1>4, FS_Subset
<1>6. W \cup L \cup D = 1 .. n /\ W \cap L = {} /\ (W \cup L) \cap D = {}
  BY <1>2, <1>3 DEF Kinds
<1>7. PICK w \in Nat, l \in Nat, d \in Nat : w = Cardinality(W) /\ l = Cardinality(L) /\ d = Cardinality(D)
  BY <1>5, FS_CardinalityType
<1>8. IsFiniteSet(W \cup L) /\ Cardinality(W \cup L) = w + l
  BY <1>5, <1>6, <1>7, TwoParts
<1>9. Cardinality(W \cup L \cup D) = w + l + d
  BY <1>5, <1>6, <1>7, <1>8, TwoParts
<1> QED BY ZenonT(30), <1>1, <1>3, <1>4, <1>6, <1>7, <1>9 DEF Counted

\* So the record is that of the rows, whatever they are.
LEMMA RecordRight ==
  ASSUME NEW X, stats.rows \in Seq(X)
  PROVE  RecordIsRight
<1>1. Outcomes \in Seq(Kinds)
  BY OutcomesTyped
<1>2. PICK o : o = Outcomes
  OBVIOUS
<1> DEFINE runs(kind) == {n \in 0 .. Len(o) : \E i \in 0 .. Len(o) - n :
                            \A j \in i + 1 .. i + n : o[j] = kind}
           prefixes == {n \in 0 .. Len(o) : \A j \in 1 .. n : o[j] = o[1]}
<1>3. bestStreak = Max(runs("win"))
  BY <1>1, <1>2, BestStreakIs DEF Wins
<1>4. currentStreak = Max(prefixes)
  BY <1>1, <1>2, CurrentStreakIs
<1>5. Len(Outcomes) = Counted("win") + Counted("loss") + Counted("draw")
  BY <1>1, CountsAddUp
<1>6. PICK r : r = computeMatchStats
  OBVIOUS
<1>7. /\ r.total = Len(Outcomes) /\ r.bestStreak = bestStreak /\ r.currentStreak = currentStreak
      /\ r.wins = Counted("win") /\ r.losses = Counted("loss") /\ r.draws = Counted("draw")
  BY <1>6 DEF computeMatchStats
<1> HIDE DEF runs, prefixes
<1>8. r.total = r.wins + r.losses + r.draws /\ r.bestStreak = Max(runs("win")) /\ r.currentStreak = Max(prefixes)
  BY <1>3, <1>4, <1>5, <1>7
<1> QED BY <1>2, <1>6, <1>8 DEF RecordIsRight, runs, prefixes
-----------------------------------------------------------------------------
(* The history page: what a pass over the pages has seen *)

IsSequence(s) == \E n \in Nat : s = [i \in 1 .. n |-> s[i]]

\* The games from lo to hi have been seen, and the next page, whose newest game
\* is at most the one below top, goes on at lo or above.
SeenFrom(lo, hi, G, t) ==
  /\ lo \in Nat \ {0} /\ hi \in Nat /\ seen = lo .. hi
  /\ lo <= hi =>
       /\ t.loading => lo <= G - t.page * PAGE_SIZE + 1
       /\ ~t.loading /\ t.rows >= PAGE_SIZE => lo <= G - t.page * PAGE_SIZE - PAGE_SIZE + 1

\* The same of the places in a set, for a pass that goes on.
PassGoesOn(places, G, t) ==
  \E lo \in Nat \ {0}, hi \in Nat :
    /\ places = lo .. hi
    /\ lo <= hi =>
         /\ t.loading => lo <= G - t.page * PAGE_SIZE + 1
         /\ ~t.loading /\ t.rows >= PAGE_SIZE => lo <= G - t.page * PAGE_SIZE - PAGE_SIZE + 1

Table == [page : Nat, rows : Nat, loading : BOOLEAN, error : BOOLEAN]

HistoryInv ==
  /\ IsSequence(games) /\ table \in Table
  /\ \E rows, asked : stats = [rows |-> rows, asked |-> asked] /\ IsSequence(rows)
  /\ \E lo, hi : SeenFrom(lo, hi, Len(games), table)

\* What such a sequence has of a sequence.
LEMMA SequenceIs ==
  ASSUME NEW s, IsSequence(s)
  PROVE  /\ s \in Seq({s[i] : i \in DOMAIN s}) /\ Len(s) \in Nat /\ DOMAIN s = 1 .. Len(s)
         /\ \A x : IsSequence(Append(s, x)) /\ Len(Append(s, x)) = Len(s) + 1
<1>1. PICK n \in Nat : s = [i \in 1 .. n |-> s[i]]
  BY DEF IsSequence
<1>2. DOMAIN s = 1 .. n
  BY <1>1
<1>3. s \in Seq({s[i] : i \in DOMAIN s})
  BY <1>1, <1>2
<1>4. Len(s) = n
  BY <1>1, <1>2, <1>3
<1>5. ASSUME NEW x
      PROVE  IsSequence(Append(s, x)) /\ Len(Append(s, x)) = Len(s) + 1
  <2>1. PICK X : X = {s[i] : i \in DOMAIN s} \cup {x}
    OBVIOUS
  <2>2. s \in Seq(X) /\ x \in X
    <3>1. s \in [1 .. n -> X]
      BY <1>1, <1>2, <2>1
    <3> QED BY <2>1, <3>1
  <2>3. Append(s, x) \in Seq(X) /\ Len(Append(s, x)) = n + 1
    BY <1>4, <2>2
  <2>4. PICK t \in Seq(X) : t = Append(s, x) /\ Len(t) = n + 1
    BY <2>3
  <2>5. PICK m \in Nat : m = n + 1
    OBVIOUS
  <2>6. DOMAIN t = 1 .. m /\ t \in [1 .. m -> X]
    BY <2>4, <2>5, LenProperties
  <2>7. t = [i \in 1 .. m |-> t[i]]
    BY <2>6
  <2>8. IsSequence(t)
    BY <2>7 DEF IsSequence
  <2> QED BY <1>4, <2>3, <2>4, <2>8
<1> QED BY <1>2, <1>3, <1>4, <1>5

\* Without one of its elements it is one that is shorter by that.
LEMMA RemoveAtIs ==
  ASSUME NEW s, IsSequence(s), NEW i \in DOMAIN s
  PROVE  /\ IsSequence(RemoveAt(s, i)) /\ Len(RemoveAt(s, i)) = Len(s) - 1
         /\ \A x : IsSequence(Append(RemoveAt(s, i), x)) /\ Len(Append(RemoveAt(s, i), x)) = Len(s)
<1>1. PICK X : X = {s[j] : j \in DOMAIN s}
  OBVIOUS
<1>2. PICK n \in Nat : n = Len(s) /\ DOMAIN s = 1 .. n /\ s \in Seq(X)
  BY <1>1, SequenceIs
<1>3. PICK lo \in Nat, hi \in Nat : lo = i - 1 /\ hi = i + 1 /\ lo <= n /\ hi <= n + 1
  BY <1>2
<1>4. PICK a : a = SubSeq(s, 1, lo)
  OBVIOUS
<1>5. PICK b : b = SubSeq(s, hi, n)
  OBVIOUS
<1>6. \A j \in 1 .. n : s[j] \in X
  BY <1>1, <1>2
<1>7. a \in Seq(X) /\ Len(a) = lo
  BY <1>3, <1>4, <1>6, SubSeqProperties
<1>8. b \in Seq(X) /\ Len(b) = n - i
  BY <1>2, <1>3, <1>5, <1>6, SubSeqProperties
<1>9. PICK t : t = a \o b
  OBVIOUS
<1>10. t \in Seq(X) /\ Len(t) = Len(s) - 1
  BY <1>2, <1>3, <1>7, <1>8, <1>9, ConcatProperties
<1>11. PICK m \in Nat : m = Len(t) /\ DOMAIN t = 1 .. m /\ t = [j \in 1 .. m |-> t[j]]
  BY <1>10, LenProperties
<1>12. IsSequence(t)
  BY <1>11 DEF IsSequence
<1>13. t = RemoveAt(s, i)
  BY <1>2, <1>3, <1>4, <1>5, <1>9 DEF RemoveAt
<1>14. ASSUME NEW x
       PROVE  IsSequence(Append(t, x)) /\ Len(Append(t, x)) = Len(s)
  <2>1. IsSequence(Append(t, x)) /\ Len(Append(t, x)) = Len(t) + 1
    BY <1>12, SequenceIs
  <2>2. Len(t) + 1 = Len(s)
    BY <1>2, <1>10
  <2> QED BY <2>1, <2>2
<1> QED BY <1>10, <1>12, <1>13, <1>14

\* An answer of the relayer's, when there are G games and it goes back n of them.
Listed(rows, G, limit, offset, n) ==
  /\ G \in Nat /\ limit \in Nat /\ offset \in Nat /\ n \in Nat
  /\ IsSequence(games) /\ G = Len(games)
  /\ n = IF limit < HISTORY_LIMIT THEN limit ELSE HISTORY_LIMIT
  /\ rows = listCompletedGames(limit, offset)

\* The rows of a page are the games from the newest one down, past the offset.
LEMMA ListIs ==
  ASSUME NEW rows, NEW G, NEW limit, NEW offset, NEW n, Listed(rows, G, limit, offset, n)
  PROVE  /\ rows \in Seq(1 .. G)
         /\ ToSet(rows) = {x \in 1 .. G : x <= G - offset /\ x > G - offset - n}
         /\ Len(rows) >= limit /\ limit > 0 => n = limit /\ limit <= G - offset
<1> DEFINE newest == Reverse([i \in DOMAIN games |-> i])
<1>0. G \in Nat /\ limit \in Nat /\ offset \in Nat /\ n \in Nat
  BY DEF Listed
<1>1. DOMAIN games = 1 .. G
  BY SequenceIs DEF Listed
<1>2. n <= limit /\ (limit < HISTORY_LIMIT => n = limit) /\ (n = limit \/ n = HISTORY_LIMIT)
  BY HistoryAssumption DEF Listed
<1>3. newest = [i \in 1 .. G |-> G - i + 1]
  <2>1. PICK up : up = [i \in 1 .. G |-> i]
    OBVIOUS
  <2>2. up \in Seq(Nat) /\ Len(up) = G
    BY <1>0, <2>1
  <2>3. Reverse(up) = [i \in 1 .. G |-> up[G - i + 1]]
    BY <2>2 DEF Reverse
  <2>4. \A i \in 1 .. G : G - i + 1 \in 1 .. G
    BY <1>0
  <2>5. Reverse(up) = [i \in 1 .. G |-> G - i + 1]
    BY <2>1, <2>3, <2>4
  <2> QED BY <1>1, <2>1, <2>5
<1>4. PICK hi \in Nat : hi = IF offset + n < G THEN offset + n ELSE G
  <2>1. (IF offset + n < G THEN offset + n ELSE G) \in Nat
    BY <1>0
  <2> QED BY <2>1
<1>5. rows = SubSeq(newest, offset + 1, hi)
  BY <1>4 DEF Listed, listCompletedGames
<1>7. \A i \in offset + 1 .. hi : newest[i] \in 1 .. G /\ newest[i] = G - i + 1
  BY <1>0, <1>3, <1>4
<1> HIDE DEF newest
<1>8. /\ rows \in Seq(1 .. G)
      /\ Len(rows) = IF offset + 1 <= hi THEN hi - offset ELSE 0
      /\ \A i \in 1 .. hi - offset : rows[i] = newest[offset + i]
  <2>1. PICK m \in Int : m = offset + 1
    BY <1>0
  <2>2. /\ SubSeq(newest, m, hi) \in Seq(1 .. G)
        /\ Len(SubSeq(newest, m, hi)) = IF m <= hi THEN hi - m + 1 ELSE 0
        /\ \A i \in 1 .. hi - m + 1 : SubSeq(newest, m, hi)[i] = newest[m + i - 1]
    BY <1>0, <1>7, <2>1, SubSeqProperties
  <2>3. hi - m + 1 = hi - offset /\ \A i \in 1 .. hi - offset : m + i - 1 = offset + i
    BY <1>0, <2>1
  <2> QED BY <1>0, <1>5, <2>1, <2>2, <2>3
<1>9. PICK l \in Nat : l = Len(rows) /\ DOMAIN rows = 1 .. l
  BY <1>0, <1>8
<1>10. ToSet(rows) = {x \in 1 .. G : x <= G - offset /\ x > G - offset - n}
  <2>1. ToSet(rows) = {rows[i] : i \in 1 .. l}
    BY <1>9 DEF ToSet
  <2>2. \A i \in 1 .. l : offset + i \in offset + 1 .. hi /\ rows[i] = G - (offset + i) + 1
    BY <1>0, <1>7, <1>8, <1>9
  <2>3. ASSUME NEW x \in 1 .. G, x <= G - offset, x > G - offset - n
        PROVE  x \in ToSet(rows)
    <3>1. PICK i \in Int : i = G - offset - x + 1
      <4>1. G - offset - x + 1 \in Int
        BY <1>0
      <4> QED BY <4>1
    <3>2. i \in 1 .. hi - offset /\ l = hi - offset
      BY <1>0, <1>4, <1>8, <1>9, <2>3, <3>1
    <3>3. rows[i] = x
      BY <1>0, <2>2, <3>1, <3>2
    <3> QED BY <2>1, <3>2, <3>3
  <2>4. ASSUME NEW i \in 1 .. l
        PROVE  rows[i] \in {x \in 1 .. G : x <= G - offset /\ x > G - offset - n}
    BY <1>0, <1>4, <2>2
  <2> QED BY <1>0, <2>1, <2>3, <2>4
<1>11. l >= limit /\ limit > 0 => n = limit /\ limit <= G - offset
  BY <1>0, <1>2, <1>4, <1>8, <1>9
<1> QED BY <1>8, <1>9, <1>10, <1>11

\* The first page is being fetched.
LEMMA InitHistory == Init => HistoryInv
<1> SUFFICES ASSUME Init PROVE HistoryInv
  OBVIOUS
<1>1. /\ \E n \in 0 .. FirstGames : games \in [1 .. n -> {Game(pair, w, None) : pair \in Pairs, w \in Winners}]
      /\ table = [page |-> 0, rows |-> 0, loading |-> TRUE, error |-> FALSE]
      /\ stats = [rows |-> <<>>, asked |-> address # None] /\ seen = {}
  BY DEF Init, HistoryInit
<1>2. IsSequence(games)
  <2>1. PICK n \in 0 .. FirstGames : games \in [1 .. n -> {Game(pair, w, None) : pair \in Pairs, w \in Winners}]
    BY <1>1
  <2>2. n \in Nat /\ games = [i \in 1 .. n |-> games[i]]
    BY <2>1, HistoryAssumption
  <2> QED BY <2>2 DEF IsSequence
<1>3. IsSequence(<<>>)
  <2>1. 1 .. 0 = {} /\ <<>> = [i \in 1 .. 0 |-> <<>>[i]]
    OBVIOUS
  <2> QED BY <2>1 DEF IsSequence
<1>4. table \in Table
  BY <1>1 DEF Table
<1>5. SeenFrom(1, 0, Len(games), table)
  <2>1. 1 .. 0 = {}
    OBVIOUS
  <2> QED BY <1>1, <2>1 DEF SeenFrom
<1> QED BY <1>1, <1>2, <1>3, <1>4, <1>5 DEF HistoryInv

\* The other parts of the site leave the history page alone.
LEMMA HistoryApart ==
  [Next]_vars => \/ HistoryStep
                 \/ AddressSeen /\ UNCHANGED <<games, table, seen, faults>>
                 \/ UNCHANGED historyVars
  BY DEF Next, OnFirst, OnHistory, OnMatch, OnLobby, OnWallet, vars

\* The games grow, and that only leaves more room.
LEMMA SeenStays ==
  ASSUME NEW lo, NEW hi, NEW G \in Nat, NEW H \in Nat, G <= H, NEW t \in Table, SeenFrom(lo, hi, G, t)
  PROVE  SeenFrom(lo, hi, H, t)
<1>1. PICK off \in Nat : off = t.page * PAGE_SIZE
  BY HistoryAssumption DEF Table
<1>2. PICK S \in Nat : S = PAGE_SIZE
  BY HistoryAssumption
<1>3. ASSUME NEW K
      PROVE  SeenFrom(lo, hi, K, t) <=>
               /\ lo \in Nat \ {0} /\ hi \in Nat /\ seen = lo .. hi
               /\ lo <= hi =>
                    /\ t.loading => lo <= K - off + 1
                    /\ ~t.loading /\ t.rows >= S => lo <= K - off - S + 1
  BY <1>1, <1>2 DEF SeenFrom
<1> QED BY <1>3

\* The games move up when one that is in place i leaves it: there are H of them then.
LEMMA SeenMoves ==
  ASSUME NEW lo, NEW hi, NEW G \in Nat, NEW H \in Nat, NEW t \in Table, SeenFrom(lo, hi, G, t),
         NEW i \in 1 .. G, H = G \/ (H = G - 1 /\ i < lo)
  PROVE  PassGoesOn(Without(seen, i), H, t)
<1>1. PICK off \in Nat : off = t.page * PAGE_SIZE
  BY HistoryAssumption DEF Table
<1>2. PICK S \in Nat : S = PAGE_SIZE
  BY HistoryAssumption
<1>3. /\ lo \in Nat \ {0} /\ hi \in Nat /\ seen = lo .. hi
      /\ lo <= hi =>
           /\ t.loading => lo <= G - off + 1
           /\ ~t.loading /\ t.rows >= S => lo <= G - off - S + 1
  BY <1>1, <1>2 DEF SeenFrom
<1>4. ASSUME NEW l \in Nat \ {0}, NEW h \in Nat, Without(seen, i) = l .. h,
             l <= h => lo <= hi /\ l - H <= lo - G
      PROVE  PassGoesOn(Without(seen, i), H, t)
  <2>1. l <= h =>
          /\ t.loading => l <= H - off + 1
          /\ ~t.loading /\ t.rows >= S => l <= H - off - S + 1
    BY <1>3, <1>4
  <2>2. PassGoesOn(Without(seen, i), H, t) <=>
          \E a \in Nat \ {0}, b \in Nat :
            /\ Without(seen, i) = a .. b
            /\ a <= b =>
                 /\ t.loading => a <= H - off + 1
                 /\ ~t.loading /\ t.rows >= S => a <= H - off - S + 1
    BY <1>1, <1>2 DEF PassGoesOn
  <2> HIDE DEF PassGoesOn
  <2> QED BY <1>4, <2>1, <2>2
<1>5. CASE lo > hi
  <2>1. seen = {} /\ 1 .. 0 = {}
    BY <1>3, <1>5
  <2>2. Without(seen, i) = 1 .. 0
    BY <2>1 DEF Without
  <2> QED BY <1>4, <2>2
<1>6. CASE lo <= hi /\ i < lo
  <2>1. PICK l \in Nat \ {0}, h \in Nat : l = lo - 1 /\ h = hi - 1
    BY <1>3, <1>6
  <2>2. \A k \in seen \ {i} : (IF k > i THEN k - 1 ELSE k) \in l .. h
    BY <1>3, <1>6, <2>1
  <2>3. ASSUME NEW x \in l .. h
        PROVE  x \in Without(seen, i)
    <3>1. x + 1 \in seen \ {i} /\ x = IF x + 1 > i THEN (x + 1) - 1 ELSE x + 1
      BY <1>3, <1>6, <2>1
    <3> QED BY <3>1 DEF Without
  <2>4. Without(seen, i) = l .. h
    BY <2>2, <2>3 DEF Without
  <2> QED BY <1>3, <1>4, <1>6, <2>1, <2>4
<1>7. CASE lo <= hi /\ i > hi /\ H = G
  <2>1. Without(seen, i) = lo .. hi
    BY <1>3, <1>7 DEF Without
  <2> QED BY <1>3, <1>4, <1>7, <2>1
<1>8. CASE lo <= i /\ i <= hi /\ H = G
  <2>1. PICK h \in Nat : h = hi - 1
    BY <1>3, <1>8
  <2>2. \A k \in seen \ {i} : (IF k > i THEN k - 1 ELSE k) \in lo .. h
    BY <1>3, <1>8, <2>1
  <2>3. ASSUME NEW x \in lo .. h
        PROVE  x \in Without(seen, i)
    <3>1. CASE x < i
      <4>1. x \in seen \ {i} /\ x = IF x > i THEN x - 1 ELSE x
        BY <1>3, <1>8, <2>1, <3>1
      <4> QED BY <4>1 DEF Without
    <3>2. CASE x >= i
      <4>1. x + 1 \in seen \ {i} /\ x = IF x + 1 > i THEN (x + 1) - 1 ELSE x + 1
        BY <1>3, <1>8, <2>1, <3>2
      <4> QED BY <4>1 DEF Without
    <3> QED BY <1>3, <2>1, <3>1, <3>2
  <2>4. Without(seen, i) = lo .. h
    BY <2>2, <2>3 DEF Without
  <2> QED BY <1>3, <1>4, <1>8, <2>1, <2>4
<1> QED BY <1>3, <1>5, <1>6, <1>7, <1>8

\* The fetched page goes on where the one before ended, or above it.
LEMMA FetchSees ==
  ASSUME HistoryInv, FetchHistory
  PROVE  table' \in Table /\ \E lo, hi : SeenFrom(lo, hi, Len(games), table)'
<1>1. PICK G \in Nat : G = Len(games)
  BY SequenceIs DEF HistoryInv
<1>2. PICK S \in Nat, off \in Nat : S = PAGE_SIZE /\ S > 0 /\ off = table.page * PAGE_SIZE
  BY HistoryAssumption DEF HistoryInv, Table
<1>3. PICK lo, hi : SeenFrom(lo, hi, G, table)
  BY <1>1 DEF HistoryInv
<1>4. lo \in Nat \ {0} /\ hi \in Nat /\ seen = lo .. hi /\ (lo <= hi => lo <= G - off + 1)
  BY <1>2, <1>3 DEF SeenFrom, FetchHistory
<1>5. games' = games /\ table \in Table /\ IsSequence(games)
  BY DEF FetchHistory, HistoryInv
<1>6. CASE /\ table' = [table EXCEPT !.loading = FALSE, !.error = TRUE]
           /\ seen' = {}
  <2>1. PICK x : x = [table EXCEPT !.loading = FALSE]
    OBVIOUS
  <2>1a. x \in Table
    BY <1>5, <2>1 DEF Table
  <2>2. table' = [x EXCEPT !.error = TRUE] /\ [x EXCEPT !.error = TRUE] \in Table
    <3>1. table' = [x EXCEPT !.error = TRUE]
      BY <1>6, <2>1
    <3>2. [x EXCEPT !.error = TRUE] \in Table
      BY <2>1a DEF Table
    <3> QED BY <3>1, <3>2
  <2>3. 1 .. 0 = {}
    OBVIOUS
  <2>4. SeenFrom(1, 0, Len(games), table)'
    BY <1>6, <2>3 DEF SeenFrom
  <2> QED BY <2>2, <2>4
<1>7. ASSUME NEW rows, rows = Fetched,
             table' = [table EXCEPT !.rows = Len(rows), !.loading = FALSE, !.error = FALSE],
             seen' = IF seen = {} THEN ToSet(rows)
                     ELSE seen \cup {i \in ToSet(rows) : \E k \in seen : i <= k}
      PROVE  table' \in Table /\ \E l, h : SeenFrom(l, h, Len(games), table)'
  <2>1. PICK n \in Nat : n = IF S < HISTORY_LIMIT THEN S ELSE HISTORY_LIMIT
    BY HistoryAssumption
  <2>2. /\ rows \in Seq(1 .. G)
        /\ ToSet(rows) = {x \in 1 .. G : x <= G - off /\ x > G - off - n}
        /\ Len(rows) >= S => n = S /\ S <= G - off
    <3>1. Listed(rows, G, S, off, n)
      BY <1>1, <1>2, <1>5, <1>7, <2>1 DEF Fetched, Listed
    <3> QED BY <1>2, <3>1, ListIs
  <2>3. rows \in Seq(Nat) /\ Len(rows) \in Nat
    <3>1. 1 .. G \subseteq Nat
      OBVIOUS
    <3> QED BY <2>2, <3>1
  <2>4. PICK x : x = [table EXCEPT !.rows = Len(rows)]
    OBVIOUS
  <2>5. x \in Table /\ x.rows = Len(rows) /\ x.page = table.page
    BY <1>5, <2>3, <2>4 DEF Table
  <2>6. PICK y : y = [x EXCEPT !.loading = FALSE]
    OBVIOUS
  <2>7. y \in Table /\ y.rows = Len(rows) /\ y.page = table.page /\ y.loading = FALSE
    BY <2>5, <2>6 DEF Table
  <2>8. PICK z : z = [y EXCEPT !.error = FALSE]
    OBVIOUS
  <2>9. z \in Table /\ z.rows = Len(rows) /\ z.page = table.page /\ z.loading = FALSE
    BY <2>7, <2>8 DEF Table
  <2>10. table' = z
    BY <1>7, <2>4, <2>6, <2>8
  <2>11. ASSUME NEW l \in Nat \ {0}, NEW h \in Nat, seen' = l .. h,
                l <= h /\ Len(rows) >= S => l <= G - off - S + 1
         PROVE  SeenFrom(l, h, Len(games), table)'
    <3>1. SeenFrom(l, h, Len(games), table)' <=>
            /\ l \in Nat \ {0} /\ h \in Nat /\ seen' = l .. h
            /\ l <= h =>
                 /\ z.loading => l <= G - z.page * PAGE_SIZE + 1
                 /\ ~z.loading /\ z.rows >= PAGE_SIZE => l <= G - z.page * PAGE_SIZE - PAGE_SIZE + 1
      BY <1>1, <1>5, <2>10 DEF SeenFrom
    <3> QED BY <1>2, <2>9, <2>11, <3>1
  <2>12. PICK b \in Int, a \in Nat \ {0} : b = G - off /\ a = IF b - n + 1 > 1 THEN b - n + 1 ELSE 1
    <3>1. G - off \in Int
      OBVIOUS
    <3>2. PICK b \in Int : b = G - off
      BY <3>1
    <3>3. (IF b - n + 1 > 1 THEN b - n + 1 ELSE 1) \in Nat \ {0}
      OBVIOUS
    <3> QED BY <3>2, <3>3
  <2>13. ToSet(rows) = a .. b
    BY <2>2, <2>12
  <2>14. Len(rows) >= S => a <= b - S + 1
    BY <2>2, <2>12
  <2>15. CASE seen = {} /\ b < 0
    <3>1. seen' = 1 .. 0
      BY <1>7, <2>12, <2>13, <2>15
    <3> QED BY <2>9, <2>10, <2>11, <3>1
  <2>16. CASE seen = {} /\ b >= 0
    <3>1. seen' = a .. b /\ b \in Nat
      BY <1>7, <2>13, <2>16
    <3> QED BY <2>9, <2>10, <2>11, <2>12, <2>14, <3>1
  <2>17. CASE seen # {}
    <3>1. lo <= hi /\ lo <= b + 1
      BY <1>4, <2>12, <2>17
    <3>2. seen' = (lo .. hi) \cup {i \in a .. b : i <= hi}
      BY <1>4, <1>7, <2>13, <2>17, <3>1
    <3>3. PICK l \in Nat \ {0} : l = IF a < lo THEN a ELSE lo
      BY <1>4
    <3>4. seen' = l .. hi
      BY <1>4, <3>1, <3>2, <3>3
    <3>5. Len(rows) >= S => l <= G - off - S + 1
      BY <1>4, <2>12, <2>14, <3>3
    <3> QED BY <1>4, <2>9, <2>10, <2>11, <3>4, <3>5
  <2> QED BY <2>15, <2>16, <2>17
<1> QED BY <1>6, <1>7 DEF FetchHistory

\* Every step of the history page leaves no hole in what has been seen.
LEMMA StepHistory == HistoryInv /\ [Next]_vars => HistoryInv'
<1> SUFFICES ASSUME HistoryInv, [Next]_vars
             PROVE  HistoryInv'
  OBVIOUS
<1>1. PICK lo, hi : SeenFrom(lo, hi, Len(games), table)
  BY DEF HistoryInv
<1>2. PICK rows, asked : stats = [rows |-> rows, asked |-> asked] /\ IsSequence(rows)
  BY DEF HistoryInv
<1>3. PICK G \in Nat : G = Len(games) /\ DOMAIN games = 1 .. G
  BY SequenceIs DEF HistoryInv
<1>4. IsSequence(games) /\ table \in Table
  BY DEF HistoryInv
<1>5. ASSUME UNCHANGED <<games, table, seen>>
      PROVE  /\ IsSequence(games)' /\ table' \in Table
             /\ \E l, h : SeenFrom(l, h, Len(games), table)'
  BY <1>1, <1>4, <1>5 DEF SeenFrom
<1>6. UNCHANGED stats => \E r, a : stats' = [rows |-> r, asked |-> a] /\ IsSequence(r)
  BY <1>2
<1>7. ASSUME NEW H \in Nat, IsSequence(games'), Len(games') = H, G <= H, UNCHANGED <<table, seen, stats>>
      PROVE  HistoryInv'
  <2>1. SeenFrom(lo, hi, H, table)
    BY <1>1, <1>3, <1>4, <1>7, SeenStays
  <2>2. SeenFrom(lo, hi, Len(games), table)'
    BY <1>7, <2>1 DEF SeenFrom
  <2> QED BY <1>4, <1>6, <1>7, <2>2 DEF HistoryInv
<1>8. CASE UNCHANGED historyVars
  BY <1>5, <1>6, <1>8 DEF HistoryInv, historyVars
<1>9. CASE AddressSeen /\ UNCHANGED <<games, table, seen, faults>>
  <2>1. IsSequence(<<>>)
    <3>1. 1 .. 0 = {} /\ <<>> = [i \in 1 .. 0 |-> <<>>[i]]
      OBVIOUS
    <3> QED BY <3>1 DEF IsSequence
  <2>2. \E r, a : stats' = [rows |-> r, asked |-> a] /\ IsSequence(r)
    <3>1. stats.rows = rows
      BY <1>2
    <3>2. CASE address' = address
      BY <1>6, <1>9, <3>2 DEF AddressSeen
    <3>3. CASE address' # address /\ address' = None
      BY <1>9, <2>1, <3>3 DEF AddressSeen
    <3>4. CASE address' # address /\ address' # None
      BY <1>2, <1>9, <3>1, <3>4 DEF AddressSeen
    <3> QED BY <3>2, <3>3, <3>4
  <2> QED BY <1>5, <1>9, <2>2 DEF HistoryInv
<1>10. CASE GameCompleted
  <2>1. PICK g : games' = Append(games, g)
    BY <1>10 DEF GameCompleted
  <2>2. IsSequence(games') /\ Len(games') = G + 1
    BY <1>3, <1>4, <2>1, SequenceIs
  <2>3. PICK H \in Nat : H = G + 1
    OBVIOUS
  <2> QED BY <1>7, <1>10, <2>2, <2>3 DEF GameCompleted
<1>11. ASSUME NEW i \in DOMAIN games, GameSettled(i)
       PROVE  HistoryInv'
  <2>1. PICK w : games' = [games EXCEPT ![i].settlement_winner = w]
    BY <1>11 DEF GameSettled
  <2>2. PICK g : games' = [games EXCEPT ![i] = g]
    BY <2>1
  <2>3. PICK s : s = games'
    OBVIOUS
  <2>4. DOMAIN s = 1 .. G /\ s = [j \in 1 .. G |-> s[j]]
    <3>1. games = [j \in 1 .. G |-> games[j]]
      BY <1>3, <1>4 DEF IsSequence
    <3> QED BY <1>3, <2>2, <2>3, <3>1
  <2>5. IsSequence(s)
    BY <2>4 DEF IsSequence
  <2>6. Len(s) = G
    <3>1. DOMAIN s = 1 .. Len(s) /\ Len(s) \in Nat
      BY <2>5, SequenceIs
    <3>2. PICK m \in Nat : m = Len(s) /\ 1 .. m = 1 .. G
      BY <2>4, <3>1
    <3>3. (m > 0 => m \in 1 .. G) /\ (G > 0 => G \in 1 .. m)
      BY <3>2
    <3> QED BY <3>2, <3>3
  <2> QED BY <1>7, <1>11, <2>3, <2>5, <2>6 DEF GameSettled
<1>16. ASSUME NEW H \in Nat, IsSequence(games'), Len(games') = H, UNCHANGED <<table, stats>>,
              PassGoesOn(seen', H, table)
       PROVE  HistoryInv'
  <2>1. \E l, h : SeenFrom(l, h, Len(games), table)'
    BY <1>16 DEF SeenFrom, PassGoesOn
  <2> QED BY <1>4, <1>6, <1>16, <2>1 DEF HistoryInv
<1>17. ASSUME NEW i \in DOMAIN games, GameCompletedAgain(i)
       PROVE  HistoryInv'
  <2>1. PICK g : games' = Append(RemoveAt(games, i), g)
    BY <1>17 DEF GameCompletedAgain
  <2>2. IsSequence(games') /\ Len(games') = G
    BY <1>3, <1>4, <2>1, RemoveAtIs
  <2>3. seen' = Without(seen, i) /\ UNCHANGED <<table, stats>>
    BY <1>17 DEF GameCompletedAgain
  <2>4. PassGoesOn(Without(seen, i), G, table)
    BY <1>1, <1>3, <1>4, SeenMoves
  <2> QED BY <1>16, <2>2, <2>3, <2>4
<1>18. ASSUME NEW i \in DOMAIN games, GameUncompleted(i)
       PROVE  HistoryInv'
  <2>1. PICK H \in Nat : H = G - 1
    BY <1>3
  <2>2. IsSequence(games') /\ Len(games') = H
    BY <1>3, <1>4, <1>18, <2>1, RemoveAtIs DEF GameUncompleted
  <2>3. UNCHANGED <<table, stats>> /\ seen' = IF \E k \in seen : k <= i THEN {} ELSE Without(seen, i)
    BY <1>18 DEF GameUncompleted
  <2>4. CASE seen' = {}
    <3>1. seen' = 1 .. 0
      BY <2>4
    <3>2. PassGoesOn(seen', H, table)
      <4>1. PICK l \in Nat \ {0}, h \in Nat : seen' = l .. h /\ ~(l <= h)
        BY <3>1
      <4> QED BY <4>1 DEF PassGoesOn
    <3> QED BY <1>16, <2>2, <2>3, <3>2
  <2>5. CASE seen' = Without(seen, i) /\ seen # {} /\ ~\E k \in seen : k <= i
    <3>1. i < lo
      BY <1>1, <1>3, <2>5 DEF SeenFrom
    <3>2. PassGoesOn(Without(seen, i), H, table)
      BY <1>1, <1>3, <1>4, <2>1, <3>1, SeenMoves
    <3> QED BY <1>16, <2>2, <2>3, <2>5, <3>2
  <2>6. seen = {} => Without(seen, i) = {}
    BY DEF Without
  <2> QED BY <2>3, <2>4, <2>5, <2>6
<1>12. CASE FetchHistory
  <2>1. table' \in Table /\ \E l, h : SeenFrom(l, h, Len(games), table)'
    BY <1>12, FetchSees
  <2>2. UNCHANGED <<games, stats>>
    BY <1>12 DEF FetchHistory
  <2> QED BY <1>4, <1>6, <2>1, <2>2 DEF HistoryInv
<1>13. CASE PrevPage
  <2>1. seen' = {} /\ UNCHANGED <<games, stats>> /\ table.page > 0
        /\ table' = [table EXCEPT !.page = table.page - 1, !.loading = TRUE]
    BY <1>13 DEF PrevPage
  <2>2. PICK p \in Nat : p = table.page - 1
    BY <1>4, <2>1 DEF Table
  <2>3. PICK x : x = [table EXCEPT !.page = p]
    OBVIOUS
  <2>4. x \in Table
    BY <1>4, <2>3 DEF Table
  <2>5. table' = [x EXCEPT !.loading = TRUE]
    BY <2>1, <2>2, <2>3
  <2>6. table' \in Table
    BY <2>4, <2>5 DEF Table
  <2>7. 1 .. 0 = {}
    OBVIOUS
  <2>8. SeenFrom(1, 0, Len(games), table)'
    BY <2>1, <2>7 DEF SeenFrom
  <2> QED BY <1>4, <1>6, <2>1, <2>6, <2>8 DEF HistoryInv
<1>14. CASE NextPage
  <2>1. /\ UNCHANGED <<games, stats, seen>> /\ ~table.loading /\ table.rows >= PAGE_SIZE
        /\ table' = [table EXCEPT !.page = table.page + 1, !.loading = TRUE]
    BY <1>14 DEF NextPage, Buttons
  <2>2. PICK p \in Nat, q \in Nat : q = table.page /\ p = q + 1
    BY <1>4 DEF Table
  <2>3. PICK x : x = [table EXCEPT !.page = p]
    OBVIOUS
  <2>4. x \in Table /\ x.page = p
    BY <1>4, <2>3 DEF Table
  <2>5. PICK y : y = [x EXCEPT !.loading = TRUE]
    OBVIOUS
  <2>6. y \in Table /\ y.page = p /\ y.loading = TRUE
    BY <2>4, <2>5 DEF Table
  <2>7. table' = y
    BY <2>1, <2>2, <2>3, <2>5
  <2>8. PICK S \in Nat, off \in Nat : S = PAGE_SIZE /\ off = q * S
    BY HistoryAssumption
  <2>9. p * S = off + S
    BY <2>2, <2>8
  <2>10. lo \in Nat \ {0} /\ hi \in Nat /\ seen = lo .. hi /\ (lo <= hi => lo <= G - off - S + 1)
    BY <1>1, <1>3, <2>1, <2>2, <2>8 DEF SeenFrom
  <2>11. lo <= hi => lo <= G - p * S + 1
    BY <2>9, <2>10
  <2>12. SeenFrom(lo, hi, Len(games), table)' <=>
           /\ lo \in Nat \ {0} /\ hi \in Nat /\ seen = lo .. hi
           /\ lo <= hi =>
                /\ y.loading => lo <= G - y.page * PAGE_SIZE + 1
                /\ ~y.loading /\ y.rows >= PAGE_SIZE => lo <= G - y.page * PAGE_SIZE - PAGE_SIZE + 1
    BY <1>3, <2>1, <2>7 DEF SeenFrom
  <2>13. SeenFrom(lo, hi, Len(games), table)'
    BY <2>6, <2>8, <2>10, <2>11, <2>12
  <2> QED BY <1>4, <1>6, <2>1, <2>6, <2>7, <2>13 DEF HistoryInv
<1>15. CASE StatsRead
  <2>1. UNCHANGED <<games, table, seen>>
    BY <1>15 DEF StatsRead
  <2>2. \E r, a : stats' = [rows |-> r, asked |-> a] /\ IsSequence(r)
    <3>1. CASE stats' = [stats EXCEPT !.asked = FALSE]
      BY <1>2, <3>1
    <3>2. ASSUME NEW list, list = listCompletedGames(STATS_WINDOW, 0),
                 stats' = [rows |-> [i \in DOMAIN list |-> games[list[i]]], asked |-> FALSE]
          PROVE  \E r, a : stats' = [rows |-> r, asked |-> a] /\ IsSequence(r)
      <4>1. PICK n \in Nat : n = IF STATS_WINDOW < HISTORY_LIMIT THEN STATS_WINDOW ELSE HISTORY_LIMIT
        BY HistoryAssumption
      <4>2. Listed(list, G, STATS_WINDOW, 0, n)
        BY <1>3, <1>4, <3>2, <4>1, HistoryAssumption DEF Listed
      <4>3. list \in Seq(1 .. G)
        BY <4>2, ListIs
      <4>4. PICK m \in Nat : DOMAIN list = 1 .. m
        BY <4>3
      <4>5. PICK r : r = [i \in 1 .. m |-> games[list[i]]]
        OBVIOUS
      <4>6. r = [i \in 1 .. m |-> r[i]]
        BY <4>5
      <4> QED BY <3>2, <4>4, <4>5, <4>6 DEF IsSequence
    <3> QED BY <1>15, <3>1, <3>2 DEF StatsRead
  <2> QED BY <1>5, <2>1, <2>2 DEF HistoryInv
<1> QED
  BY <1>8, <1>9, <1>10, <1>11, <1>12, <1>13, <1>14, <1>15, <1>17, <1>18, HistoryApart DEF HistoryStep

\* The record adds up and its streaks are the longest there are, and no game is missed
\* between the first and the last one read, whatever is completed meanwhile, or completed
\* anew, and whatever leaves the list below the place that has been reached.
THEOREM HistoryAlwaysRight == Spec => []HistoryIsRight
<1>1. ASSUME HistoryInv PROVE HistoryIsRight
  <2>1. PICK rows, asked : stats = [rows |-> rows, asked |-> asked] /\ IsSequence(rows)
    BY <1>1 DEF HistoryInv
  <2>2. PICK X : X = {rows[i] : i \in DOMAIN rows}
    OBVIOUS
  <2>3. stats.rows \in Seq(X)
    BY <2>1, <2>2, SequenceIs
  <2>4. RecordIsRight
    BY <2>3, RecordRight
  <2>5. PagesSkipNothing
    <3>1. PICK lo \in Nat, hi \in Nat : seen = lo .. hi
      BY <1>1 DEF HistoryInv, SeenFrom
    <3> QED BY <3>1 DEF PagesSkipNothing
  <2> QED BY <2>4, <2>5 DEF HistoryIsRight
<1> QED BY <1>1, InitHistory, StepHistory, PTL DEF Spec
=============================================================================
