-------------------------- MODULE ClientProperties --------------------------
(***************************************************************************)
(* What a page's message says about the chain, with transactions that land *)
(* after they were given up, calls that fail and tabs of one account.      *)
(***************************************************************************)
EXTENDS ClientFlows

\* The submissions whose last call took effect.
Landed == {r.flow : r \in {a \in applied : a.ok /\ a.call # "approve"}}

\* "Done" is said only of a submission that took effect.  An error is final, and what
\* it is shown of never takes effect, unless it came when the last transaction had been
\* sent and was still awaited: one that was not confirmed in time, or a request that
\* failed, may land when the form is long there to be submitted again, and the error
\* shown does not tell it from the others (create/page.tsx:140-145, useTrading.ts:78-83).
PageTellsTheTruth ==
  \A f \in Flows :
    /\ told[f] \in {"done", "early"} => f \in Landed
    /\ told[f] = "failed" /\ f \notin cut =>
         f \notin Landed /\ ~\E c \in network : c.flow = f /\ c.call # "approve"

\* Two players wait for the same stakes in matches of their own only if the page
\* of the second could not find the first one: it was not yet indexed, beyond
\* the end of the list, or the list could not be read.
SearchersMeet ==
  \A m, n \in Matches :
    /\ m < n /\ matches[m].a # matches[n].a /\ matches[m].bet = matches[n].bet
    /\ matches[m].status = "open" /\ matches[n].status = "open"
    => m \notin matches[n].saw

\* Timers fire and requests are answered; a wallet's prompt may stay open for
\* ever, and no transaction has to be applied.
Fairness == \A t \in Tabs : WF_vars(PageGoesOn(t))

FairSpec == Spec /\ Fairness

\* A submission comes to an end, or to a prompt that waits for the user, whatever
\* becomes of what it has sent.
SubmissionsEnd ==
  \A t \in Tabs : tabs[t].pc \in {"search", "build", "poll", "wait"} ~> tabs[t].pc \in {"idle", "sign"}
=============================================================================
