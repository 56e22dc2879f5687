---------------------------- MODULE HistoryClaim ----------------------------
(***************************************************************************)
(* What a provider integration promises of the history it downloads,      *)
(* whatever pages, cursors, retries and crashes it goes through.  `held'   *)
(* are the transactions the user database stores; `claim' are those the    *)
(* persisted sync state says need not be fetched again.  A transaction is  *)
(* never forgotten, the claim never runs ahead of what is held, and it is  *)
(* never cut back: it grows, or it is withdrawn as a whole.                *)
(***************************************************************************)
CONSTANT Items

VARIABLES held, claim

Init == held \in SUBSET Items /\ claim = {}

\* A page is reconciled: transactions are stored, the claim stays as it is.
Store == /\ \E new \in SUBSET Items : held' = held \cup new
         /\ UNCHANGED claim

\* A proof, tip or cursor is committed over transactions that are all stored.
Extend == /\ \E more \in SUBSET held : claim' = claim \cup more
          /\ UNCHANGED held

\* The evidence is contradicted: nothing is claimed any more.
Withdraw == /\ claim' = {}
            /\ UNCHANGED held

Next == Store \/ Extend \/ Withdraw

Spec == Init /\ [][Next]_<<held, claim>>
=============================================================================
