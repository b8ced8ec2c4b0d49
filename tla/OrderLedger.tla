----------------------------- MODULE OrderLedger -----------------------------
(***************************************************************************)
(* What the checkout promises about money and orders, without pages,       *)
(* devices or awaits.  A payment backs at most one order of each kind; an  *)
(* order is written down only when paid for, first for the customer, then  *)
(* for the shop; the restaurant order comes after the course order is      *)
(* known to both.                                                          *)
(***************************************************************************)
CONSTANT Intents

VARIABLES
  paid,     \* the intents that were paid
  booked,   \* <<intent, kind>>: orders the customer sees
  shared    \* <<intent, kind>>: orders the shop sees

ledgerVars == <<paid, booked, shared>>

LedgerKinds == {"course", "restaurant"}

Init == paid = {} /\ booked = {} /\ shared = {}

Charge(i) ==
  /\ i \notin paid
  /\ paid' = paid \cup {i}
  /\ UNCHANGED <<booked, shared>>

Book(i, k) ==
  /\ i \in paid
  /\ <<i, k>> \notin booked
  /\ <<i, "restaurant">> \notin booked
  /\ \A e \in booked : e[1] = i => e \in shared
  /\ booked' = booked \cup {<<i, k>>}
  /\ UNCHANGED <<paid, shared>>

Share(i, k) ==
  /\ <<i, k>> \in booked \ shared
  /\ shared' = shared \cup {<<i, k>>}
  /\ UNCHANGED <<paid, booked>>

Next == \E i \in Intents : Charge(i) \/ \E k \in LedgerKinds : Book(i, k) \/ Share(i, k)

Spec == Init /\ [][Next]_ledgerVars

=============================================================================
