----------------------------- MODULE BudgetSpec -----------------------------
(***************************************************************************)
(* What a store of the public stamp budget promises, without saying how: a *)
(* reservation is charged to one day and one client while both have budget *)
(* left, and is granted only after it was charged.  Nothing is given back. *)
(***************************************************************************)
EXTENDS Integers, FiniteSets

CONSTANTS Requests, Clients, Days, GlobalDailyLimit, IpDailyLimit

VARIABLES account,  \* account[r]: what r is charged to, <<>> while nothing
          granted   \* the requests whose reservation returned

specVars == <<account, granted>>

OnDay(d)       == {r \in Requests : \E c \in Clients : account[r] = <<d, c>>}
OnAccount(d, c) == {r \in Requests : account[r] = <<d, c>>}

SpecInit == account = [r \in Requests |-> <<>>] /\ granted = {}

Charge(r, d, c) ==
  /\ account[r] = <<>>
  /\ account' = [account EXCEPT ![r] = <<d, c>>]
  /\ Cardinality(OnDay(d)) < GlobalDailyLimit
  /\ Cardinality(OnAccount(d, c)) < IpDailyLimit
  /\ UNCHANGED granted

Grant(r) ==
  /\ account[r] # <<>>
  /\ r \notin granted
  /\ granted' = granted \cup {r}
  /\ UNCHANGED account

SpecNext == \E r \in Requests : \/ \E d \in Days, c \in Clients : Charge(r, d, c)
                                \/ Grant(r)

BudgetedGrants == SpecInit /\ [][SpecNext]_specVars
=============================================================================
