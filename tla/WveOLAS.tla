------------------------------ MODULE WveOLAS ------------------------------
(***************************************************************************)
(* wveOLAS, the wrapper that the governor reads veOLAS through: the views  *)
(* of veOLAS, guarded where veOLAS answers for a block or a time it has no *)
(* point for.                                                              *)
(***************************************************************************)
EXTENDS VeOLAS

\* getPastVotes and balanceOfAt: nothing before the first point of the account.
HasPointAt(u, b) ==
  mapUserPoints[u] # <<>> /\ b >= mapUserPoints[u][1].blockNumber

\* Fault: the first point of the account is not looked at, as in veOLAS itself.
WveGetPastVotes_Unguarded(u, b) == GetPastVotes(u, b)

WveGetPastVotes(u, b) == IF HasPointAt(u, b) THEN GetPastVotes(u, b) ELSE 0
WveBalanceOfAt(u, b) == IF HasPointAt(u, b) THEN BalanceAt(mapUserPoints[u], b) ELSE 0

(***************************************************************************)
(* Properties                                                              *)
(***************************************************************************)

\* At any block since deployment, the votes that the governor may count add up to
\* the total it takes the quorum of, and the balances to the supply: a lock that
\* is created, extended or withdrawn later cannot vote on an earlier snapshot.
PastVotesAddUp ==
  \A b \in StartBlock .. block :
    SumOver(Voters, LAMBDA u : WveGetPastVotes(u, b)) = GetPastTotalSupply(b)
PastBalancesAddUp ==
  \A b \in StartBlock .. block :
    SumOver(Voters, LAMBDA u : WveBalanceOfAt(u, b)) = BalanceAt(mapSupplyPoints, b)

\* "Gets voting power at a specific block number": with blocks at a constant rate,
\* what getPastVotes answers for a past block stays the same. False: the weeks that
\* a later checkpoint fills in carry the block number of the point before them.
PastVotesAreFinal ==
  [][\A u \in Voters, b \in StartBlock .. block - 1 :
       WveGetPastVotes(u, b)' = WveGetPastVotes(u, b)]_vars
=============================================================================
