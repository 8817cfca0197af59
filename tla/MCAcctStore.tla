---------------------------- MODULE MCAcctStore ----------------------------
(***************************************************************************)
(* Small instances of AcctStore for TLC.  A fetched snapshot holds at most *)
(* SnapshotRows rows; with two of them one account may have two rows.      *)
(***************************************************************************)
EXTENDS AcctStore, FiniteSetsExt, TLC

CONSTANT SnapshotRows

MCSnapshots ==
  {keep \in UNION {kSubset(n, Upsert) : n \in 1..SnapshotRows} : 
     /\ Keyed(keep)
     /\ \A u \in keep : u.at # NoCred \/ u.rt # NoCred}

MCSymmetry == Permutations(Accounts) \cup Permutations(Creds)
=============================================================================
