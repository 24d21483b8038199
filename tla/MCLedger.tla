------------------------------ MODULE MCLedger -------------------------------
(***************************************************************************)
(* Instances of Ledger.  The node's own address starts with nothing and    *)
(* can pay for one transaction per reward it holds; `rich' is the address  *)
(* the genesis row pays.                                                   *)
(***************************************************************************)
EXTENDS Ledger, TLC

CONSTANTS self, rich, t1, t2, t3

Addresses == {self, rich}
SenderOf == t1 :> self @@ t2 :> rich @@ t3 :> rich
CostOf == t1 :> 1 @@ t2 :> 1 @@ t3 :> 2
EqualFees == t1 :> 1 @@ t2 :> 1 @@ t3 :> 1
RankedFees == t1 :> 1 @@ t2 :> 1 @@ t3 :> 2
Seconds == t1 :> 1 @@ t2 :> 0 @@ t3 :> 1
LateSeconds == t1 :> 1 @@ t2 :> 1 @@ t3 :> 0
GenesisFunds == self :> 0 @@ rich :> 4
=============================================================================
