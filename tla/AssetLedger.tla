----------------------------- MODULE AssetLedger ----------------------------
(***************************************************************************)
(* What an arc's ledger promises the two parties, without levels,          *)
(* signatures or deadlines: the asset is funded only while funding is      *)
(* open, is then either paid to the recipient or returned to the sender,   *)
(* at most one of the two and only once, and is returned only after the    *)
(* refund time.  Host time moves through its epochs in order.              *)
(***************************************************************************)
EXTENDS Naturals

VARIABLES asset,    \* "unfunded", "locked", "paid" or "returned"
          epoch     \* 0 before the origin, 1 funding, 2 waiting, 3 refundable

assetVars == <<asset, epoch>>

AssetInit ==
    /\ asset \in {"unfunded", "locked"}
    /\ epoch \in 0 .. 3

Fund ==
    /\ asset = "unfunded"
    /\ epoch = 1
    /\ asset' = "locked"
    /\ UNCHANGED epoch

Pay ==
    /\ asset = "locked"
    /\ epoch >= 1
    /\ asset' = "paid"
    /\ UNCHANGED epoch

Return ==
    /\ asset = "locked"
    /\ epoch = 3
    /\ asset' = "returned"
    /\ UNCHANGED epoch

NextEpoch ==
    /\ epoch' \in epoch + 1 .. 3
    /\ UNCHANGED asset

AssetNext == Fund \/ Pay \/ Return \/ NextEpoch

AssetSpec == AssetInit /\ [][AssetNext]_assetVars
=============================================================================
