--------------------------- MODULE MCShardDelivery --------------------------
(* Instances of ShardDelivery for TLC.                                     *)
EXTENDS ShardDelivery
CONSTANTS h1, h2
MCHash == {h1, h2}
=============================================================================
