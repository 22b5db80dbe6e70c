--------------------------- MODULE MCTradeKeyLock ---------------------------
(* Three engine processes and one inode more than can be open at a time:   *)
(* when an engine starts, the path may name none of the inodes in use.     *)
EXTENDS TradeKeyLock
=============================================================================
