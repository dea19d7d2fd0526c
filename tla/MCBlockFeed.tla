---------------------------- MODULE MCBlockFeed ----------------------------
(* The instance of BlockFeed for TLC: windows of three rows, of which the   *)
(* GPU page opens with two, and files that are shorter and longer than      *)
(* both, so that a stream is cut off, wraps around and is started again.    *)
EXTENDS BlockFeed
=============================================================================
