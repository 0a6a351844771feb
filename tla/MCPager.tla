------------------------------ MODULE MCPager ------------------------------
EXTENDS Pager

(* Sessions without a mishap, sessions in which everything may fail, and    *)
(* sessions that change the interval.                                       *)
Mishaps == {{"write"}, {"write", "sync", "close", "crash"}, {"write", "interval"}}
=============================================================================
