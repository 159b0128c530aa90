----------------------------- MODULE MCHistogram -----------------------------
(***************************************************************************)
(* Two histogram columns: one with a scale and two bounds, one with a      *)
(* default and a negative scale.  Three label tuples, two of which join to *)
(* the same characters; observations on, between and above the bounds;     *)
(* one that overflows, and sums that do.                                   *)
(***************************************************************************)
EXTENDS Histogram

Number(n)   == [kind |-> "number", num |-> n]
Unscaled(n) == [kind |-> "unscaled", num |-> n]
Null        == [kind |-> "null", num |-> 0]
Invalid     == [kind |-> "invalid", num |-> 0]

MCBucket  == <<<<2, 4>>, <<-2>>>>
MCScale   == <<2, -1>>
MCDefault == <<Null, Number(2)>>
MCData    == {Number(1), Number(2), Number(4), Unscaled(5), Null, Invalid}
MCMaxFloat == 7
a == 97
b == 98
One == 49

MCLabels  == {<<<<a>>, <<One, b>>>>, <<<<a, One>>, <<b>>>>, <<<<>>, <<a>>>>}
===============================================================================
