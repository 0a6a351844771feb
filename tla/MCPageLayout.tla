---------------------------- MODULE MCPageLayout ----------------------------
EXTENDS PageLayout, TLC

CONSTANTS a, b

TwoLens == (a :> 2) @@ (b :> 4)
OneLen  == a :> 2
SmallKeys == 1 .. 4
PageIds   == {3, 4}
=============================================================================
