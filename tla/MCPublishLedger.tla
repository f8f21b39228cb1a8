--------------------------- MODULE MCPublishLedger ---------------------------
\* Three programs for the model checker: x and y are alike, w stands alone.
EXTENDS PublishLedger, TLC

CONSTANTS w, x, y

ScoresOfThree == (w :> 2) @@ (x :> 1) @@ (y :> 2)

Alike == [p \in Programs \X Programs |->
    IF p[1] = p[2] THEN 2 ELSE IF p \in {<<x, y>>, <<y, x>>} THEN 1 ELSE 0]
=============================================================================
