------------------------- MODULE MCMaturityReport -------------------------
(* Small instances of MaturityReport for TLC.                              *)
EXTENDS MaturityReport

(* One score on each side of every threshold the rules test, and scores    *)
(* whose percentage is not a whole number (1/35, 1/15, 14/15, 34/35).       *)
MCLevelValues == <<{0, 4, 5, 9, 10, 14, 15, 19, 20},
                   {0, 1, 9, 10, 19, 20, 24, 25, 34, 35},
                   {0, 14, 15, 24, 25},
                   {0, 1, 9, 10, 14, 15},
                   {0, 19, 20}>>
MCAllInputs == {<<a, b, c, d, e>> : a \in MCLevelValues[1], b \in MCLevelValues[2],
                 c \in MCLevelValues[3], d \in MCLevelValues[4], e \in MCLevelValues[5]}

(* For several invocations: a few records, one of them complete.           *)
MCFewInputs == {[l \in Levels |-> MaxScore[l]],
                <<15, 1, 25, 14, 0>>,
                <<20, 35, 25, 15, 19>>}
=============================================================================
