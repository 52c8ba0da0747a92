----------------------------- MODULE MCShortMsg -----------------------------
(* Short messages with four models and fields of three bytes.             *)
EXTENDS ShortMsg

\* 1 replaces messages of its type and folds, 2 is long, 3 is cut; 4 a push.
MCMandatory == [m \in Model |-> IF m = 3 THEN {} ELSE Key]
MCDefault == [m \in Model |-> IF m = 2 THEN Key ELSE {}]
MCUsed == [m \in Model |-> Key]
MCExpPolicy == [m \in Model |-> IF m = 1 THEN "1" ELSE "0"]
MCFoldPolicy == [m \in Model |-> IF m = 1 THEN "2" ELSE "0"]
MCSmType == [m \in Model |-> CASE m = 2 -> "long" [] m = 4 -> "push" [] OTHER -> "norm"]

\* The one busi_code has channels of its own, or else the work group's.
MCOwnChannel == [op \in Op |-> IF op = "special" THEN {"t1"} ELSE {}]
MCGroupChannel == [m \in Model |-> IF m = 1 THEN Channel ELSE {"t2"}]

\* Around one field, two fields less two bytes, and two fields, with wide
\* characters and with spaces at and across the border, and texts of spaces.
W == "wide"
B == "byte"
S == "blank"
C == "control"
MCText ==
    [m \in Model |->
        CASE m = 1 -> {<<W, S, B>>, <<B, B, W, B>>, <<W, W, B>>, <<W, W, W>>}
          [] m = 2 -> {<<W>>, <<S, S>>, <<B, B, C, S, W>>, <<B, S, W, C, S>>}
          [] m = 3 -> {<<B>>, <<W, W>>, <<C, B>>}
          [] OTHER -> {<<S, B>>, <<W, W>>}]
=============================================================================
