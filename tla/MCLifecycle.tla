------------------------------ MODULE MCLifecycle ------------------------------
(***************************************************************************)
(* A consumer with two retry levels and three partitions of the first      *)
(* retry topic of `orders`: `payments` shares that ladder, `audit` shares  *)
(* a topic of another subscription and has a DLQ of its own, and the rest  *)
(* clash: two levels of one topic, a batch among others, a DLQ that is     *)
(* consumed, a ladder on itself.                                           *)
(***************************************************************************)
EXTENDS Lifecycle, TLC

CONSTANTS r1, r2, r3

MCTopic == r1 :> "retry" @@ r2 :> "retry" @@ r3 :> "retry"

MCRequests == {"orders", "payments", "returns", "invoices", "late", "audit", "refunds"}

MCRetryNaming ==
    "orders" :> <<"retry", "late">> @@ "payments" :> <<"retry", "late">> @@
    "returns" :> <<"brief", "late">> @@ "invoices" :> <<"late", "brief">> @@
    "late" :> <<"later", "brief">> @@ "audit" :> <<"later", "dlq">> @@
    "refunds" :> <<"refunds", "late">>

MCDlqNaming ==
    "orders" :> "dlq" @@ "payments" :> "dlq" @@ "returns" :> "returns-dlq" @@
    "invoices" :> "payments" @@ "late" :> "late-dlq" @@ "audit" :> "audit-dlq" @@
    "refunds" :> "dlq"
===============================================================================
