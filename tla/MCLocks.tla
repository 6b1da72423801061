------------------------------- MODULE MCLocks -------------------------------
EXTENDS Locks, TLC

MCTxns == 1 .. 3

\* Message m1 waits for q1, m2 is being processed; one product, one customer.
MCRole ==
    "m1" :> "waiting" @@ "q1" :> "question" @@ "m2" :> "processing" @@ "j2" :> "job"
    @@ "m4" :> "lost" @@ "j5" :> "stuck" @@ "e1" :> "entry" @@ "p1" :> "product" @@ "c1" :> "customer"

MCQuestionOf == "m1" :> "q1"

\* Transactions differ in their scripts alone, so it is enough to start from
\* one arrangement of any three: TLC's symmetry is not sound for liveness.
Order == "job" :> 10 @@ "tap" :> 20 @@ "recreate" :> 30 @@ "failing" :> 40 @@ "reap" :> 50 @@ "late" :> 60

Arranged ==
    \A t, u \in Txns : t < u =>
        Order[script[t].kind] + Len(script[t].locks) <= Order[script[u].kind] + Len(script[u].locks)

MCInit == Init /\ Arranged

MCSpec == MCInit /\ [][Next]_vars /\ Fairness
=============================================================================
