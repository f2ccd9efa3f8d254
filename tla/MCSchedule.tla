----------------------------- MODULE MCSchedule -----------------------------
EXTENDS Schedule

Star       == [star |-> TRUE, lo |-> 0, hi |-> 0, step |-> 1, stepped |-> FALSE]
At(v)      == [star |-> FALSE, lo |-> v, hi |-> v, step |-> 1, stepped |-> FALSE]
From(v, k) == [star |-> FALSE, lo |-> v, hi |-> v, step |-> k, stepped |-> TRUE]
Expr(m, h, d, mo, w) == [minute |-> m, hour |-> h, day |-> d, month |-> mo, week |-> w]

(* Every minute; the first date of a month or a Sunday (number 3, which is    *)
(* another name of 0), both fields restricted.                                *)
Always == Expr({Star}, {Star}, {Star}, {Star}, {Star})
Some   == Expr({From(0, 2)}, {At(0), At(1)}, {At(1)}, {At(1)}, {At(3)})
MCExprs == {Always, Some}

Row(e, on) == [st |-> "live", on |-> on, cron |-> e, last |-> Never]
MCStored == {<<Row(Always, TRUE), Row(Some, FALSE)>>, <<Row(Always, TRUE), New>>}
=============================================================================
