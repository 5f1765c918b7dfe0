------------------------------ MODULE MCMgenFlow ------------------------------
\* MgenFlow with three flows of the kinds that its handlers distinguish.
EXTENDS MgenFlow

Periodic(queue, count, fails) ==
    [queue |-> queue, unlimited |-> FALSE, count |-> count, fails |-> fails]

Counted == Periodic(0, 1, FALSE)
Queued == Periodic(1, 0, TRUE)
QueuedForEver == Periodic(-1, 0, FALSE)
Unlimited == [queue |-> 0, unlimited |-> TRUE, count |-> 0, fails |-> FALSE]

Failing == [Unlimited EXCEPT !.fails = TRUE]

Mixed == {<<Counted, Queued, QueuedForEver>>, <<Queued, QueuedForEver, Failing>>,
          <<Counted, Unlimited, Failing>>}

QueueAndCount == {<<Periodic(1, 1, FALSE), Counted>>}

\* With these, too, OffStopsFlow does not hold: the second flow may leave output
\* notification off.
QueueAndFailing == {<<Queued, Failing>>}
=============================================================================
