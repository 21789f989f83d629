------------------------------- MODULE QueueOrder ------------------------------
(***************************************************************************)
(* IngestQueue with two history variables, to say in which order requests  *)
(* are served: `came` holds <<a, b>> when a was queued before b, and       *)
(* `returned` the requests that were put back at least once.  The history  *)
(* follows from the step the queue takes and restricts nothing.            *)
(***************************************************************************)
EXTENDS IngestQueue

VARIABLES came, returned

allVars == <<queue, hand, came, returned>>

\* The requests that still expect to be served: waiting or in somebody's hand.
Present == IdsOf(queue.waiting) \cup (UNION {IdsOf(hand[p]) : p \in Procs})

OrderInit == Init /\ came = {} /\ returned = {}

OrderNext ==
    /\ Next
    /\ came' = (came \cup (Present \X (Present' \ Present))) \cap (Present' \X Present')
    /\ returned' =
          (returned \cup ((UNION {IdsOf(hand[p]) : p \in Procs}) \cap IdsOf(queue.waiting)'))
             \cap Present'

OrderSpec == OrderInit /\ [][OrderNext]_allVars

-----------------------------------------------------------------------------

\* Nobody is overtaken by a request that simply arrived later: in the line, a
\* request stands behind a later one only if that one was taken and put back
\* (src/app/ingest_queue.py, "take" and "put_back").
OvertakenOnlyByReturned ==
    \A pair \in queue.ahead : pair \in came \/ pair[1] \in returned

================================================================================
