--------------------------- MODULE HistoricalRange ---------------------------
(***************************************************************************)
(* What the historical download loop promises (spec 4.6, "Historical loop  *)
(* [init_slot, final_slot]"): the blocks of the requested range are        *)
(* fetched one at a time in slot order; a stop is honoured at the next    *)
(* iteration (spec 5: "downloaders stop at the next loop iteration"), so   *)
(* no iteration begins after it; and (Completed) a loop that ends without  *)
(* a stop has fetched every slot of the range, the last one included.      *)
(***************************************************************************)
EXTENDS Integers, Sequences

VARIABLES
    first,    \* init_slot
    last,     \* final_slot
    fetched,  \* the slots fetched so far, in order
    stopped,  \* a shutdown was requested
    inIter,   \* an iteration has begun and its fetch is still to come
    finished  \* the loop has ended

avars == <<first, last, fetched, stopped, inIter, finished>>

\* The next slot of the range not yet fetched.
NextInRange == first + Len(fetched)

AInit ==
    /\ first \in Nat /\ last \in Nat /\ first <= last
    /\ fetched = <<>> /\ stopped = FALSE /\ inIter = FALSE /\ finished = FALSE

\* An iteration begins only while no stop is requested, within the range.
BeginIter ==
    /\ ~finished /\ ~stopped /\ ~inIter
    /\ NextInRange <= last
    /\ inIter' = TRUE
    /\ UNCHANGED <<first, last, fetched, stopped, finished>>

\* The iteration's fetch, whether or not a stop came in meanwhile.
Fetch ==
    /\ inIter
    /\ fetched' = Append(fetched, NextInRange)
    /\ inIter' = FALSE
    /\ UNCHANGED <<first, last, stopped, finished>>

RequestStop ==
    /\ ~stopped
    /\ stopped' = TRUE
    /\ UNCHANGED <<first, last, fetched, inIter, finished>>

\* The loop may end between iterations; Completed says what it owes when
\* it does.
Finish ==
    /\ ~finished /\ ~inIter
    /\ finished' = TRUE
    /\ UNCHANGED <<first, last, fetched, stopped, inIter>>

ANext == BeginIter \/ Fetch \/ RequestStop \/ Finish

\* The safety part: every step is one of the above.
SafeSpec == AInit /\ [][ANext]_avars

\* The loop goroutine keeps running; nobody is obliged to request a stop.
ASpec == SafeSpec /\ WF_avars(BeginIter \/ Fetch \/ Finish)

\* Finishing without a stop means every slot of the range was fetched.
Completed == finished /\ ~stopped => Len(fetched) = last - first + 1

=============================================================================
