------------------------------ MODULE LossyFifo ------------------------------
(***************************************************************************)
(* What every bounded buffer of the engine promises (DESIGN.md 7.3): items *)
(* are accepted while the buffer is open and has room, and leave it from   *)
(* the front, in the order they came, one run of them at a time, either    *)
(* delivered or lost.  Nothing is delivered twice, nothing overtakes, and  *)
(* nothing is kept for ever.                                               *)
(***************************************************************************)
EXTENDS Naturals, Sequences

CONSTANTS Item,    \* what is buffered
          Bound    \* how much at most

VARIABLES pending,    \* accepted and not yet gone, oldest first
          gone,       \* what has been delivered, in order
          open        \* more may still come

fvars == <<pending, gone, open>>

FInit == pending = <<>> /\ gone = <<>> /\ open = TRUE

Accept(item) == /\ open
                /\ Len(pending) < Bound
                /\ pending' = Append(pending, item)
                /\ UNCHANGED <<gone, open>>

\* The k oldest leave together.
Leave(k) == /\ pending' = SubSeq(pending, k + 1, Len(pending))
            /\ gone' \in {gone, gone \o SubSeq(pending, 1, k)}
            /\ UNCHANGED open

SomeLeave == \E k \in 1..Len(pending) : Leave(k)

Close == open /\ open' = FALSE /\ UNCHANGED <<pending, gone>>

FNext == (\E item \in Item : Accept(item)) \/ SomeLeave \/ Close

FSpec == FInit /\ [][FNext]_fvars /\ WF_fvars(SomeLeave)
=============================================================================
