-------------------------------- MODULE Flap --------------------------------
(***************************************************************************)
(* Flap damping (crates/engine/src/flap.rs): two counters per monitor that *)
(* decide when a definite probe result may change the monitor's status.    *)
(* The code only compares the counters with the two thresholds, so each is *)
(* kept up to its threshold and no further.                                *)
(***************************************************************************)
EXTENDS Integers

CONSTANTS DownThreshold,   \* DOWN_THRESHOLD: failures before Down (2 in the code)
          UpThreshold      \* UP_THRESHOLD: successes before Up (1 in the code)

ASSUME ThresholdAssumption == /\ DownThreshold \in Nat \ {0}
                              /\ UpThreshold \in Nat \ {0}

FlapState == [succ : 0..UpThreshold, fail : 0..DownThreshold]

\* FlapState::default().
FreshFlap == [succ |-> 0, fail |-> 0]

\* A counter incremented and kept at most at its threshold.
Bump(count, threshold) == IF count < threshold THEN count + 1 ELSE threshold

\* Mutant of Counted: a success leaves the failures counted so far.
CountedKeepingFailures(flap, success) ==
    IF success
    THEN [flap EXCEPT !.succ = Bump(@, UpThreshold)]
    ELSE [succ |-> 0, fail |-> Bump(flap.fail, DownThreshold)]

\* The counters after one definite result.
Counted(flap, success) ==
    IF success
    THEN [succ |-> Bump(flap.succ, UpThreshold), fail |-> 0]
    ELSE [succ |-> 0, fail |-> Bump(flap.fail, DownThreshold)]

\* The status after one definite result, given the counters that result left:
\* the current one unless a threshold has been reached.
Judged(counted, success, current) ==
    IF success
    THEN IF counted.succ >= UpThreshold THEN "Up" ELSE current
    ELSE IF counted.fail >= DownThreshold THEN "Down" ELSE current
=============================================================================
