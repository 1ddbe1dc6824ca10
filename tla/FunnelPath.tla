----------------------------- MODULE FunnelPath -----------------------------
(***************************************************************************)
(* What an ACTIVE funnel promises its owner, whatever is asked at once: a  *)
(* path of stages, one of them open at a time. To complete the open stage  *)
(* opens the next in the same step; each completion is announced once, or  *)
(* lost with the process that owed it; a completed stage is reviewed once; *)
(* nothing is taken back, until the funnel is removed as a whole.          *)
(*                                                                         *)
(* What a stage takes to be completed is left open: its tasks may change   *)
(* until the end (see CompletedWithAllDone in StageProgression).           *)
(***************************************************************************)
EXTENDS Naturals

CONSTANT StageCount     \* the stages of a funnel

Stages == 1..StageCount

VARIABLES
    open,               \* the stage that is open, as a set: none at the end
    completed,          \* the completed stages
    owed,               \* completions still to be announced
    announced,          \* how many times each was announced
    unlocked,           \* how many times a stage was announced as unlocked
    reviews             \* feedback given to each stage

pathVars == <<open, completed, owed, announced, unlocked, reviews>>

Init ==
    /\ open = {1}
    /\ completed = {}
    /\ owed = {}
    /\ announced = [p \in Stages |-> 0]
    /\ unlocked = [p \in Stages |-> 0]
    /\ reviews = [p \in Stages |-> 0]

Complete(p) ==
    /\ open = {p}
    /\ open' = {p + 1} \cap Stages
    /\ completed' = completed \cup {p}
    /\ owed' = owed \cup {p}
    /\ UNCHANGED <<announced, unlocked, reviews>>

\* The next stage, if there is one, is announced along.
Announce(p) ==
    /\ p \in owed
    /\ owed' = owed \ {p}
    /\ announced' = [announced EXCEPT ![p] = @ + 1]
    /\ unlocked' = [q \in Stages |-> unlocked[q] + (IF q = p + 1 THEN 1 ELSE 0)]
    /\ UNCHANGED <<open, completed, reviews>>

Lose(p) ==
    /\ p \in owed
    /\ owed' = owed \ {p}
    /\ UNCHANGED <<open, completed, announced, unlocked, reviews>>

Review(p) ==
    /\ p \in completed
    /\ reviews[p] = 0
    /\ reviews' = [reviews EXCEPT ![p] = 1]
    /\ UNCHANGED <<open, completed, owed, announced, unlocked>>

\* Announcements that are owed by then are still made.
Remove ==
    /\ open \cup completed # {}
    /\ open' = {}
    /\ completed' = {}
    /\ reviews' = [p \in Stages |-> 0]
    /\ UNCHANGED <<owed, announced, unlocked>>

Next ==
    \/ \E p \in Stages : Complete(p) \/ Announce(p) \/ Lose(p) \/ Review(p)
    \/ Remove

Spec == Init /\ [][Next]_pathVars
=============================================================================
