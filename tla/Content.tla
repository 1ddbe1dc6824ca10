-------------------------------- MODULE Content --------------------------------
(***************************************************************************)
(* What a generation job writes: the four stages of a funnel, from Gemini, *)
(* else from Groq, else from a template (tryAiGeneration, LlmServiceImpl,  *)
(* FunnelTemplateService). The output of a provider is checked twice, by   *)
(* the service and by the processor, and not for the same things. A stage  *)
(* is a position and whether its texts and tasks are in bounds; a provider *)
(* that fails, times out or has no key answers Nothing. What becomes of    *)
(* the job meanwhile is module FunnelGeneration's.                         *)
(***************************************************************************)
EXTENDS Naturals, Sequences, FiniteSets

CONSTANT Attempts   \* attempts of the job (3 in its options)

Positions == 1..4
Stages == [position : 0..5, sound : {TRUE}] \cup [position : {1}, sound : {FALSE}]
Nothing == <<>>
Outputs == {Nothing} \cup UNION {[1..n -> Stages] : n \in 3..5}

VARIABLES
    step,           \* "gemini", "groq", "template", "checking", "writing", "written", "failed"
    data,           \* the positions of the stages to write, in order
    attempt,        \* the attempt of the job
    written         \* how many stages and task lists were written to each position

vars == <<step, data, attempt, written>>

Init ==
    /\ step = "gemini" /\ data = Nothing /\ attempt = 1
    /\ written = [p \in Positions |-> 0]

\* validateStage: its position is in range, its texts and its tasks are in bounds.
ValidStage(stage) == stage.position \in Positions /\ stage.sound

\* validateLlmOutput: positions may repeat.
Accepted(output) == Len(output) = 4 /\ \A i \in 1..Len(output) : ValidStage(output[i])

Count(s, p) == Cardinality({i \in 1..Len(s) : s[i] = p})

\* The positions of the stages, in order.
Sorted(output) ==
    LET positions == [i \in 1..Len(output) |-> output[i].position]
    IN  {s \in [1..Len(output) -> Positions] :
            /\ \A i, j \in 1..Len(output) : i < j => s[i] <= s[j]
            /\ \A p \in Positions : Count(s, p) = Count(positions, p)}

Ask(provider, next) ==
    /\ step = provider
    /\ \E output \in Outputs :
          IF Accepted(output)
          THEN step' = "checking" /\ data' \in Sorted(output)
          ELSE step' = next /\ data' = Nothing
    /\ UNCHANGED <<attempt, written>>

AskGemini == Ask("gemini", "groq")
AskGroq == Ask("groq", "template")

\* The library has templates for eight industries, each of the four stages in order;
\* so has the emergency template, for when rendering one of them throws.
Template == <<1, 2, 3, 4>>
EmergencyTemplate == <<1, 2, 3, 4>>

UseTemplate ==
    /\ step = "template"
    /\ step' = "checking"
    /\ data' \in {Template, EmergencyTemplate}
    /\ UNCHANGED <<attempt, written>>

\* Mutant of Distinct: positions are checked in the service's way.
InRange(s) == \A i \in 1..Len(s) : s[i] \in Positions

Distinct(s) == \A i, j \in 1..Len(s) : i # j => s[i] # s[j]

\* validateStageData; what it refuses fails the attempt, with no other provider
\* and no template tried in its stead.
CheckStages ==
    /\ step = "checking"
    /\ IF Len(data) = 4 /\ Distinct(data)
       THEN step' = "writing" /\ UNCHANGED <<data, attempt>>
       ELSE /\ data' = Nothing
            /\ IF attempt < Attempts
               THEN step' = "gemini" /\ attempt' = attempt + 1
               ELSE step' = "failed" /\ UNCHANGED attempt
    /\ UNCHANGED written

\* writeFunnelData: the UPDATE of the stage at each position, and its tasks.
WriteStages ==
    /\ step = "writing"
    /\ step' = "written"
    /\ written' = [p \in Positions |-> Count(data, p)]
    /\ UNCHANGED <<data, attempt>>

Next == AskGemini \/ AskGroq \/ UseTemplate \/ CheckStages \/ WriteStages

Spec == Init /\ [][Next]_vars

-----------------------------------------------------------------------------
(* Properties *)

\* A funnel that is written has each of its four stages, with one list of tasks,
\* whatever a provider answered (validateLlmOutput, validateStageData).
ContentComplete == step = "written" => \A p \in Positions : written[p] = 1

-----------------------------------------------------------------------------
(* The inductive invariant *)

TypeOK ==
    /\ step \in {"gemini", "groq", "template", "checking", "writing", "written", "failed"}
    /\ data \in {Nothing} \cup [1..4 -> Positions]

\* What is written has passed the check.
CheckedInv == step = "writing" => data # Nothing /\ Distinct(data)

\* The inductive invariant of a generation attempt.
IInv == TypeOK /\ CheckedInv /\ ContentComplete
=============================================================================
