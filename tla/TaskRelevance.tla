---------------------------- MODULE TaskRelevance ----------------------------
(***************************************************************************)
(* classify_task_intent and MemoryRelevanceRouter: the task a request is    *)
(* about, and the memories it promotes or suppresses for it.  Scores are in *)
(* hundredths.                                                              *)
(*                                                                          *)
(* A request carries the sum of the keyword weights it scores for each      *)
(* intent, and the words "refactor", "fix", "bug" it has.  A memory carries *)
(* the marks its text, tags and type give it.                               *)
(***************************************************************************)
EXTENDS Integers, Sequences

Intent == <<"architecture_refactor", "bug_fix", "debugging", "code_understanding", "general_query">>
Mark == {"layer", "architecture_type", "noise", "failure_type", "failure_text", "bug_text",
         "runtime", "trace_text", "world_text"}

\* classify_task_intent: keywords is [architecture, bug, debug, understand, words].
IntentScores(keywords) ==
    LET both == keywords.bug > 0 /\ keywords.debug > 0
        fixing == keywords.words \cap {"fix", "bug"} # {}
    IN <<keywords.architecture
             + (IF keywords.architecture > 0 /\ "refactor" \in keywords.words THEN 20 ELSE 0),
         keywords.bug + (IF both /\ fixing THEN 10 ELSE 0),
         keywords.debug + (IF both /\ ~fixing THEN 10 ELSE 0),
         keywords.understand,
         10>>

ClassifyTaskIntent(keywords) ==
    LET scores == IntentScores(keywords)
        top == CHOOSE i \in DOMAIN scores : \A j \in DOMAIN scores :
                   scores[i] > scores[j] \/ (scores[i] = scores[j] /\ i <= j)
    IN IF scores[top] <= 10 THEN "general_query" ELSE Intent[top]

When(condition, delta) == IF condition THEN delta ELSE 0

\* _adjustment.
Adjustment(marks, intent) ==
    LET has(mark) == mark \in marks IN
    CASE intent = "architecture_refactor" ->
            When(has("layer"), 40) + When(has("architecture_type"), 8) - When(has("noise"), 55)
      [] intent = "bug_fix" ->
            When(has("failure_type") \/ has("failure_text"), 35)
            - When(has("runtime") /\ ~has("failure_text"), 55)
            - When(has("noise") /\ ~has("bug_text"), 25)
      [] intent = "debugging" -> When(has("trace_text"), 30)
      [] intent = "code_understanding" -> When(has("world_text"), 35) - When(has("noise"), 25)
      [] intent = "general_query" -> 0 - When(has("runtime"), 55) - When(has("noise"), 55)

Suppressed(marks, intent) == Adjustment(marks, intent) < 0

Clamped(score) == IF score < 0 THEN 0 ELSE IF score > 100 THEN 100 ELSE score

\* The score of a result after rerank.
Adjust(score, marks, intent) == Clamped(score + Adjustment(marks, intent))
=============================================================================
