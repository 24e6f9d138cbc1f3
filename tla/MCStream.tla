------------------------------ MODULE MCStream ------------------------------
(* Instances of Stream for TLC.                                            *)
EXTENDS Stream

\* An OpenAI stream with usage and all that is passed on, and a Claude stream
\* with nothing of it.
MCOptions == {[openai |-> TRUE, includeReasoning |-> TRUE,
               includeRuntimeEvents |-> TRUE, includeUsageInStream |-> TRUE],
              [openai |-> FALSE, includeReasoning |-> FALSE,
               includeRuntimeEvents |-> FALSE, includeUsageInStream |-> FALSE]}
=============================================================================
