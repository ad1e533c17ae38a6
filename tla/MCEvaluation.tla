---------------------------- MODULE MCEvaluation ----------------------------
(* Two configurations, with and without generation; two small datasets; an  *)
(* injection suite of two attacks and one control.                          *)
EXTENDS Evaluation

Of(category, flags) ==
  [category |-> category, refusal |-> "refusal" \in flags, generation |-> "generation" \in flags,
   tool |-> "tool" \in flags, relevant |-> "relevant" \in flags, expects |-> "expects" \in flags,
   forbids |-> "forbids" \in flags, retired |-> "retired" \in flags]

K == Of("knowledge", {"relevant", "expects"})
P == Of("permission", {"refusal", "forbids"})
V == Of("versioning", {"relevant", "expects", "forbids", "retired"})
D == Of("data", {"generation", "expects", "tool"})

Job(configs, save, gate, provider, allow, dataset) ==
  [configs |-> configs, save |-> save, gate |-> gate, provider |-> provider,
   allow_stub |-> allow, dataset |-> dataset]

MCInvocations ==
  { Job(<<"v3">>, No, TRUE, "stub", TRUE, <<K, P>>),
    Job(<<"v5-full">>, No, TRUE, "real", FALSE, <<K, P>>),
    Job(<<"v5-full">>, No, TRUE, "stub", FALSE, <<K, P>>),
    Job(<<"v3">>, "v3", TRUE, "real", FALSE, <<K, P>>),
    Job(<<"v3">>, "v5-full", TRUE, "real", FALSE, <<D, V>>),
    Job(<<"v3", "v5-full">>, "v5-full", FALSE, "real", FALSE, <<V>>),
    Job(<<"v5-full", "v3">>, No, TRUE, "stub", TRUE, <<V>>),
    Job(<<"v5-full">>, No, TRUE, "real", FALSE, <<D, V>>),
    Job(<<"v3">>, "v3", FALSE, "stub", TRUE, <<K, K>>),
    Job(<<"v3">>, No, TRUE, "stub", TRUE, <<K, K>>),
    Job(<<"v3", "v3">>, No, TRUE, "stub", TRUE, <<V>>),
    Job(<<InjectionSuite>>, No, TRUE, "stub", FALSE, <<>>),
    Job(<<InjectionSuite>>, No, TRUE, "real", FALSE, <<>>),
    Job(<<InjectionSuite>>, No, FALSE, "real", FALSE, <<>>) }

\* Of the document asked for, of a retired one, and of another, with a value
\* that must not be shown or not.
Chunk(relevant, right, retired, value) ==
  [relevant |-> relevant, right |-> right, retired |-> retired, value |-> value]
Chunks == { Chunk(TRUE, TRUE, FALSE, FALSE), Chunk(FALSE, FALSE, TRUE, FALSE),
            Chunk(FALSE, FALSE, FALSE, TRUE) }

MCRetrieved ==
  [ranked : {<<>>} \cup {<<a>> : a \in Chunks} \cup {<<a, b>> : a, b \in Chunks}, below : BOOLEAN]

MCAnswers ==
  [refused : BOOLEAN, right : BOOLEAN, value : BOOLEAN, cited : BOOLEAN, tool : BOOLEAN]

MCAttacks == <<{"canary"}, {"canary", "tool"}>>
MCControls == <<[must_answer |-> TRUE, must_contain |-> TRUE]>>
=============================================================================
