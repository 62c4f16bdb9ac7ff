----------------------------- MODULE ModelJudge -----------------------------
(* The link of pi-permission-model-judge: its configuration, which asks it    *)
(* takes up, and what it makes of the model's reply.  Values are tagged as in *)
(* PermissionConfig; a typo pattern is the set of paths it matches, or "bad"  *)
(* when it does not compile.                                                  *)
EXTENDS Integers, Sequences, PermissionConfig

NoJudge == [loaded |-> FALSE, model |-> "none", patterns |-> <<>>]

\* A layer that is missing or no JSON object counts as absent.
ReadLayer(file) ==
  IF file = Missing \/ file = Broken THEN Missing
  ELSE IF Is("object", file[1]) THEN <<file[1][2]>> ELSE Missing

ValidJudge(fields) ==
  /\ {"provider", "model", "instructions"} \subseteq DOMAIN fields
  /\ \A k \in {"provider", "model", "instructions"} : Nonempty(fields[k])
  /\ "typoPatterns" \in DOMAIN fields =>
       Is("array", fields["typoPatterns"])
  /\ "timeoutMs" \in DOMAIN fields =>
       Is("number", fields["timeoutMs"]) /\ fields["timeoutMs"][2] >= 1

\* The project's fields over the global ones, the project's only when trusted.
LoadModelJudgeConfig(global, project, trusted) ==
  LET layers == ReadLayer(global) \o (IF trusted THEN ReadLayer(project) ELSE <<>>)
      fields == IF Len(layers) = 2 THEN Spread(layers[1], layers[2]) ELSE layers[1]
  IN  IF layers = <<>> THEN NoJudge
      ELSE IF ~ValidJudge(fields) THEN NoJudge
      ELSE [loaded |-> TRUE, model |-> fields["model"][2],
            patterns |-> IF "typoPatterns" \in DOMAIN fields THEN fields["typoPatterns"][2] ELSE <<>>]

CompiledTypoPatterns(config) ==
  LET Compiles(p) == p # {"bad"} IN SelectSeq(config.patterns, Compiles)
MatchesTypoPattern(config, path) ==
  \E i \in DOMAIN CompiledTypoPatterns(config) : path \in CompiledTypoPatterns(config)[i]
\* The first spelling that some pattern matches.
MatchedCandidates(config, candidates) ==
  LET Matched(p) == MatchesTypoPattern(config, p) IN SelectSeq(candidates, Matched)

ReviewedSurface == <<"external_directory">>

\* Whether an ask gets as far as a model.
TakesUp(config, ask) ==
  /\ config.loaded
  /\ ask.surface = ReviewedSurface
  /\ MatchedCandidates(config, ask.values) # <<>>

Defer == "defer"
\* A reply calls the verdict tool, or does not; only "deny" denies.
ReadToolCallOutcome(reply) ==
  CASE reply.kind = "prose" -> Defer
    [] reply.verdict # "deny" -> Defer
    [] OTHER -> "deny"
\* The call failed, or was aborted by the timer: the same to the chain.
ReviewOutcome(reply) ==
  IF reply.kind = "rejected" THEN Defer ELSE ReadToolCallOutcome(reply)
Replies == {[kind |-> "prose", verdict |-> "none"], [kind |-> "rejected", verdict |-> "none"]}
             \cup {[kind |-> "call", verdict |-> v] : v \in {"deny", "defer", "allow"}}
=============================================================================
