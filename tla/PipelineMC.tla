---- MODULE PipelineMC ----
(* A pipeline with a step of every kind: b may fail and has a predicate and a retry, c has
   a false predicate that its group ignores, d iterates, e prints JSON, and g, a finally
   step, has a range that cannot be parsed. *)
EXTENDS Pipeline

MCMain == <<"a", "b", "n">>
MCGroups == <<<<"c", "d", "e">>, <<"h">>>>
MCFinals == <<"g", "f">>
MCAllow == {"b", "d"}
MCWhen == [s \in Steps |-> IF s = "b" THEN "yes" ELSE IF s \in {"c", "n"} THEN "no" ELSE "none"]
MCRetries == [s \in Steps |-> IF s = "b" THEN 1 ELSE 0]
MCIterated == {"d", "g", "h"}
MCIters == [s \in Steps |-> IF s = "d" THEN 3 ELSE 0]
MCMalformed == {"g"}
MCJson == {"e"}
====
