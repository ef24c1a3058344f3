------------------------------- MODULE Route --------------------------------
(* The router of route/: a prompt is matched against the components the     *)
(* host has loaded, by intent, domain and words; feedback teaches a         *)
(* component words that speak for it and against it.  A prompt is its       *)
(* tokens, which tokenize leaves distinct.  Scores are exact: tenths of *)
(* the weights times Unit, a multiple of every count that occurs.           *)
EXTENDS Naturals, Sequences, FiniteSets, SequencesExt

CONSTANTS Singular, \* plural -> what NormalizePlural makes of it
          MaxWords, MaxAnti \* caps of what feedback teaches: 20 and 10 in the code

Unit == 60
Weights == [intent |-> 4, domain |-> 3, trigger |-> 3, anti |-> 5]
Ratio == 7
PrimaryThreshold == 25

(***************************************************************************)
(* Words.                                                                  *)
(***************************************************************************)
NormalizePlural(w) == IF w \in DOMAIN Singular THEN Singular[w] ELSE w
TokensContain(tokens, w) == \E i \in DOMAIN tokens : NormalizePlural(tokens[i]) = NormalizePlural(w)
TokensContainAll(tokens, words) == words # {} /\ \A w \in words : TokensContain(tokens, w)
Dedup(s) == FoldLeft(LAMBDA acc, w : IF w \in ToSet(acc) THEN acc ELSE Append(acc, w), <<>>, s)

(***************************************************************************)
(* Intents: a map, whose entries Go visits in any order; the result is the *)
(* set of the answers an order gives.                                      *)
(***************************************************************************)
Speaks(def, t) == \E v \in def.verbs : t = v \/ NormalizePlural(t) = v
FirstVerb(defs, tokens, not) ==
  SelectInSeq(tokens, LAMBDA t : \E n \in DOMAIN defs \ not : Speaks(defs[n], t))
Speakers(defs, tokens, not) ==
  LET i == FirstVerb(defs, tokens, not)
  IN  IF i = 0 THEN {""} ELSE {n \in DOMAIN defs \ not : Speaks(defs[n], tokens[i])}
\* Rule 4 of the code cannot be reached: a keyword that overlaps has matched in rule 3.
Classify(defs, prompt) ==
  LET tokens  == prompt.tokens
      asked   == Speakers(defs, tokens, {})
      leading == {n \in DOMAIN defs : Speaks(defs[n], tokens[1])}
      keyed   == {n \in DOMAIN defs : defs[n].keywords \cap ToSet(tokens) # {}}
      with(ps) == UNION {{[primary |-> p, secondary |-> s] : s \in Speakers(defs, tokens, {p})} : p \in ps}
  IN  IF tokens = <<>> THEN {[primary |-> "", secondary |-> ""]}
      ELSE IF prompt.question /\ asked # {""} THEN with(asked)
      ELSE IF leading # {} THEN with(leading)
      ELSE IF keyed # {} THEN with(keyed)
      ELSE {[primary |-> "", secondary |-> ""]}

(***************************************************************************)
(* Scores.                                                                 *)
(***************************************************************************)
Share(n, of) == (n * Unit) \div of
ScoreIntent(intent, comp) ==
  IF intent.primary = "" THEN 0
  ELSE IF comp.intents # <<>> THEN
    LET i == SelectInSeq(comp.intents, LAMBDA c : c = intent.primary \/ (intent.secondary # "" /\ c = intent.secondary))
    IN  IF i = 0 THEN 0 ELSE IF comp.intents[i] = intent.primary THEN Unit ELSE (7 * Unit) \div 10
  ELSE IF intent.primary = comp.name THEN (6 * Unit) \div 10 ELSE 0
ScoreDomain(domains, comp) ==
  IF domains = {} THEN 0
  ELSE LET own == IF comp.domains # {} THEN comp.domains ELSE {comp.name} \cup ToSet(comp.keywords)
       IN  Share(Cardinality(domains \cap own), Cardinality(domains))
Matches(tokens, s) == Len(SelectSeq(s, LAMBDA w : TokensContain(tokens, w)))
AtLeast1(n) == IF n = 0 THEN 1 ELSE n
ScoreTriggers(tokens, comp) ==
  LET whole == Len(SelectSeq(comp.triggers, LAMBDA ws : TokensContainAll(tokens, ws)))
  IN  Ratio * Share(whole, AtLeast1(Len(comp.triggers)))
        + (10 - Ratio) * Share(Matches(tokens, comp.keywords), AtLeast1(Len(comp.keywords)))
ScoreAnti(tokens, comp) == IF comp.anti = <<>> THEN 0 ELSE Share(Matches(tokens, comp.anti), Len(comp.anti))
ScoreComponent(tokens, intent, domains, comp) ==
  (10 * ScoreIntent(intent, comp) * Weights.intent + 10 * ScoreDomain(domains, comp) * Weights.domain
     + ScoreTriggers(tokens, comp) * Weights.trigger)
    * (10 * Unit - ScoreAnti(tokens, comp) * Weights.anti)
FullScore == 100 * Unit * 10 * Unit

\* Score: the tiers; components that score alike stand in an order of the sort's own.
Tiers(tokens, intent, domains, comps, maxPrimary, maxSecondary) ==
  LET score(c) == ScoreComponent(tokens, intent, domains, c)
      scored   == SortSeq(SelectSeq(comps, LAMBDA c : score(c) > 0), LAMBDA c, d : score(c) > score(d))
      high(c)  == 100 * score(c) >= PrimaryThreshold * FullScore
      first(s, n) == SubSeq(s, 1, IF Len(s) < n THEN Len(s) ELSE n)
  IN  [primary   |-> first(SelectSeq(scored, high), maxPrimary),
       secondary |-> first(SelectSeq(scored, LAMBDA c : ~high(c)), maxSecondary)]

(***************************************************************************)
(* Feedback.                                                               *)
(***************************************************************************)
MergeTokens(old, new, cap) ==
  FoldLeft(LAMBDA acc, w : IF Len(acc) >= cap \/ w \in ToSet(acc) THEN acc ELSE Append(acc, w), old, new)
\* Learn reads the whole log, oldest first.
Learn(log) ==
  FoldLeft(LAMBDA lt, e :
             IF e.correct THEN [lt EXCEPT !.words = MergeTokens(@, e.tokens, MaxWords)]
             ELSE [lt EXCEPT !.anti = MergeTokens(@, e.tokens, MaxAnti)],
           [words |-> <<>>, anti |-> <<>>], log)
MergeField(own, learned) == IF learned = <<>> THEN own ELSE Dedup(own \o learned)
MergeLearned(comp, lt) ==
  [comp EXCEPT !.keywords = MergeField(@, lt.words), !.anti = MergeField(@, lt.anti)]
-----------------------------------------------------------------------------
(* Unless two intents share a verb, only the keywords of rule 3 leave the   *)
(* answer to the order in which Go visits the map; a second intent is never *)
(* the first one (route/intent.go:49).                                      *)
IntentIsSettled(defs, prompt) ==
  LET answers == Classify(defs, prompt) IN
  /\ \A a \in answers : a.primary = "" \/ a.primary # a.secondary
  /\ (\A m, n \in DOMAIN defs : m = n \/ defs[m].verbs \cap defs[n].verbs = {}) =>
       \/ Cardinality(answers) = 1
       \/ \A a \in answers : defs[a.primary].keywords \cap ToSet(prompt.tokens) # {}

(* Whatever a component is taught, its score stays within 0 and 1; once the *)
(* feedback of one more answer to a prompt is learned, the component scores *)
(* no lower on that prompt if the answer was right and no higher if it was  *)
(* wrong; learning the same log again changes nothing (route/merge.go:6).   *)
FeedbackHelps(log, prompt, correct, comp, intent) ==
  LET entry  == [tokens |-> prompt.tokens, correct |-> correct]
      before == MergeLearned(comp, Learn(log))
      after  == MergeLearned(before, Learn(Append(log, entry)))
      s(c)   == ScoreComponent(prompt.tokens, intent, {}, c)
  IN  /\ s(before) <= FullScore /\ s(after) <= FullScore
      /\ IF correct THEN s(after) >= s(before) ELSE s(after) <= s(before)
      /\ MergeLearned(after, Learn(Append(log, entry))) = after

(* Both tiers are ranked, the first before the second, and keep to their    *)
(* sizes; a component that has a hit is left out only where a tier is full  *)
(* (route/scorer.go:64).                                                    *)
TiersAreRanked(tokens, intent, domains, comps, maxPrimary, maxSecondary) ==
  LET t == Tiers(tokens, intent, domains, comps, maxPrimary, maxSecondary)
      s(c) == ScoreComponent(tokens, intent, domains, c)
      all  == t.primary \o t.secondary
  IN  /\ \A i, j \in DOMAIN all : i < j => s(all[i]) >= s(all[j])
      /\ Len(t.primary) <= maxPrimary /\ Len(t.secondary) <= maxSecondary
      /\ \A c \in ToSet(comps) \ ToSet(all) : s(c) = 0
            \/ Len(t.primary) = maxPrimary \/ Len(t.secondary) = maxSecondary
=============================================================================
