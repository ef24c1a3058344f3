--------------------------- MODULE SessionEvents ----------------------------
(* Extensions that answer the events of a session: autotitle names it once, *)
(* suggest proposes a next prompt, tokengate warns of a full context and    *)
(* usage keeps the sums.  The host may call handlers of several events at   *)
(* a time; a chat with the model lies between two looks at the state.       *)
EXTENDS Naturals, FiniteSets

CONSTANTS Handlers,    \* handler calls in progress
          Suggestions, \* texts the model may suggest
          Cooldown,    \* config.Cooldown
          MaxSeen,     \* maxSeenSuggestions
          Window, Percent, \* tokengate's ContextWindow and WarnPercent
          Fills,       \* prompt tokens of a turn
          MaxSessionTurns     \* bound: turns

ASSUME SessionAssumption ==
  /\ {Cooldown, MaxSeen, Window, Percent, MaxSessionTurns} \subseteq Nat
  /\ Fills \subseteq Nat

VARIABLES fired,    \* autotitle's handlerFired
          titles,   \* titles given
          cooldown, suggested, \* the Suggester's
          quiet,    \* turns kept quiet since the last suggestion, at most Cooldown
          handling,     \* Handler -> what its call is about
          gauge,    \* tokengate's BudgetState
          tally,    \* the fills of the turns recorded
          warnings  \* turns at which tokengate warned

evars == <<fired, titles, cooldown, suggested, quiet, handling, gauge, tally, warnings>>
NoTurn == [at |-> "idle"]

SessionInit ==
  /\ fired = FALSE /\ titles = 0
  /\ cooldown = 0 /\ suggested = {} /\ quiet = Cooldown
  /\ handling = [h \in Handlers |-> NoTurn]
  /\ gauge = [warned |-> FALSE, current |-> 0, total |-> 0, turns |-> 0]
  /\ tally = <<>> /\ warnings = {}

titlevars == <<fired, titles>>
suggestvars == <<cooldown, suggested, quiet>>
gatevars == <<gauge, tally, warnings>>

(***************************************************************************)
(* autotitle: EventAgentEnd.                                               *)
(***************************************************************************)
\* Faulty: the flag is tested and set in two steps.
MayTitleTested == TRUE
MayTitle == ~fired
\* Events without an exchange release the flag at once.
AgentEnd(h) ==
  /\ handling[h] = NoTurn /\ MayTitle
  /\ fired' = TRUE
  /\ handling' = [handling EXCEPT ![h] = [at |-> "titling"]]
  /\ UNCHANGED <<titles, suggestvars, gatevars>>
Released == FALSE
Titled(h) ==
  /\ handling[h].at = "titling"
  /\ \/ titles' = titles + 1 /\ UNCHANGED fired
     \/ fired' = Released /\ UNCHANGED titles
  /\ handling' = [handling EXCEPT ![h] = NoTurn]
  /\ UNCHANGED <<suggestvars, gatevars>>

(***************************************************************************)
(* suggest: EventTurnEnd.                                                  *)
(***************************************************************************)
AddQuiet == IF quiet < Cooldown THEN quiet + 1 ELSE quiet
\* A handler that passed the cooldown, and has not returned.
Suggesting(r) == r.at \in {"suggesting", "showing"}
\* A turn without tool results passes here too and then ends.
ShouldSuggest(h) ==
  /\ handling[h] = NoTurn
  /\ cooldown' = IF cooldown > 0 THEN cooldown - 1 ELSE 0
  /\ handling' = IF cooldown > 0 THEN handling ELSE [handling EXCEPT ![h] = [at |-> "suggesting", overtaken |-> FALSE]]
  /\ quiet' = IF cooldown > 0 THEN AddQuiet ELSE quiet
  /\ UNCHANGED <<suggested, titlevars, gatevars>>
\* Generate failed, or its text was blocked or seen before.
NothingToShow(h) ==
  /\ handling[h].at = "suggesting"
  /\ handling' = [handling EXCEPT ![h] = NoTurn]
  /\ UNCHANGED <<titlevars, suggestvars, gatevars>>
Generated(h, t) ==
  /\ handling[h].at = "suggesting" /\ t \notin suggested
  /\ suggested' = (IF Cardinality(suggested) > MaxSeen THEN {} ELSE suggested) \cup {t}
  /\ handling' = [handling EXCEPT ![h] = [at |-> "showing", overtaken |-> handling[h].overtaken]]
  /\ UNCHANGED <<cooldown, quiet, titlevars, gatevars>>
ResetCooldown == Cooldown
\* Handlers that passed the cooldown before it is reset go on.
Overtaken(r) == IF Suggesting(r) THEN [r EXCEPT !.overtaken = TRUE] ELSE r
Show(h) ==
  /\ handling[h].at = "showing"
  /\ cooldown' = ResetCooldown /\ quiet' = 0
  /\ handling' = [g \in Handlers |-> IF g = h THEN NoTurn ELSE Overtaken(handling[g])]
  /\ UNCHANGED <<suggested, titlevars, gatevars>>

(***************************************************************************)
(* tokengate and usage: EventTurnUsage.                                    *)
(***************************************************************************)
Threshold == (Window * Percent) \div 100
Crossed(fill) == ~gauge.warned /\ Window > 0 /\ Percent > 0 /\ fill >= Threshold
RecordUsage(fill) ==
  /\ gauge.turns < MaxSessionTurns
  /\ gauge' = [warned |-> gauge.warned \/ Crossed(fill), current |-> fill,
               total |-> gauge.total + fill, turns |-> gauge.turns + 1]
  /\ tally' = [t \in 1 .. gauge.turns + 1 |-> IF t > gauge.turns THEN fill ELSE tally[t]]
  /\ warnings' = IF Crossed(fill) THEN warnings \cup {gauge.turns + 1} ELSE warnings
  /\ UNCHANGED <<handling, titlevars, suggestvars>>

SessionNext ==
  \/ \E h \in Handlers : AgentEnd(h) \/ Titled(h) \/ ShouldSuggest(h) \/ NothingToShow(h) \/ Show(h)
                         \/ \E t \in Suggestions : Generated(h, t)
  \/ \E fill \in Fills : RecordUsage(fill)
SessionSpec == SessionInit /\ [][SessionNext]_evars
-----------------------------------------------------------------------------
(* Kinds of the variables.                                                  *)
SessionTypeOK ==
  /\ fired \in BOOLEAN /\ cooldown \in 0 .. Cooldown
  /\ suggested \subseteq Suggestions /\ Cardinality(suggested) <= MaxSeen + 1
  /\ DOMAIN tally = 1 .. gauge.turns

(* A session gets one title however many turns end at once, and a chat that *)
(* failed leaves the flag free for the next turn (autotitle/register.go:41).*)
TitledOnce ==
  /\ titles <= 1
  /\ fired <=> (titles = 1 \/ \E h \in Handlers : handling[h].at = "titling")
  /\ Cardinality({h \in Handlers : handling[h].at = "titling"}) <= 1

(* Between a suggestion and the next there is a whole cooldown of quiet     *)
(* turns, unless the handler that shows the next had passed the cooldown    *)
(* before the first was shown: of two such handlers that overlap, both      *)
(* show what they find (suggest/suggest.go:86, suggest/register.go:36, 60). *)
SuggestionsAreSpaced ==
  /\ cooldown + quiet = Cooldown
  /\ \A h \in Handlers : Suggesting(handling[h]) /\ ~handling[h].overtaken => quiet = Cooldown

(* One warning is given, no later than the first turn that fills the        *)
(* percentage of the window, and at a turn that is less than one token      *)
(* short of it (tokengate/budget.go:63).                                    *)
WarnedAtTheCrossing ==
  LET full(t) == Window > 0 /\ Percent > 0 /\ 100 * tally[t] >= Window * Percent IN
  /\ Cardinality(warnings) <= 1
  /\ \A u \in DOMAIN tally : full(u) => \E t \in warnings : t <= u
  /\ \A t \in warnings : 100 * tally[t] > Window * Percent - 100

(* One title is given, suggestions keep their distance unless they were     *)
(* under way together, and the budget of the context is warned about once,  *)
(* however handlers of ending turns overlap (autotitle/register.go:41,      *)
(* suggest/suggest.go:86, tokengate/budget.go:63).                          *)
TurnsAreCounted == TitledOnce /\ SuggestionsAreSpaced /\ WarnedAtTheCrossing
=============================================================================
