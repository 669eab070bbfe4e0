---------------------------- MODULE LanguageOrgan ----------------------------
(***************************************************************************)
(* What the language organ may answer (language/codex_harness.py,          *)
(* language/contracts.py, language/sanitizer.py).                          *)
(*                                                                         *)
(* The organ is a language model run as a subprocess: it may write         *)
(* anything.  What the rest of the program sees is what the contracts let  *)
(* through, so each kind of answer is the set of raw answers filtered by   *)
(* its validator and cut down to the parts somebody reads.  Whatever a     *)
(* validator refuses, and an organ that is missing, fails or runs into its *)
(* time limit, reaches the caller as an error and is not an answer.        *)
(*                                                                         *)
(* A text is empty, plain, or holds internal language; an object has       *)
(* exactly its fields, lacks one or has one too many.                      *)
(***************************************************************************)
EXTENDS SafetyGate, FiniteSets

CONSTANTS
    Key,           \* some of ALLOWED_PREFERENCE_KEYS
    Executor,      \* [Action -> executor name]
    AllDefaults,   \* actions each of whose parameters has a default
    Asked,         \* names of the tasks the organ can write
    SpecOf,        \* [Asked -> TaskSpec]
    Word,          \* words of a message
    Weight         \* [Word -> [Action -> twice the best weight of a term
                   \*  of the action that the word matches]]

ASSUME OrganAssumption ==
    /\ AllDefaults \subseteq Action
    /\ DOMAIN Executor = Action
    /\ SpecOf \in [Asked -> TaskSpec]
    /\ Weight \in [Word -> [Action -> Nat]]

Text   == {"empty", "plain", "internal"}
Fields == {"exact", "missing", "unknown"}
Share  == {"in", "out"}             \* a confidence, within 0..1 or not
Shape  == {"right", "other"}        \* a member of the type asked for, or not

\* clean_human_reply; the validators ask for a reply first.
Clean(t) == t = "plain"
CleanIfAny(t) == t # "internal"

-----------------------------------------------------------------------------
(* to_core                                                                 *)

RawIntent == [fields : Fields, intent : {"chat", "task", "other"}, reply : Text,
              confidence : Share, task : Asked \cup {"null", "no object"},
              dev_task : Shape, approval : Shape, notes : Shape,
              question : BOOLEAN]

\* A field that is missing has a default; one that is unknown is refused.
ValidateLanguageIntent(r) ==
    /\ r.fields # "unknown"
    /\ r.intent # "other"
    /\ r.reply # "empty"
    /\ r.confidence = "in"
    /\ r.task # "no object"
    /\ r.task # "null" => AcceptsTaskSpec(SpecOf[r.task])
    /\ r.dev_task = "right" /\ r.approval = "right" /\ r.notes = "right"

\* What is read of a language intent: the task, and whether it asks back.
LanguageIntents ==
    {[task |-> r.task, question |-> r.question] :
        r \in {x \in RawIntent : ValidateLanguageIntent(x) /\ Clean(x.reply)}}

DirectExecutors == {"readonly_system", "readonly_command"}

CanDirectRoute(a) ==
    /\ Catalog[a].risk \in {"none", "low"}
    /\ ~Catalog[a].side_effect /\ ~Catalog[a].requires_approval
    /\ Executor[a] \in DirectExecutors

SumOver(W, a) ==
    LET f[S \in SUBSET W] ==
            IF S = {} THEN 0
            ELSE LET w == CHOOSE x \in S : TRUE IN Weight[w][a] + f[S \ {w}]
    IN  f[W]

\* The one action that scores at least 3 and leads the next by 1 (doubled).
CatalogMatches(words) ==
    LET scored == {a \in Action : CanDirectRoute(a) /\ SumOver(words, a) >= 6}
    IN  {a \in scored \cap AllDefaults :
            \A b \in scored \ {a} : SumOver(words, a) - SumOver(words, b) >= 2}

ReadonlyTask(a) ==
    [allowed |-> <<a>>, blocked |-> {}, target |-> "orangepi5", risk |-> "low",
     requires_approval |-> FALSE, mode |-> "readonly"]

\* A message that names an action of the catalog never reaches the organ.
ToCore(words) ==
    IF CatalogMatches(words) = {} THEN LanguageIntents
    ELSE {[task |-> t, question |-> FALSE] :
            t \in {x \in Asked : \E a \in CatalogMatches(words) :
                                     SpecOf[x] = ReadonlyTask(a)}}

-----------------------------------------------------------------------------
(* extract_preferences                                                     *)

RawCandidate == [fields : Fields, key : Key \cup {"other"},
                 scope : {"global", "channel", "other"},
                 source : {"explicit_user_request", "other"},
                 confidence : Share, evidence : Text]

ValidatePreferenceCandidate(c) ==
    /\ c.fields = "exact"
    /\ c.key \in Key
    /\ c.scope # "other"
    /\ c.source = "explicit_user_request"
    /\ c.confidence = "in"
    /\ c.evidence # "empty"

\* The rows a candidate can ask for; user_preferences has one per key and scope.
Candidates ==
    {<<c.key, c.scope>> : c \in {x \in RawCandidate : ValidatePreferenceCandidate(x)}}

RawPreference == [fields : Fields, reply : Text, confidence : Share, notes : Shape,
                  kind : {"none", "preference_update", "question", "reject", "other"},
                  candidates : {<<>>} \cup {<<c>> : c \in Candidates}
                               \cup {<<c, d>> : c \in Candidates, d \in Candidates}]

ValidatePreferenceIntent(p) ==
    /\ p.fields = "exact"
    /\ p.kind # "other"
    /\ p.kind # "none" => p.reply # "empty"
    /\ p.confidence = "in" /\ p.notes = "right"

PreferenceIntents ==
    {[kind |-> p.kind, candidates |-> p.candidates] :
        p \in {x \in RawPreference : ValidatePreferenceIntent(x) /\ CleanIfAny(x.reply)}}

-----------------------------------------------------------------------------
(* route_work and propose_capability                                       *)

RawItem == [fields : Fields, type : {"runtime_task", "self_patch", "external_work", "other"},
            priority : Shape, risk : Shape, lists : Shape, title : Text, goal : Text]

ValidateWorkItem(w) ==
    /\ w.fields = "exact"
    /\ w.type # "other"
    /\ w.priority = "right" /\ w.risk = "right" /\ w.lists = "right"
    /\ w.title # "empty" /\ w.goal # "empty"

ItemTypes == {w.type : w \in {x \in RawItem : ValidateWorkItem(x)}}

Route == {"runtime_task", "work_status", "self_patch", "external_work", "unsafe", "clarify"}

RawRoute == [fields : Fields, route : Route \cup {"other"}, reason : Text,
             confidence : Share, notes : Shape, question : Text,
             item : ItemTypes \cup {"null", "no object"}]

ValidateWorkRouteDecision(r) ==
    /\ r.fields = "exact"
    /\ r.route # "other"
    /\ r.confidence = "in" /\ r.notes = "right" /\ r.reason # "empty"
    /\ IF r.route \in {"self_patch", "external_work"}
       THEN r.item = r.route
       ELSE r.item # "no object"

WorkRouteDecisions ==
    {[route |-> r.route, question |-> r.question = "plain"] :
        r \in {x \in RawRoute : ValidateWorkRouteDecision(x) /\ CleanIfAny(x.question)}}

RawGap == [fields : Fields, type : Shape, matches : Shape, confidence : Share,
           requested : Text, normalized : Text]

ValidateGap(g) ==
    /\ g.fields = "exact"
    /\ g.type = "right" /\ g.matches = "right" /\ g.confidence = "in"
    /\ g.requested # "empty" /\ g.normalized # "empty"

\* A valid action id is an action of the catalog or the name of a new one.
RawProposal == [fields : Fields, action_id : Action \cup {"new_action", "Bad Id"},
                target : Shape, risk : Shape, schemas : Shape, test_plan : Shape,
                notes : Shape, confidence : Share]

ValidateProposal(p) ==
    /\ p.fields = "exact"
    /\ p.action_id # "Bad Id"
    /\ p.target = "right" /\ p.risk = "right" /\ p.schemas = "right"
    /\ p.test_plan = "right" /\ p.notes = "right" /\ p.confidence = "in"

SomeGap == \E g \in RawGap : ValidateGap(g)
ProposedIds == {p.action_id : p \in {x \in RawProposal : ValidateProposal(x)}}

\* validate_capability_intent: a gap brings a gap and a proposal, an ambiguous
\* or forbidden request a gap alone, and none of the two is kept otherwise.
CapabilityIntents ==
    {[kind |-> "none", action_id |-> "null"]}
    \cup IF ~SomeGap THEN {}
         ELSE [kind : {"ambiguous", "forbidden"}, action_id : {"null"}]
              \cup [kind : {"gap"}, action_id : ProposedIds]
=============================================================================
