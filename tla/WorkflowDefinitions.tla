------------------------ MODULE WorkflowDefinitions -------------------------
(***************************************************************************)
(* From the text of a workflow to its first executed node                  *)
(* (workflows/parser.ts, workflow-schema.ts, run-preparation.ts,           *)
(* preflight.ts, expression.ts): what the parser accepts, what preparation *)
(* and preflight see before any node has run, and what a template is bound *)
(* to when its node executes.  One node, the subject, has one template     *)
(* with one reference, and may launch an agent.                            *)
(***************************************************************************)
EXTENDS NodeOrder

CONSTANTS
  DefinitionNodes,  \* ids of the nodes, numbers; 0 is an id that no node has
  Subject           \* the node whose template is followed

ASSUME DefinitionAssumption ==
  DefinitionNodes \subseteq Nat \ {0} /\ IsFiniteSet(DefinitionNodes)
  /\ Subject \in DefinitionNodes

VARIABLES
  text,       \* the definition as written
  stage,      \* "text", "rejected", "parsed", "refused", "prepared", "running", "ended"
  state,      \* per node, its status
  prepared,   \* what the subject's template was in the run preparation: "no", or rendered
  bound,      \* what it was when the subject executed
  agentFound  \* "no", or whether the agent the subject launched is there

definitionVars == <<text, stage, state, prepared, bound, agentFound>>

\* The fields nodeTemplates collects, per type of node.
Templates ==
  [agent |-> {"prompt", "session.title", "handoff"},
   prompt |-> {"prompt", "cwd", "requiredFiles", "agents.prompt"},
   shell |-> {"command", "argv", "cwd"},
   checkout |-> {"repository", "remote", "ref", "branch", "path", "credentialRef"},
   git_publish |-> {"repository", "cwd", "branch", "message", "credentialRef", "paths", "rules"},
   approval |-> {"prompt", "onReject"},
   gate |-> {"expression", "prompt", "waitUntil"},
   context |-> {"query", "refs"},
   context_update |-> {"targetRef", "title", "summary", "patch.text", "patch.digest",
                       "idempotencyKey"},
   condition |-> {"expression", "then", "else"},
   artifact |-> {"name", "from", "path", "description"},
   action |-> {"adapter", "action", "proposalKey", "idempotencyKey", "with"},
   loop |-> {"foreach", "while", "until", "body"},
   subflow |-> {"inputs"},
   plan |-> {}]

\* Fields of every node, and of some types, that are rendered all the same.
Uncollected ==
  [t \in DOMAIN Templates |->
     {"when", "env", "artifacts.path", "context.include", "context.write_targets"}]
OwnUncollected ==
  [agent |-> {"cwd"}, action |-> {"with.nested"}, subflow |-> {"inline.nodes"},
   context_update |-> {"patch.files", "patch.operation"},
   plan |-> {"title", "body", "summary", "sourceRef", "revision.prompt"}]
Fields(t) ==
  Templates[t] \cup Uncollected[t] \cup (IF t \in DOMAIN OwnUncollected THEN OwnUncollected[t] ELSE {})

\* Where the schema lets an agent be named.
AgentPlaces ==
  {"none", "requires", "node", "agents", "loop.body", "onReject", "plan.revision", "default"}

Chain == [n \in DefinitionNodes |-> {m \in DefinitionNodes : m < n}]
Plain == [needs |-> Chain, shape |-> "ok", rule |-> "all_success", type |-> "prompt",
          field |-> "prompt", form |-> "raw", ref |-> 1, declared |-> TRUE,
          input |-> "given", agentAt |-> "none", agentThere |-> TRUE]

\* Every graph with one field, every field with one graph, and so on.
Texts ==
  {[Plain EXCEPT !.needs = g, !.ref = r, !.rule = u] :
      g \in [DefinitionNodes -> SUBSET DefinitionNodes \cup {{0}}],
      r \in DefinitionNodes \cup {0}, u \in {"all_success", "all_done"}}
  \cup {[Plain EXCEPT !.type = t, !.field = f, !.form = w, !.declared = d, !.ref = r] :
          t \in DOMAIN Templates, f \in UNION {Fields(s) : s \in DOMAIN Templates},
          w \in {"raw", "output", "artifact", "expression"}, d \in BOOLEAN, r \in {0, 1, Subject}}
  \cup {[Plain EXCEPT !.form = "input", !.input = i] : i \in {"given", "default", "optional", "missing"}}
  \cup {[Plain EXCEPT !.type = "shell", !.field = "command", !.shape = s] :
          s \in {"ok", "schema", "both", "neither"}}
  \cup {[Plain EXCEPT !.agentAt = p, !.agentThere = b] : p \in AgentPlaces, b \in BOOLEAN}

DefinitionInit ==
  /\ text \in {d \in Texts : d.field \in Fields(d.type)} /\ stage = "text"
  /\ state = [n \in DefinitionNodes |-> "queued"]
  /\ prepared = "no" /\ bound = "no" /\ agentFound = "no"

-----------------------------------------------------------------------------
(* The parser.                                                             *)

\* Variant for mutation testing: only direct dependencies count.
DirectDependencies(d, n) == d.needs[n]

\* transitiveDependencies
Dependencies(d, n) ==
  LET visited[i \in Nat] ==
        IF i = 0 THEN d.needs[n]
        ELSE visited[i - 1] \cup UNION {d.needs[m] : m \in visited[i - 1] \ {0}}
  IN  visited[Cardinality(DefinitionNodes)]

\* nodeReferences sees paths, not longer expressions.
SeesReference(d) ==
  d.field \in Templates[d.type] /\ d.form \in {"raw", "output", "artifact"}

\* validateTemplateReferences
ReferencesValid(d) ==
  SeesReference(d) =>
    /\ d.ref \in DefinitionNodes /\ d.ref \in Dependencies(d, Subject)
    /\ (d.form \in {"output", "artifact"} => d.declared)

\* validateWorkflowGraph, after the schema.
GraphValid(d) ==
  /\ d.shape \notin {"both", "neither"}
  /\ \A n \in DefinitionNodes : d.needs[n] \subseteq DefinitionNodes
  /\ Orderable(DefinitionNodes, d.needs)
  /\ ReferencesValid(d)

ParseDefinition ==
  /\ stage = "text"
  /\ stage' = IF text.shape # "schema" /\ GraphValid(text) THEN "parsed" ELSE "rejected"
  /\ UNCHANGED <<text, state, prepared, bound, agentFound>>

-----------------------------------------------------------------------------
(* The run.                                                                *)

Done(s) == s \in {"completed", "failed", "skipped"}

\* normalizeInputs: what is given, or the default.
InputKnown(d) == d.input \in {"given", "default"}

\* evaluateExpression over the context of a run with these statuses.
Evaluates(d, s) ==
  IF d.form = "input" THEN InputKnown(d) ELSE d.ref \in DefinitionNodes /\ Done(s[d.ref])

\* renderTemplate: what is not there is the empty string.
Rendered(d, s) == IF Evaluates(d, s) THEN "value" ELSE "empty"

\* The fields buildRunPreparation renders before the run begins.
Prepares(d) ==
  d.field \in {"repository", "credentialRef", "context.include", "context.write_targets",
               "targetRef", "with"}

\* normalizeInputs and buildRunPreparation of startRun.
PrepareRun ==
  /\ stage = "parsed"
  /\ IF text.input = "missing" THEN stage' = "refused" /\ UNCHANGED prepared
     ELSE /\ stage' = "prepared"
          /\ prepared' = IF Prepares(text) THEN Rendered(text, state) ELSE "no"
  /\ UNCHANGED <<text, state, bound, agentFound>>

\* preflightWorkflow: the places it looks for agents and models in.
Preflights(d) ==
  d.agentAt \in {"requires", "node", "agents", "loop.body", "onReject"} => d.agentThere

PreflightRun ==
  /\ stage = "prepared"
  /\ stage' = IF Preflights(text) THEN "running" ELSE "refused"
  /\ UNCHANGED <<text, state, prepared, bound, agentFound>>

ReadyToRun(n) ==
  state[n] = "queued" /\ \A m \in text.needs[n] : Done(state[m])

\* The trigger rule skips the node, or its executor renders its templates.
ExecuteNode(n, outcome) ==
  LET skips == text.rule = "all_success" /\ \E m \in text.needs[n] : state[m] # "completed"
      runs == n = Subject /\ ~skips
  IN  /\ stage = "running" /\ ReadyToRun(n)
      /\ state' = [state EXCEPT ![n] = IF skips THEN "skipped" ELSE outcome]
      /\ bound' = IF runs THEN Rendered(text, state) ELSE bound
      /\ agentFound' = IF runs /\ text.agentAt \notin {"none", "requires"}
                       THEN (IF text.agentThere THEN "found" ELSE "missing") ELSE agentFound
      /\ UNCHANGED <<text, stage, prepared>>

\* The scheduler drains the queue, or a failure halts the run.
RunStops ==
  /\ stage = "running" /\ stage' = "ended"
  /\ (\A n \in DefinitionNodes : Done(state[n])) \/ \E n \in DefinitionNodes : state[n] = "failed"
  /\ UNCHANGED <<text, state, prepared, bound, agentFound>>

DefinitionNext ==
  \/ ParseDefinition \/ PrepareRun \/ PreflightRun \/ RunStops
  \/ \E n \in DefinitionNodes, outcome \in {"completed", "failed", "skipped"} : ExecuteNode(n, outcome)

DefinitionSpec == DefinitionInit /\ [][DefinitionNext]_definitionVars

-----------------------------------------------------------------------------
DefinitionTypeOK ==
  /\ stage \in {"text", "rejected", "parsed", "refused", "prepared", "running", "ended"}
  /\ {prepared, bound} \subseteq {"no", "value", "empty"}
  /\ agentFound \in {"no", "found", "missing"}

\* The orders of the nodes in which each comes after all it needs.
Orders(d) ==
  {s \in [1 .. Cardinality(DefinitionNodes) -> DefinitionNodes] :
     /\ \A n \in DefinitionNodes : \E i \in DOMAIN s : s[i] = n
     /\ \A i \in DOMAIN s : d.needs[s[i]] \subseteq {s[j] : j \in 1 .. (i - 1)}}
Precedes(s, m, n) == \E i \in DOMAIN s : s[i] = n /\ \E j \in 1 .. (i - 1) : s[j] = m

(* The parser accepts a definition exactly when its nodes can be ordered and
   every reference it sees is to a node that comes before in all orders.  A
   run of an accepted definition is never stuck; a reference is empty at
   execution only if the parser did not see it (a longer expression, or a
   field nodeTemplates leaves out) or an optional input was not given; the
   preparation showed what is executed unless a node had to run first; and
   an agent that is not there is launched only from the two places that
   preflight leaves out. *)
AcceptedRunsBind ==
  /\ stage # "text" =>
       (stage = "rejected" <=>
          \/ text.shape # "ok" \/ Orders(text) = {}
          \/ SeesReference(text) /\
               \/ \E s \in Orders(text) : ~Precedes(s, text.ref, Subject)
               \/ text.form # "raw" /\ ~text.declared)
  /\ stage = "running" =>
       \/ \E n \in DefinitionNodes : ReadyToRun(n)
       \/ \A n \in DefinitionNodes : Done(state[n])
  /\ bound = "empty" => text.input = "optional" \/ (text.form # "input" /\ ~SeesReference(text))
  /\ prepared # "no" /\ bound # "no" /\ prepared # bound => text.form # "input"
  /\ agentFound = "missing" => text.agentAt \in {"plan.revision", "default"}
=============================================================================
