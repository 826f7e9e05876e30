--------------------------- MODULE HookSupervision ---------------------------
(***************************************************************************)
(* Permission hooks of agents the daemon did not start (hooks/router.ts,   *)
(* hooks/supervision.ts): a hook is held while some client supervises the  *)
(* agent's session, and otherwise falls through to the agent's terminal.   *)
(* A plan is held whoever watches.                                         *)
(***************************************************************************)
EXTENDS Integers, Sequences, FiniteSets

CONSTANTS
  HookSessions, Watchers, Hooks,  \* agents' sessions, clients, hook requests
  HookDecisions,                  \* of allow and deny, what rules and clients decide
  MaxSupervised,                  \* cap of the supervisors map
  MaxPending                      \* MAX_PENDING_PERMISSION_REQUESTS

ASSUME HookCaps ==
  /\ MaxSupervised \in Nat \ {0} /\ MaxPending \in Nat \ {0}
  /\ HookDecisions \subseteq {"allow", "deny"}

VARIABLES
  watching,   \* connected clients
  order,      \* the keys of the supervisors map, oldest first
  supervisors,\* per session: the clients that supervise it
  rules,      \* per session: what a workflow's hook rules decide, or "none"
  hooks,      \* per request: its session, whether it is a plan, its outcome,
              \* and while it is held, whether the agent still waits
  left        \* history: sessions their last supervisor left without a release

hookVars == <<watching, order, supervisors, rules, hooks, left>>

NoHook == [of |-> "none", plan |-> FALSE, outcome |-> "none", waits |-> FALSE]

HooksInit ==
  /\ watching = {} /\ order = <<>>
  /\ supervisors = [s \in HookSessions |-> {}]
  /\ rules = [s \in HookSessions |-> "none"]
  /\ hooks = [q \in Hooks |-> NoHook] /\ left = {}

IsSupervised(s) == supervisors[s] # {}
Pending == {q \in Hooks : hooks[q].outcome = "held"}
Resolve(qs, outcome) ==
  [q \in Hooks |-> IF q \in qs THEN [hooks[q] EXCEPT !.outcome = outcome, !.waits = FALSE]
                   ELSE hooks[q]]
HeldOf(ss) == {q \in Pending : hooks[q].of \in ss}

WatcherConnects(c) ==
  /\ c \notin watching /\ watching' = watching \cup {c}
  /\ UNCHANGED <<order, supervisors, rules, hooks, left>>

\* Variant for mutation testing: the map grows past its cap.
SuperviseUncapped(s, c) ==
  /\ c \in watching /\ c \notin supervisors[s]
  /\ supervisors' = [supervisors EXCEPT ![s] = @ \cup {c}]
  /\ order' = IF IsSupervised(s) THEN order ELSE Append(order, s)
  /\ left' = left \ {s} /\ UNCHANGED <<watching, rules, hooks>>

\* supervise: a session that is new to a full map evicts the oldest.
Supervise(s, c) ==
  LET evicted == IF ~IsSupervised(s) /\ Len(order) >= MaxSupervised
                 THEN {Head(order)} ELSE {} IN
  /\ c \in watching /\ c \notin supervisors[s]
  /\ supervisors' = [t \in HookSessions |->
       IF t = s THEN supervisors[t] \cup {c}
       ELSE IF t \in evicted THEN {} ELSE supervisors[t]]
  /\ order' = IF IsSupervised(s) THEN order
              ELSE Append(IF evicted = {} THEN order ELSE Tail(order), s)
  /\ left' = (left \ {s}) \cup evicted
  /\ UNCHANGED <<watching, rules, hooks>>

Without(s) == SelectSeq(order, LAMBDA t : t # s)

\* unsupervise: what is held stays held.
Unsupervise(s, c) ==
  /\ c \in supervisors[s]
  /\ supervisors' = [supervisors EXCEPT ![s] = @ \ {c}]
  /\ IF supervisors[s] = {c}
     THEN order' = Without(s) /\ left' = left \cup {s}
     ELSE UNCHANGED <<order, left>>
  /\ UNCHANGED <<watching, rules, hooks>>

Watched(c) == {s \in HookSessions : c \in supervisors[s]}

\* Variant for mutation testing: supervision ends, nothing is released.
WatcherDisconnectsSilently(c) ==
  /\ c \in watching /\ watching' = watching \ {c}
  /\ supervisors' = [s \in HookSessions |-> supervisors[s] \ {c}]
  /\ order' = SelectSeq(order, LAMBDA s : supervisors[s] # {c})
  /\ UNCHANGED <<rules, hooks, left>>

\* The socket's close handler: removeClient, and releaseSession for what the
\* client was the last to supervise.
WatcherDisconnects(c) ==
  LET released == {s \in Watched(c) : supervisors[s] = {c}} IN
  /\ c \in watching /\ watching' = watching \ {c}
  /\ supervisors' = [s \in HookSessions |-> supervisors[s] \ {c}]
  /\ order' = SelectSeq(order, LAMBDA s : s \notin released)
  /\ hooks' = Resolve(HeldOf(released), "local")
  /\ UNCHANGED <<rules, left>>

\* workflowHookRegistry: a prompt node registers its session's rules.
RulesChange(s, d) ==
  /\ rules' = [rules EXCEPT ![s] = d]
  /\ UNCHANGED <<watching, order, supervisors, hooks, left>>

\* handleEvent, handleBlockingEvent and holdPermissionRequest.
HandleEvent(q, s, plan) ==
  LET outcome == IF rules[s] # "none" THEN rules[s]
                 ELSE IF ~plan /\ ~IsSupervised(s) THEN "local"
                 ELSE IF Cardinality(Pending) >= MaxPending THEN "deny" ELSE "held" IN
  /\ hooks[q] = NoHook
  /\ hooks' = [hooks EXCEPT ![q] =
       [of |-> s, plan |-> plan, outcome |-> outcome, waits |-> outcome = "held"]]
  /\ UNCHANGED <<watching, order, supervisors, rules, left>>

\* respond-hook-permission, of any client.
ResolvePending(q, d) ==
  /\ q \in Pending /\ watching # {} /\ hooks' = Resolve({q}, d)
  /\ UNCHANGED <<watching, order, supervisors, rules, left>>

\* vpd hook notify ends before its answer: the user interrupts it, or the agent
\* stops waiting for it.  The daemon is not told, and goes on holding.
AgentLeaves(q) ==
  /\ q \in Pending /\ hooks[q].waits
  /\ hooks' = [hooks EXCEPT ![q].waits = FALSE]
  /\ UNCHANGED <<watching, order, supervisors, rules, left>>

HookTimesOut(q) ==
  /\ q \in Pending /\ hooks' = Resolve({q}, "local")
  /\ UNCHANGED <<watching, order, supervisors, rules, left>>

\* The agent's session-end hook; its supervisors stay.
HookSessionEnds(s) ==
  /\ hooks' = Resolve(HeldOf({s}), "local")
  /\ UNCHANGED <<watching, order, supervisors, rules, left>>

\* HookRouter.shutdown
HookShutdown ==
  /\ hooks' = Resolve(Pending, "local")
  /\ UNCHANGED <<watching, order, supervisors, rules, left>>

HooksNext ==
  \/ \E c \in Watchers :
       \/ WatcherConnects(c) \/ WatcherDisconnects(c)
       \/ \E s \in HookSessions : Supervise(s, c) \/ Unsupervise(s, c)
  \/ \E s \in HookSessions :
       \/ HookSessionEnds(s)
       \/ \E d \in HookDecisions \cup {"none"} : RulesChange(s, d)
       \/ \E q \in Hooks, plan \in BOOLEAN : HandleEvent(q, s, plan)
  \/ \E q \in Hooks :
       HookTimesOut(q) \/ AgentLeaves(q) \/ \E d \in HookDecisions : ResolvePending(q, d)
  \/ HookShutdown

HooksTypeOK ==
  /\ watching \subseteq Watchers /\ left \subseteq HookSessions
  /\ \A s \in HookSessions : supervisors[s] \subseteq watching
  /\ {order[n] : n \in 1..Len(order)} = {s \in HookSessions : IsSupervised(s)}
  /\ Len(order) <= MaxSupervised /\ Cardinality(Pending) <= MaxPending
  /\ \A q \in Hooks :
       hooks[q].outcome \in {"none", "held", "local", "allow", "deny"}

(* A hook other than a plan is held only while someone supervises the session
   ("When no clients are supervising, hooks fall through so the local UX is
   unaffected").  The code keeps to it when supervisors disconnect, and not
   when the last one leaves by message or is evicted: the agent then waits
   for the timeout. *)
HeldHasSupervisor ==
  \A q \in Pending : hooks[q].plan \/ IsSupervised(hooks[q].of) \/ hooks[q].of \in left
=============================================================================
