---------------------------- MODULE AgentSessions ----------------------------
(***************************************************************************)
(* The sessions the daemon runs agents in (core/session-manager.ts) and    *)
(* the tool calls of those agents that wait for an operator                *)
(* (core/permission-coordinator.ts, permissions/engine.ts).  A session id  *)
(* may be started again while an older start of it is still ending: each   *)
(* start is an incarnation with an agent of its own, the maps of manager   *)
(* and coordinator have one entry per id.                                  *)
(***************************************************************************)
EXTENDS Integers

CONSTANTS
  SessionIds, Tools, AutoTools, DenyTools, \* the configured tool lists
  Calls,                                   \* bound: tool calls made
  MaxStarts                                \* bound: starts of sessions

\* Session ids are UUIDs: none is the word the map's missing entries are shown as.
ASSUME StartsAssumption == "none" \notin SessionIds /\ MaxStarts \in Nat

VARIABLES
  agents,     \* per incarnation: its id, configuration and phase
  active,     \* per id: the incarnation in the sessions map, 0: none
  shown,      \* per id: the manager's mode, "none": no entry
  enforced,   \* per id: the coordinator's mode
  reasons,    \* ids with an end reason
  calls,      \* per call: its agent, its tool and what became of it
  daemonUp,   \* "up", "closing" or "down"
  mixed       \* history: ids started before an older start had ended

sessionVars ==
  <<agents, active, shown, enforced, reasons, calls, daemonUp, mixed>>

Incarnations == 1..MaxStarts
Modes == {"detect", "bypass"}
Unstarted == [id |-> "none", phase |-> "none", mode |-> "detect", auto |-> {},
              runs |-> FALSE, prompt |-> FALSE]
NoCall == [agent |-> 0, tool |-> "none", status |-> "none"]

SessionsInit ==
  /\ agents = [i \in Incarnations |-> Unstarted]
  /\ active = [s \in SessionIds |-> 0]
  /\ shown = [s \in SessionIds |-> "none"]
  /\ enforced = [s \in SessionIds |-> "none"]
  /\ reasons = {} /\ calls = [c \in Calls |-> NoCall]
  /\ daemonUp = "up" /\ mixed = {}

Of(i) == agents[i].id
Phase(i, p) == agents' = [agents EXCEPT ![i].phase = p]

\* rejectPendingPermissions: whoever of this id waits is denied.
Rejected(ids) ==
  [c \in Calls |-> IF calls[c].status = "waiting" /\ Of(calls[c].agent) \in ids
                   THEN [calls[c] EXCEPT !.status = "deny"] ELSE calls[c]]

Begin(i, s, m) ==
  /\ daemonUp # "down"
  /\ agents[i].phase = "none" /\ \A j \in 1..(i - 1) : agents[j].phase # "none"
  /\ agents' = [agents EXCEPT ![i] =
       [Unstarted EXCEPT !.id = s, !.phase = "setup", !.mode = m, !.auto = AutoTools]]
  /\ mixed' = IF \E j \in Incarnations : Of(j) = s /\ agents[j].phase # "ended"
              THEN mixed \cup {s} ELSE mixed
  /\ UNCHANGED <<active, shown, enforced, reasons, calls, daemonUp>>

\* launchSession: a new id, and setupTracker begins.
LaunchSession(i, s, m) ==
  Begin(i, s, m) /\ \A j \in Incarnations : Of(j) # s

\* resumeSession: an id with a transcript; whether it is active is not asked.
ResumeSession(i, s, m) ==
  Begin(i, s, m) /\ \E j \in Incarnations : Of(j) = s

\* setupTracker is done, the permission handler made, the adapter called.
SetUp(i) ==
  /\ daemonUp # "down" /\ agents[i].phase = "setup" /\ Phase(i, "starting")
  /\ reasons' = reasons \ {Of(i)}
  /\ enforced' = [enforced EXCEPT ![Of(i)] = agents[i].mode]
  /\ UNCHANGED <<active, shown, calls, daemonUp, mixed>>

\* The adapter has started the agent; the first prompt is dispatched later.
AgentStarted(i) ==
  /\ daemonUp # "down" /\ agents[i].phase = "starting"
  /\ agents' = [agents EXCEPT ![i].phase = "live", ![i].runs = TRUE,
                              ![i].prompt = TRUE]
  /\ active' = [active EXCEPT ![Of(i)] = i]
  /\ shown' = [shown EXCEPT ![Of(i)] = agents[i].mode]
  /\ UNCHANGED <<enforced, reasons, calls, daemonUp, mixed>>

StartFails(i) ==
  /\ daemonUp # "down" /\ agents[i].phase = "starting" /\ Phase(i, "ended")
  /\ enforced' = [enforced EXCEPT ![Of(i)] = "none"]
  /\ UNCHANGED <<active, shown, reasons, calls, daemonUp, mixed>>

\* onEnded up to its first await.
Ending(i) ==
  /\ reasons' = reasons \cup {Of(i)} /\ calls' = Rejected({Of(i)})
  /\ UNCHANGED <<active, shown, enforced, daemonUp, mixed>>

\* The agent ends, by itself or killed.
AgentEnds(i) ==
  /\ daemonUp # "down" /\ agents[i].phase = "live" /\ agents[i].runs
  /\ agents' = [agents EXCEPT ![i].phase = "flushing", ![i].runs = FALSE]
  /\ Ending(i)

\* onEnded after the tracker's teardown: the entries of the id go, whichever
\* incarnation they belong to.
TornDown(i) ==
  /\ daemonUp # "down" /\ agents[i].phase = "flushing" /\ Phase(i, "ended")
  /\ active' = [active EXCEPT ![Of(i)] = 0]
  /\ shown' = [shown EXCEPT ![Of(i)] = "none"]
  /\ enforced' = [enforced EXCEPT ![Of(i)] = "none"]
  /\ UNCHANGED <<reasons, calls, daemonUp, mixed>>

PromptSent(i) ==
  /\ daemonUp # "down" /\ agents[i].prompt /\ active[Of(i)] # 0
  /\ agents' = [agents EXCEPT ![i].prompt = FALSE]
  /\ UNCHANGED <<active, shown, enforced, reasons, calls, daemonUp, mixed>>

\* The first prompt could not be sent: unless it has ended, the session that
\* has the id now is told that it ended; its agent is not.
PromptFails(i) ==
  LET s == Of(i) IN
  /\ daemonUp # "down" /\ agents[i].prompt
  /\ IF s \notin reasons /\ active[s] # 0 /\ agents[active[s]].phase = "live"
     THEN /\ agents' = [agents EXCEPT ![i].prompt = FALSE,
                                      ![active[s]].phase = "flushing"]
          /\ Ending(i)
     ELSE /\ agents' = [agents EXCEPT ![i].prompt = FALSE]
          /\ reasons' = IF active[s] = 0 THEN reasons \cup {s} ELSE reasons
          /\ UNCHANGED <<active, shown, enforced, calls, daemonUp, mixed>>

\* Variant for mutation testing: only the manager learns of the mode.
SetModeShownOnly(s, m) ==
  /\ daemonUp # "down" /\ active[s] # 0
  /\ shown' = [shown EXCEPT ![s] = m]
  /\ UNCHANGED <<agents, active, enforced, reasons, calls, daemonUp, mixed>>

SetMode(s, m) ==
  /\ daemonUp # "down" /\ active[s] # 0
  /\ shown' = [shown EXCEPT ![s] = m]
  /\ enforced' = [enforced EXCEPT ![s] = m]
  /\ UNCHANGED <<agents, active, reasons, calls, daemonUp, mixed>>

-----------------------------------------------------------------------------
\* The configuration a call is judged by is that of the active incarnation.
Granted(i) == IF active[Of(i)] # 0 THEN agents[active[Of(i)]] ELSE agents[i]

ResolvePermission(i, t) ==
  CASE t \in DenyTools -> "deny"
    [] t \in Granted(i).auto \ DenyTools -> "allow"
    [] OTHER -> "waiting"

CanUseTool(c, i, t) ==
  /\ daemonUp # "down" /\ agents[i].runs /\ calls[c] = NoCall
  /\ calls' = [calls EXCEPT ![c] = [agent |-> i, tool |-> t, status |->
       IF enforced[Of(i)] = "bypass" \/ Granted(i).mode = "bypass"
       THEN "allow" ELSE ResolvePermission(i, t)]]
  /\ UNCHANGED <<agents, active, shown, enforced, reasons, daemonUp, mixed>>

Waiting(c) == daemonUp # "down" /\ calls[c].status = "waiting"

Decided(c, d) == calls' = [calls EXCEPT ![c].status = d]

\* respond-permission: a session that is not active has nobody to answer.
RespondPermission(c, d, always) ==
  LET a == active[Of(calls[c].agent)] IN
  /\ Waiting(c) /\ a # 0 /\ Decided(c, d) /\ (always => d = "allow")
  /\ agents' = IF always THEN [agents EXCEPT ![a].auto = @ \cup {calls[c].tool}]
               ELSE agents
  /\ UNCHANGED <<active, shown, enforced, reasons, daemonUp, mixed>>

\* Variant for mutation testing: the timer belongs to the session.
PermissionTimesOutActive(c) ==
  /\ Waiting(c) /\ active[Of(calls[c].agent)] # 0 /\ Decided(c, "deny")
  /\ UNCHANGED <<agents, active, shown, enforced, reasons, daemonUp, mixed>>

PermissionTimesOut(c) ==
  /\ Waiting(c) /\ Decided(c, "deny")
  /\ UNCHANGED <<agents, active, shown, enforced, reasons, daemonUp, mixed>>

\* The agent withdraws the call.
CallAborted(c) ==
  /\ Waiting(c) /\ agents[calls[c].agent].runs /\ Decided(c, "deny")
  /\ UNCHANGED <<agents, active, shown, enforced, reasons, daemonUp, mixed>>

-----------------------------------------------------------------------------
\* shutdown: listeners off, calls denied, agents killed.
ShutdownBegins ==
  LET ids == {s \in SessionIds : active[s] # 0} IN
  /\ daemonUp = "up" /\ daemonUp' = "closing"
  /\ calls' = Rejected(ids)
  /\ agents' = [i \in Incarnations |->
       IF agents[i].phase = "live" /\ active[Of(i)] = i
       THEN [agents[i] EXCEPT !.phase = "closing"] ELSE agents[i]]
  /\ UNCHANGED <<active, shown, enforced, reasons, mixed>>

\* A session whose end is being handled already is killed too.
Closing(i) ==
  \/ agents[i].phase = "closing"
  \/ daemonUp = "closing" /\ agents[i].phase = "flushing" /\ agents[i].runs
       /\ active[Of(i)] = i

ClosedDown(i) ==
  /\ Closing(i)
  /\ agents' = [agents EXCEPT ![i].runs = FALSE,
       ![i].phase = IF @ = "closing" THEN "ended" ELSE @]
  /\ shown' = [shown EXCEPT ![Of(i)] = "none"]
  /\ enforced' = [enforced EXCEPT ![Of(i)] = "none"]
  /\ UNCHANGED <<active, reasons, calls, daemonUp, mixed>>

ShutdownEnds ==
  /\ daemonUp = "closing" /\ \A i \in Incarnations : ~Closing(i)
  /\ daemonUp' = "down"
  /\ active' = [s \in SessionIds |-> 0]
  /\ shown' = [s \in SessionIds |-> "none"]
  /\ UNCHANGED <<agents, enforced, reasons, calls, mixed>>

SessionsNext ==
  \/ \E i \in Incarnations :
       \/ \E s \in SessionIds, m \in Modes :
            LaunchSession(i, s, m) \/ ResumeSession(i, s, m)
       \/ SetUp(i) \/ AgentStarted(i) \/ StartFails(i) \/ AgentEnds(i)
       \/ TornDown(i) \/ PromptSent(i) \/ PromptFails(i) \/ ClosedDown(i)
       \/ \E c \in Calls, t \in Tools : CanUseTool(c, i, t)
  \/ \E s \in SessionIds, m \in Modes : SetMode(s, m)
  \/ \E c \in Calls :
       \/ \E d \in {"allow", "deny"}, w \in BOOLEAN : RespondPermission(c, d, w)
       \/ PermissionTimesOut(c) \/ CallAborted(c)
  \/ ShutdownBegins \/ ShutdownEnds

(* Timers fire while the daemon runs. *)
SessionsFairness == \A c \in Calls : WF_sessionVars(PermissionTimesOut(c))

SessionsTypeOK ==
  /\ \A i \in Incarnations :
       /\ Of(i) \in SessionIds \cup {"none"} /\ agents[i].mode \in Modes
       /\ agents[i].phase \in {"none", "setup", "starting", "live", "flushing",
                               "closing", "ended"}
       /\ agents[i].auto \subseteq Tools /\ agents[i].runs \in BOOLEAN
       /\ agents[i].prompt \in BOOLEAN
  /\ active \in [SessionIds -> 0..MaxStarts]
  /\ shown \in [SessionIds -> Modes \cup {"none"}]
  /\ enforced \in [SessionIds -> Modes \cup {"none"}]
  /\ reasons \subseteq SessionIds /\ mixed \subseteq SessionIds
  /\ daemonUp \in {"up", "closing", "down"}
  /\ \A c \in Calls : calls[c].status \in {"none", "waiting", "allow", "deny"}

(* As long as starts of an id do not overlap, a live session is in the
   manager's map, where it can be prompted, answered and killed, the map names
   no ended one, and the mode the operator is shown is the one the
   coordinator enforces.  Overlapping starts break all of this: the teardown
   of the older one takes the entries of the newer. *)
Managed ==
  \A i \in Incarnations : daemonUp = "up" /\ Of(i) \in SessionIds \ mixed =>
    /\ agents[i].phase = "live" =>
         /\ active[Of(i)] = i
         /\ shown[Of(i)] = enforced[Of(i)] /\ shown[Of(i)] # "none"
    /\ active[Of(i)] = i => agents[i].phase \in {"live", "flushing"}

(* No agent waits for ever: a tool call is answered even when its session has
   been torn down and no operator can answer it ("prevent dangling
   promises"). *)
EveryCallAnswered ==
  \A c \in Calls :
    calls[c].status = "waiting" ~> calls[c].status # "waiting" \/ daemonUp = "down"
=============================================================================
