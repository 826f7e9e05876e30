----------------------------- MODULE AgentTurns -----------------------------
(***************************************************************************)
(* The turns of one agent session (adapters/claude.ts, codex.ts,           *)
(* gemini-cli.ts).  A Claude session makes one SDK query per prompt: a     *)
(* prompt that finds a turn under way interrupts it, waits until its       *)
(* messages are drained and then makes the next query.  Codex and Gemini   *)
(* sessions put every prompt behind the promise of the one before it.      *)
(* The agents behind the SDKs are external: they end, fail, ask and answer *)
(* when they like.                                                         *)
(***************************************************************************)
EXTENDS Integers, FiniteSets

CONSTANT MaxTurns  \* bound: prompts sent to the session

ASSUME TurnsAssumption == MaxTurns \in Nat \ {0}

VARIABLES
  adapter,    \* "claude" or "chain" (Codex, Gemini)
  state,      \* Session.state
  turns,      \* per prompt: "none", "asked" (its interrupt is under way),
              \* "waiting" (for the drain; for its place in the chain),
              \* "live", "resulted" (its result is in, its stream is not
              \* over), "done"
  waitsFor,   \* per prompt: the turn whose drain it awaits
  query,      \* this.query and this.drainPromise: the last turn made, 0: none
  aborted,    \* this.abortController.signal.aborted
  stopped,    \* chain: stopped; claude: killed or endedForPoisonedHistory
  poisoned,   \* endedForPoisonedHistory
  broken,     \* chain: the promise was rejected
  told,       \* turns whose agent was told to stop: interrupted or closed
  asking,     \* turns with a permission question under way
  removed,    \* the session manager has let the session go
  crowded,    \* history: a prompt came while another was waiting, after the
              \* result of a turn whose stream was not over, or after the end
  overtaken   \* history: the end came while a prompt was waiting

turnVars == <<adapter, state, turns, waitsFor, query, aborted, stopped, poisoned,
              broken, told, asking, removed, crowded, overtaken>>

Turns == 1 .. MaxTurns
Streaming == {i \in Turns : turns[i] \in {"live", "resulted"}}
Inflight == state \in {"running", "waiting_permission", "starting"}

(* start and resume without a prompt: the session is idle.  The first prompt
   is dispatched by the manager like any other. *)
TurnsInit ==
  /\ adapter \in {"claude", "chain"} /\ state = "idle"
  /\ turns = [i \in Turns |-> "none"] /\ waitsFor = [i \in Turns |-> 0]
  /\ query = 0 /\ aborted = FALSE /\ stopped = FALSE /\ poisoned = FALSE
  /\ broken = FALSE /\ told = {} /\ asking = {} /\ removed = FALSE
  /\ crowded = FALSE /\ overtaken = FALSE

Transitions ==
  [starting |-> {"running", "idle", "errored", "completed"},
   running |-> {"idle", "waiting_permission", "errored", "completed"},
   waiting_permission |-> {"running", "errored", "completed"},
   idle |-> {"running", "waiting_permission", "errored", "completed"},
   completed |-> {}, errored |-> {"running", "completed"}]

\* setState: Claude refuses what VALID_TRANSITIONS does not list.
SetState(s) ==
  state' = IF adapter = "chain" \/ s \in Transitions[state] THEN s ELSE state

-----------------------------------------------------------------------------
(* Claude.                                                                 *)

\* A new query, its abort controller and its drain.
Queried(i) ==
  /\ query' = i /\ aborted' = FALSE /\ turns' = [turns EXCEPT ![i] = "live"]
  /\ SetState("running")

NextPrompt(i) ==
  /\ ~removed /\ turns[i] = "none" /\ \A j \in 1 .. (i - 1) : turns[j] # "none"

SendPrompt(i) ==
  /\ adapter = "claude" /\ NextPrompt(i)
  /\ IF query = 0 \/ ~Inflight THEN Queried(i) /\ UNCHANGED told
     ELSE /\ turns' = [turns EXCEPT ![i] = "asked"] /\ told' = told \cup {query}
          /\ UNCHANGED <<query, aborted, state>>
  /\ crowded' = (crowded \/ stopped \/ \E j \in Turns :
       turns[j] \in {"asked", "waiting", "resulted"})
  /\ UNCHANGED <<adapter, waitsFor, stopped, poisoned, broken, asking, removed, overtaken>>

\* Variant for mutation testing: the next query does not wait for the drain.
InterruptReturnsAtOnce(i) ==
  /\ turns[i] = "asked" /\ Queried(i)
  /\ UNCHANGED <<adapter, waitsFor, stopped, poisoned, broken, told, asking, removed,
                 crowded, overtaken>>

\* interrupt() has returned or thrown; the drain awaited is the one of now.
InterruptReturns(i) ==
  /\ turns[i] = "asked" /\ turns' = [turns EXCEPT ![i] = "waiting"]
  /\ waitsFor' = [waitsFor EXCEPT ![i] = query]
  /\ UNCHANGED <<adapter, state, query, aborted, stopped, poisoned, broken, told, asking,
                 removed, crowded, overtaken>>

\* The await of the drain is over: nothing is looked at again.
Drained(i) ==
  /\ adapter = "claude" /\ turns[i] = "waiting" /\ turns[waitsFor[i]] = "done"
  /\ Queried(i)
  /\ UNCHANGED <<adapter, waitsFor, stopped, poisoned, broken, told, asking, removed,
                 crowded, overtaken>>

\* normalizeResultMessage.
ResultMessage(i, s) ==
  /\ adapter = "claude" /\ turns[i] = "live" /\ turns' = [turns EXCEPT ![i] = "resulted"]
  /\ IF poisoned THEN UNCHANGED state ELSE SetState(s)
  /\ UNCHANGED <<adapter, waitsFor, query, aborted, stopped, poisoned, broken, told,
                 asking, removed, crowded, overtaken>>

\* drainMessages: the stream is over, or it failed; a failure is ignored when
\* the session was aborted and may be after a result.
StreamEnds(i, failed) ==
  /\ adapter = "claude" /\ i \in Streaming /\ turns' = [turns EXCEPT ![i] = "done"]
  /\ \/ ~failed /\ IF state \in {"running", "starting"} THEN SetState("idle")
                                                        ELSE UNCHANGED state
     \/ failed /\ (aborted \/ turns[i] = "resulted") /\ UNCHANGED state
     \/ failed /\ ~aborted /\ SetState("errored")
  /\ UNCHANGED <<adapter, waitsFor, query, aborted, stopped, poisoned, broken, told,
                 asking, removed, crowded, overtaken>>

\* wrapCanUseTool: the question, and its answer or the handler's failure.
AsksPermission(i) ==
  /\ adapter = "claude" /\ turns[i] = "live" /\ i \notin asking
  /\ asking' = asking \cup {i} /\ SetState("waiting_permission")
  /\ UNCHANGED <<adapter, turns, waitsFor, query, aborted, stopped, poisoned, broken,
                 told, removed, crowded, overtaken>>

PermissionAnswered(i) ==
  /\ i \in asking /\ asking' = asking \ {i} /\ SetState("running")
  /\ UNCHANGED <<adapter, turns, waitsFor, query, aborted, stopped, poisoned, broken,
                 told, removed, crowded, overtaken>>

\* endPoisonedHistorySession, a microtask after the message.
PoisonedHistory(i) ==
  /\ adapter = "claude" /\ turns[i] = "live" /\ ~poisoned
  /\ poisoned' = TRUE /\ stopped' = TRUE /\ told' = told \cup {query}
  /\ SetState("completed")
  /\ overtaken' = (overtaken \/ \E j \in Turns : turns[j] \in {"asked", "waiting"})
  /\ UNCHANGED <<adapter, turns, waitsFor, query, aborted, broken, asking, removed,
                 crowded>>

-----------------------------------------------------------------------------
(* Codex and Gemini.                                                       *)

ChainPrompt(i) ==
  /\ adapter = "chain" /\ NextPrompt(i) /\ ~stopped
  /\ turns' = [turns EXCEPT ![i] = "waiting"]
  /\ UNCHANGED <<adapter, state, waitsFor, query, aborted, stopped, poisoned, broken,
                 told, asking, removed, crowded, overtaken>>

\* Variant for mutation testing: the chain is not waited for.
ChainReachedAtOnce(i) == adapter = "chain" /\ turns[i] = "waiting"
ChainReached(i) ==
  /\ adapter = "chain" /\ turns[i] = "waiting"
  /\ \A j \in 1 .. (i - 1) : turns[j] = "done"

\* A rejected chain fails every later prompt, each ending the session again;
\* a stopped session passes its prompts over.
ChainTurn(i) ==
  /\ ChainReached(i)
  /\ \/ /\ ~broken /\ ~stopped /\ query' = i /\ SetState("running")
        /\ turns' = [turns EXCEPT ![i] = "live"]
     \/ /\ broken \/ stopped
        /\ turns' = [turns EXCEPT ![i] = "done"] /\ UNCHANGED query
        /\ IF broken THEN SetState("errored") ELSE UNCHANGED state
  /\ UNCHANGED <<adapter, waitsFor, aborted, stopped, poisoned, broken, told, asking,
                 removed, crowded, overtaken>>

\* The run of the turn returns or throws (an agent's failure, a tool call
\* that loops, too many of them).
ChainTurnEnds(i, failed) ==
  /\ adapter = "chain" /\ turns[i] = "live" /\ turns' = [turns EXCEPT ![i] = "done"]
  /\ SetState(IF failed THEN "errored" ELSE "idle") /\ broken' = failed
  /\ UNCHANGED <<adapter, waitsFor, query, aborted, stopped, poisoned, told, asking,
                 removed, crowded, overtaken>>

-----------------------------------------------------------------------------
(* Kill closes the last query of a Claude session; a chained session only
   notes that it was stopped. *)
Kill ==
  /\ ~removed /\ stopped' = TRUE /\ SetState("completed")
  /\ IF adapter = "claude"
     THEN aborted' = TRUE /\ told' = told \cup ({query} \ {0})
     ELSE UNCHANGED <<aborted, told>>
  /\ overtaken' = (overtaken \/ \E j \in Turns : turns[j] \in {"asked", "waiting"})
  /\ UNCHANGED <<adapter, turns, waitsFor, query, poisoned, broken, asking, removed,
                 crowded>>

\* The manager's handler of 'ended' has run.
SessionRemoved ==
  /\ ~removed /\ (stopped \/ broken) /\ removed' = TRUE
  /\ UNCHANGED <<adapter, state, turns, waitsFor, query, aborted, stopped, poisoned,
                 broken, told, asking, crowded, overtaken>>

TurnsNext ==
  \/ \E i \in Turns :
       \/ SendPrompt(i) \/ InterruptReturns(i) \/ Drained(i)
       \/ \E s \in {"idle", "errored"} : ResultMessage(i, s)
       \/ AsksPermission(i) \/ PermissionAnswered(i) \/ PoisonedHistory(i)
       \/ ChainPrompt(i) \/ ChainTurn(i)
       \/ \E f \in BOOLEAN : StreamEnds(i, f) \/ ChainTurnEnds(i, f)
  \/ Kill \/ SessionRemoved

TurnsSpec == TurnsInit /\ [][TurnsNext]_turnVars

-----------------------------------------------------------------------------
TurnsTypeOK ==
  /\ state \in DOMAIN Transitions /\ query \in 0 .. MaxTurns
  /\ \A i \in Turns :
       /\ turns[i] \in {"none", "asked", "waiting", "live", "resulted", "done"}
       /\ waitsFor[i] \in 0 .. MaxTurns
  /\ told \subseteq Turns /\ asking \subseteq Turns

(* A session's agent works at one turn at a time, in the order of the
   prompts, and the session does not look idle while it does: for Codex and
   Gemini without exception, for Claude unless a second prompt came while one
   was waiting, right behind a result, or after the end.  A Claude session
   that has ended has told its agent to stop, unless a prompt was waiting at
   the end: that prompt begins a new turn.  (Codex and Gemini are told
   nothing: the turn that runs when they are killed runs on.) *)
TurnsOneByOne ==
  /\ (adapter = "chain" \/ ~crowded) =>
       /\ Cardinality(Streaming) <= 1
       /\ \A i \in Streaming : i = query /\ \A j \in Turns : j < i => turns[j] = "done"
       /\ state = "idle" => \A i \in Turns : turns[i] # "live"
  /\ (adapter = "claude" /\ stopped /\ ~crowded /\ ~overtaken) => Streaming \subseteq told
=============================================================================
