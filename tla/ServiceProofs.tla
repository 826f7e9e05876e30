----------------------------- MODULE ServiceProofs ---------------------------
(***************************************************************************)
(* Proofs about the daemon's services: what the platform is told of a run, *)
(* the turns of an agent, the sessions of the manager, the hooks of        *)
(* supervised sessions, the keys of a client's exchange, what a managed    *)
(* worker reports and asks for, the commands that hold the daemon, and the *)
(* processes of a node.                                                    *)
(***************************************************************************)
EXTENDS MCServices, Selections

(* The platform's copy of a run *)

(* Nothing is ahead of the saves, and number n is one snapshot. *)
NothingAhead ==
  /\ saved.n = 0 => saved = None0
  /\ newestRun \in {None0, saved}
  /\ platform.n <= saved.n /\ carried.n <= saved.n
  /\ carried.n = saved.n => carried = saved

(* The snapshot to send is the newest while a worker sends it, and it is only
   dropped when the platform has it or refused it. *)
NewestKept ==
  /\ worker \in {"sending", "waiting"} => newestRun = saved /\ newestRun # None0
  /\ newestRun = None0 /\ ~refused => platform.n = saved.n

(* What is missing has somebody to send it. *)
SomebodySends ==
  platform.n < saved.n /\ ~unsent /\ ~refused => worker \in {"sending", "waiting"} \/ retryTimer

EventsComplete == 1..offset \subseteq platform.events

SyncInv == SyncTypeOK /\ NothingAhead /\ NewestKept /\ SomebodySends /\ EventsComplete

(* The snapshots of a save and none are snapshots; what the platform has. *)
LEMMA SnapshotsMade ==
  /\ None0 \in Snapshots /\ None0.n = 0
  /\ \A s \in Snapshots : s.n \in 0..MaxSaves
  /\ \A n \in 0..MaxSaves, b \in BOOLEAN : [n |-> n, blocked |-> b] \in Snapshots
  /\ \A r \in Receipts : r.n \in 0..MaxSaves /\ r.events \subseteq 1..MaxSaves
  /\ [n |-> 0, events |-> {}] \in Receipts
  BY SyncAssumption DEF None0, Snapshots, Receipts

(* What the platform takes with a snapshot: it has the snapshot's number at
   least, and every event up to it when it had those before the offset. *)
LEMMA TakenIs ==
  ASSUME SyncTypeOK, Taken
  PROVE  /\ platform' \in Receipts
         /\ platform'.n \in {carried.n, platform.n}
         /\ platform'.n >= carried.n /\ platform'.n >= platform.n
         /\ platform.events \subseteq platform'.events
         /\ EventsComplete => 1..carried.n \subseteq platform'.events
<1>1. carried.n \in 0..MaxSaves /\ platform.n \in 0..MaxSaves /\ offset \in 0..MaxSaves
      /\ platform.events \subseteq 1..MaxSaves
  BY SnapshotsMade DEF SyncTypeOK
<1>2. /\ platform'.n = IF carried.n > platform.n THEN carried.n ELSE platform.n
      /\ platform'.events = platform.events \cup (offset + 1)..carried.n
  BY DEF Taken
<1>3. platform.events \subseteq 1..MaxSaves /\ (offset + 1)..carried.n \subseteq 1..MaxSaves
  BY <1>1, SyncAssumption
<1>4. platform' \in Receipts
  BY <1>1, <1>3, SyncAssumption DEF Taken, Receipts
<1>5. EventsComplete => 1..carried.n \subseteq platform'.events
  BY <1>1, <1>2, SyncAssumption DEF EventsComplete
<1> QED
  BY <1>1, <1>2, <1>4, <1>5, SyncAssumption

(* Every step keeps the types. *)
LEMMA SyncTypes == ASSUME SyncTypeOK, [SyncNext]_syncVars PROVE SyncTypeOK'
<1> USE SyncAssumption, SnapshotsMade
    DEF SyncTypeOK, SyncNext, syncVars, Schedule, StartWorker, SyncFails, SyncOk, Settle,
        SyncRefused, RetryDelayOver, WorkerRemoved, RetryFires, PollFires, TimerStarts
<1>1. saved' \in Snapshots
  OBVIOUS
<1>2. newestRun' \in Snapshots
  OBVIOUS
<1>3. carried' \in Snapshots
  OBVIOUS
<1>4. worker' \in {"idle", "sending", "waiting", "returned"}
  OBVIOUS
<1>5. attempts' \in 0..MaxRetries
  OBVIOUS
<1>6. offset' \in 0..MaxSaves
  OBVIOUS
<1>7. platform' \in Receipts
  BY TakenIs
<1>8. retryTimer' \in BOOLEAN /\ pollTimer' \in BOOLEAN /\ refused' \in BOOLEAN
  BY Zenon
<1>9. unsent' \in BOOLEAN
  BY Zenon
<1> QED
  BY <1>1, <1>2, <1>3, <1>4, <1>5, <1>6, <1>7, <1>8, <1>9 DEF SyncTypeOK

(* Every step of the worker, its timers and the saves keeps the invariant. *)
LEMMA SyncStep == ASSUME SyncInv, [SyncNext]_syncVars PROVE SyncInv'
<1> USE SyncAssumption, SnapshotsMade
    DEF SyncInv, SyncTypeOK, SyncNext, syncVars, Schedule, StartWorker, SyncFails, SyncOk,
        Settle, SyncRefused, RetryDelayOver, WorkerRemoved, RetryFires, PollFires, TimerStarts
<1>1. SyncTypeOK'
  BY Zenon, SyncTypes DEF SyncInv
<1>2. NothingAhead'
  BY <1>1, TakenIs DEF NothingAhead, NewestKept
<1>3. NewestKept'
  BY <1>1, TakenIs DEF NothingAhead, NewestKept
<1>4. SomebodySends'
  BY <1>1, TakenIs DEF SomebodySends, NothingAhead, NewestKept
<1>5. EventsComplete'
  BY <1>1, TakenIs DEF EventsComplete
<1> QED
  BY <1>1, <1>2, <1>3, <1>4, <1>5 DEF SyncInv

(* Whatever the number of saves and retries, the platform lacks nothing that
   is not being sent or about to be, save for the two named gaps. *)
THEOREM NothingIsForgotten == SyncSpec => []NothingForgotten
<1>1. SyncInit => SyncInv
  <2>1. SyncInit => SyncTypeOK
    <3> SUFFICES ASSUME SyncInit PROVE SyncTypeOK
      OBVIOUS
    <3>1. /\ saved \in Snapshots /\ newestRun \in Snapshots /\ carried \in Snapshots
          /\ platform \in Receipts
      BY SnapshotsMade DEF SyncInit
    <3>2. attempts \in 0..MaxRetries /\ offset \in 0..MaxSaves
      BY SyncAssumption DEF SyncInit
    <3> QED
      BY Zenon, <3>1, <3>2 DEF SyncInit, SyncTypeOK
  <2>2. SyncInit => NothingAhead /\ NewestKept /\ SomebodySends /\ EventsComplete
    BY SnapshotsMade DEF SyncInit, NothingAhead, NewestKept, SomebodySends, EventsComplete
  <2> QED
    BY <2>1, <2>2 DEF SyncInv
<1>2. SyncInv => NothingForgotten
  BY SyncAssumption, SnapshotsMade
  DEF SyncInv, SyncTypeOK, NothingAhead, NewestKept, SomebodySends, EventsComplete,
      NothingForgotten
<1>3. SyncInv /\ [SyncNext]_syncVars => SyncInv'
  BY SyncStep
<1> QED
  BY <1>1, <1>2, <1>3, PTL DEF SyncSpec

-----------------------------------------------------------------------------
(* The turns of an agent *)

States == {"starting", "running", "waiting_permission", "idle", "completed", "errored"}

(* What a turn goes through. *)
TurnStates == {"none", "asked", "waiting", "live", "resulted", "done"}

(* Every variable of the turns has its type. *)
TurnTypes ==
  /\ adapter \in {"claude", "chain"} /\ state \in States /\ query \in 0..MaxTurns
  /\ turns \in [Turns -> TurnStates] /\ waitsFor \in [Turns -> 0..MaxTurns]
  /\ told \subseteq Turns /\ asking \subseteq Turns

(* Codex, Gemini: a turn runs when all before it are over, and is the last made. *)
ChainInOrder ==
  adapter = "chain" =>
    \A i \in Turns :
      /\ turns[i] \in {"none", "waiting", "live", "done"}
      /\ turns[i] = "live" => /\ i = query /\ state # "idle"
                              /\ \A j \in Turns : j < i => turns[j] = "done"

(* Claude: before the last query all is over, behind it at most one prompt waits,
   and for that query. *)
QueriesInOrder ==
  adapter = "claude" =>
    /\ query = 0 => \A j \in Turns : turns[j] = "none"
    /\ ~crowded => \A j \in Turns :
         /\ j < query => turns[j] = "done"
         /\ j = query => turns[j] \in {"live", "resulted", "done"}
         /\ j = query + 1 => turns[j] \in {"none", "asked", "waiting"}
         /\ j > query + 1 => turns[j] = "none"
         /\ turns[j] = "waiting" => waitsFor[j] = query

(* Claude: the end is for good, and a turn under way shows before it. *)
EndIsFinal ==
  adapter = "claude" =>
    /\ poisoned => stopped
    /\ stopped = (state = "completed")
    /\ ~crowded /\ ~stopped =>
         \A i \in Turns : turns[i] = "live" => state \in {"running", "waiting_permission"}
    /\ stopped /\ ~crowded /\ ~overtaken =>
         \A i \in Turns : /\ turns[i] \notin {"asked", "waiting"}
                          /\ turns[i] \in {"live", "resulted"} => i \in told

(* The turns' inductive invariant. *)
TurnInv == TurnTypes /\ ChainInOrder /\ QueriesInOrder /\ EndIsFinal

(* Claude's adapter keeps a completed session completed; the chain's sets what it is told. *)
LEMMA SetStateIs ==
  ASSUME state \in States, adapter \in {"claude", "chain"}, NEW s \in States, SetState(s)
  PROVE  /\ state' \in States
         /\ adapter = "chain" => state' = s
         /\ adapter = "claude" =>
              /\ state' \in {state, s}
              /\ state = "completed" => state' = state
              /\ s \in {"completed"} => state' = s
              /\ s = "running" /\ state # "completed" => state' = s
              /\ s = "waiting_permission" /\ state \in {"running", "waiting_permission", "idle"} =>
                   state' = s
  BY DEF SetState, Transitions, States

(* The types are kept. *)
LEMMA TurnTypesStep == ASSUME TurnInv, [TurnsNext]_turnVars PROVE TurnTypes'
<1> USE TurnsAssumption DEF TurnTypes, Turns, TurnInv
<1>0. {"starting", "running", "waiting_permission", "idle", "completed", "errored"} \subseteq States
  BY DEF States
<1>1. state' \in States
  BY <1>0, SetStateIs
  DEF TurnsNext, turnVars, SendPrompt, InterruptReturns, Drained, ResultMessage, AsksPermission,
      PermissionAnswered, PoisonedHistory, ChainPrompt, ChainTurn, StreamEnds, ChainTurnEnds,
      Kill, SessionRemoved, Queried
<1> USE DEF TurnsNext, turnVars, SendPrompt, InterruptReturns, Drained, ResultMessage,
      AsksPermission, PermissionAnswered, PoisonedHistory, ChainPrompt, ChainTurn, StreamEnds,
      ChainTurnEnds,
      Kill, SessionRemoved, Queried
<1>2. adapter' \in {"claude", "chain"}
  OBVIOUS
<1>3. query' \in 0..MaxTurns
  OBVIOUS
<1>4. turns' \in [Turns -> TurnStates]
  BY DEF TurnStates
<1>5. waitsFor' \in [Turns -> 0..MaxTurns]
  BY Zenon
<1>6. told' \subseteq Turns
  <2>1. adapter = "claude" => \A j \in Turns : turns[j] # "none" => query \in Turns
    BY DEF QueriesInOrder
  <2>2. query \in 0 .. MaxTurns /\ (query # 0 => query \in Turns)
    OBVIOUS
  <2>3. ASSUME NEW i \in Turns, SendPrompt(i) \/ PoisonedHistory(i) PROVE told' \subseteq Turns
    BY Zenon, <2>1, <2>2, <2>3 DEF SendPrompt, PoisonedHistory
  <2>4. CASE Kill
    BY Zenon, <2>2, <2>4 DEF Kill
  <2>5. CASE told' = told
    BY <2>5
  <2> QED
    BY Zenon, <2>3, <2>4, <2>5
<1>7. asking' \subseteq Turns
  BY Zenon
<1> QED
  BY <1>1, <1>2, <1>3, <1>4, <1>5, <1>6, <1>7 DEF TurnTypes

(* The chain stays in order. *)
LEMMA ChainStep == ASSUME TurnInv, [TurnsNext]_turnVars PROVE ChainInOrder'
<1>0. /\ adapter' = adapter /\ adapter \in {"claude", "chain"} /\ state \in States
      /\ turns \in [Turns -> TurnStates] /\ Turns = 1 .. MaxTurns /\ MaxTurns \in Nat
  BY TurnsAssumption DEF TurnInv, TurnTypes, TurnsNext, turnVars, SendPrompt, InterruptReturns,
    Drained, ResultMessage, AsksPermission, PermissionAnswered, PoisonedHistory, ChainPrompt,
    ChainTurn, StreamEnds, ChainTurnEnds, Kill, SessionRemoved, Turns
<1> SUFFICES ASSUME adapter = "chain" PROVE ChainInOrder'
  BY <1>0 DEF ChainInOrder
<1>s. {"running", "waiting_permission", "completed", "errored", "idle"} \subseteq States
  BY DEF States
<1>c. /\ \A i \in Turns : turns[i] \in {"none", "waiting", "live", "done"}
      /\ \A i \in Turns : turns[i] = "live" =>
           i = query /\ state # "idle" /\ \A j \in Turns : j < i => turns[j] = "done"
  BY DEF TurnInv, ChainInOrder
<1>1. ASSUME NEW i \in Turns, ChainPrompt(i) PROVE ChainInOrder'
  BY <1>0, <1>c, <1>1 DEF ChainInOrder, ChainPrompt, NextPrompt
<1>2. ASSUME NEW i \in Turns, ChainTurn(i) PROVE ChainInOrder'
  <2>1. CASE ~broken /\ ~stopped
    <3>1. state' = "running"
      BY <1>0, <1>2, <1>s, <2>1, SetStateIs DEF ChainTurn
    <3>2. /\ query' = i /\ turns' = [turns EXCEPT ![i] = "live"] /\ turns[i] = "waiting"
          /\ \A j \in 1 .. (i - 1) : turns[j] = "done"
      BY <1>2, <2>1 DEF ChainTurn, ChainReached
    <3>3. \A j \in Turns : turns[j] = "live" => FALSE
      BY <1>0, <1>c, <3>2
    <3> QED
      BY <1>0, <1>c, <3>1, <3>2, <3>3 DEF ChainInOrder
  <2>2. CASE broken \/ stopped
    <3>1. /\ query' = query /\ turns' = [turns EXCEPT ![i] = "done"]
          /\ state' = state \/ SetState("errored")
      BY <1>2, <2>2 DEF ChainTurn
    <3>2. state' = state \/ state' = "errored"
      BY <1>0, <1>s, <3>1, SetStateIs
    <3> QED
      BY <1>0, <1>c, <3>1, <3>2 DEF ChainInOrder
  <2> QED
    BY <2>1, <2>2
<1>3. ASSUME NEW i \in Turns, NEW f \in BOOLEAN, ChainTurnEnds(i, f) PROVE ChainInOrder'
  <2>1. \A j \in Turns : j # i => turns[j] # "live"
    BY <1>0, <1>c, <1>3 DEF ChainTurnEnds
  <2> QED
    BY <1>0, <1>c, <1>3, <2>1 DEF ChainInOrder, ChainTurnEnds
<1>4. ASSUME NEW i \in Turns, PermissionAnswered(i) PROVE ChainInOrder'
  <2>1. state' = "running"
    BY <1>0, <1>4, <1>s, SetStateIs DEF PermissionAnswered
  <2> QED
    BY <1>0, <1>c, <1>4, <2>1 DEF ChainInOrder, PermissionAnswered
<1>5. CASE Kill
  <2>1. state' = "completed"
    BY <1>0, <1>5, <1>s, SetStateIs DEF Kill
  <2> QED
    BY <1>0, <1>c, <1>5, <2>1 DEF ChainInOrder, Kill
<1>6. CASE UNCHANGED <<adapter, state, turns, query>>
  BY <1>0, <1>c, <1>6 DEF ChainInOrder
<1>7. \A i \in Turns : ~InterruptReturns(i)
  BY <1>c DEF InterruptReturns
<1> QED
  BY <1>1, <1>2, <1>3, <1>4, <1>5, <1>6, <1>7
  DEF TurnsNext, turnVars, SendPrompt, Drained, ResultMessage, AsksPermission,
    PoisonedHistory, StreamEnds, SessionRemoved

(* The queries stay in order. *)
LEMMA QueriesStep == ASSUME TurnInv, [TurnsNext]_turnVars PROVE QueriesInOrder'
<1>0. /\ adapter' = adapter /\ adapter \in {"claude", "chain"} /\ query \in 0 .. MaxTurns
      /\ turns \in [Turns -> TurnStates] /\ Turns = 1 .. MaxTurns /\ MaxTurns \in Nat
      /\ waitsFor \in [Turns -> 0 .. MaxTurns] /\ state \in States
  BY TurnsAssumption DEF TurnInv, TurnTypes, TurnsNext, turnVars, SendPrompt, InterruptReturns,
    Drained, ResultMessage, AsksPermission, PermissionAnswered, PoisonedHistory, ChainPrompt,
    ChainTurn, StreamEnds, ChainTurnEnds, Kill, SessionRemoved, Turns
<1>d. ~crowded' => ~crowded
  BY Zenon DEF TurnsNext, turnVars, SendPrompt, InterruptReturns,
    Drained, ResultMessage, AsksPermission, PermissionAnswered, PoisonedHistory, ChainPrompt,
    ChainTurn, StreamEnds, ChainTurnEnds, Kill, SessionRemoved
<1> SUFFICES ASSUME adapter = "claude" PROVE QueriesInOrder'
  BY <1>0 DEF QueriesInOrder
<1>c. /\ query = 0 => \A j \in Turns : turns[j] = "none"
      /\ ~crowded => \A j \in Turns :
           /\ j < query => turns[j] = "done"
           /\ j = query => turns[j] \in {"live", "resulted", "done"}
           /\ j = query + 1 => turns[j] \in {"none", "asked", "waiting"}
           /\ j > query + 1 => turns[j] = "none"
           /\ turns[j] = "waiting" => waitsFor[j] = query
  BY DEF TurnInv, QueriesInOrder
<1>q. ASSUME NEW i \in Turns, Queried(i), waitsFor' = waitsFor,
             ~crowded' => i = query + 1 /\ (query # 0 => turns[query] = "done")
      PROVE QueriesInOrder'
  <2>1. query' = i /\ turns' = [turns EXCEPT ![i] = "live"] /\ i # 0
    BY <1>0, <1>q DEF Queried
  <2>2. ASSUME ~crowded', NEW j \in Turns
        PROVE /\ j < i => turns'[j] = "done"
              /\ j = i => turns'[j] \in {"live", "resulted", "done"}
              /\ j = i + 1 => turns'[j] \in {"none", "asked", "waiting"}
              /\ j > i + 1 => turns'[j] = "none"
              /\ turns'[j] = "waiting" => waitsFor'[j] = i
    BY <1>0, <1>d, <1>c, <1>q, <2>1, <2>2
  <2> QED
    BY <2>1, <2>2, <1>q, <1>0 DEF QueriesInOrder, Turns
<1>1. ASSUME NEW i \in Turns, SendPrompt(i) PROVE QueriesInOrder'
  <2>1. ~crowded' => /\ ~crowded /\ ~stopped
                     /\ \A j \in Turns : turns[j] \notin {"asked", "waiting", "resulted"}
    BY Zenon, <1>0, <1>d, <1>1 DEF SendPrompt
  <2>2. turns[i] = "none" /\ \A j \in 1 .. (i - 1) : turns[j] # "none"
    BY <1>1 DEF SendPrompt, NextPrompt
  <2>3. ~crowded' => i = query + 1
    <3> SUFFICES ASSUME ~crowded' PROVE i = query + 1
      OBVIOUS
    <3>1. i > query
      BY <1>0, <1>c, <2>1, <2>2
    <3>2. ~(i > query + 1)
      <4> SUFFICES ASSUME i > query + 1 PROVE FALSE
        OBVIOUS
      <4>1. query + 1 \in Turns /\ query + 1 \in 1 .. (i - 1)
        BY <1>0
      <4>2. turns[query + 1] # "none"
        BY <2>2, <4>1
      <4>3. turns[query + 1] \in {"none", "asked", "waiting"}
        BY <1>0, <1>c, <2>1, <4>1
      <4> QED
        BY <2>1, <4>1, <4>2, <4>3
    <3> QED
      BY <1>0, <3>1, <3>2
  <2>4. CASE query = 0 \/ ~Inflight
    <3>1. ~crowded' /\ query # 0 => turns[query] = "done"
      <4> SUFFICES ASSUME ~crowded', query # 0 PROVE turns[query] = "done"
        OBVIOUS
      <4>1. query \in Turns /\ turns[query] \in {"live", "resulted", "done"}
        BY <1>0, <1>c, <2>1
      <4>2. turns[query] # "live"
        BY <2>1, <2>4, <4>1 DEF TurnInv, EndIsFinal, Inflight
      <4> QED
        BY <2>1, <4>1, <4>2
    <3> QED
      BY <1>1, <1>q, <2>3, <2>4, <3>1 DEF SendPrompt
  <2>5. CASE ~(query = 0 \/ ~Inflight)
    <3>1. turns' = [turns EXCEPT ![i] = "asked"] /\ UNCHANGED <<query, waitsFor>>
      BY <1>1, <2>5 DEF SendPrompt
    <3> QED
      BY <1>0, <1>c, <2>1, <2>3, <2>5, <3>1 DEF QueriesInOrder, Turns
  <2> QED
    BY <2>4, <2>5
<1>2. ASSUME NEW i \in Turns, InterruptReturns(i) PROVE QueriesInOrder'
  BY <1>0, <1>d, <1>c, <1>2 DEF QueriesInOrder, InterruptReturns, Turns
<1>3. ASSUME NEW i \in Turns, Drained(i) PROVE QueriesInOrder'
  <2>1. ~crowded' => i = query + 1 /\ (query # 0 => turns[query] = "done")
    BY <1>0, <1>d, <1>c, <1>3 DEF Drained
  <2> QED
    BY <1>3, <1>q, <2>1 DEF Drained
<1>4. ASSUME NEW i \in Turns, turns[i] \in {"live", "resulted"},
             NEW s \in {"resulted", "done"}, turns' = [turns EXCEPT ![i] = s],
             UNCHANGED <<query, waitsFor, crowded>>
      PROVE QueriesInOrder'
  BY <1>0, <1>c, <1>4 DEF QueriesInOrder, Turns
<1>5. CASE UNCHANGED <<adapter, query, turns, waitsFor, crowded>>
  BY <1>0, <1>c, <1>5 DEF QueriesInOrder, Turns
<1>6. ASSUME NEW i \in Turns, NEW s \in {"idle", "errored"}, ResultMessage(i, s)
      PROVE QueriesInOrder'
  BY Zenon, <1>4, <1>6 DEF ResultMessage
<1>7. ASSUME NEW i \in Turns, NEW f \in BOOLEAN, StreamEnds(i, f) PROVE QueriesInOrder'
  BY Zenon, <1>4, <1>7 DEF StreamEnds, Streaming
<1> QED
  BY <1>1, <1>2, <1>3, <1>5, <1>6, <1>7
  DEF TurnsNext, turnVars, AsksPermission, PermissionAnswered, PoisonedHistory, ChainPrompt,
    ChainTurn, ChainReached, ChainTurnEnds, Kill, SessionRemoved

(* A session that is over stays over. *)
LEMMA EndStep == ASSUME TurnInv, [TurnsNext]_turnVars PROVE EndIsFinal'
<1>0. /\ adapter' = adapter /\ adapter \in {"claude", "chain"} /\ state \in States
      /\ turns \in [Turns -> TurnStates]
  BY DEF TurnInv, TurnTypes, TurnsNext, turnVars, SendPrompt, InterruptReturns,
    Drained, ResultMessage, AsksPermission, PermissionAnswered, PoisonedHistory, ChainPrompt,
    ChainTurn, StreamEnds, ChainTurnEnds, Kill, SessionRemoved
<1> SUFFICES ASSUME adapter = "claude" PROVE EndIsFinal'
  BY <1>0 DEF EndIsFinal
<1>s. {"running", "waiting_permission", "completed", "errored", "idle"} \subseteq States
  BY DEF States
<1>e. /\ poisoned => stopped
      /\ stopped = (state = "completed")
      /\ ~crowded /\ ~stopped =>
           \A i \in Turns : turns[i] = "live" => state \in {"running", "waiting_permission"}
      /\ stopped /\ ~crowded /\ ~overtaken =>
           \A i \in Turns : /\ turns[i] \notin {"asked", "waiting"}
                            /\ turns[i] \in {"live", "resulted"} => i \in told
  BY DEF TurnInv, EndIsFinal
<1>q. ~crowded => \A j \in Turns : turns[j] \in {"live", "resulted"} => j = query
  BY TurnsAssumption DEF TurnInv, TurnTypes, QueriesInOrder, Turns
<1>1. ASSUME NEW i \in Turns, SendPrompt(i) PROVE EndIsFinal'
  <2>1. ~crowded' => /\ ~crowded /\ ~stopped
                     /\ \A j \in Turns : turns[j] \notin {"asked", "waiting", "resulted"}
    BY Zenon, <1>1 DEF SendPrompt
  <2>2. UNCHANGED <<stopped, poisoned>>
    BY <1>1 DEF SendPrompt
  <2>3. CASE query = 0 \/ ~Inflight
    <3>1. SetState("running") /\ turns' = [turns EXCEPT ![i] = "live"]
      BY <1>1, <2>3 DEF SendPrompt, Queried
    <3>2. IF stopped THEN state' = "completed" ELSE state' = "running"
      BY Zenon, <1>0, <1>s, <1>e, <3>1, SetStateIs
    <3> QED
      BY Zenon, <1>0, <1>e, <2>1, <2>2, <3>1, <3>2 DEF EndIsFinal
  <2>4. CASE ~(query = 0 \/ ~Inflight)
    <3>1. turns' = [turns EXCEPT ![i] = "asked"] /\ state' = state
      BY <1>1, <2>4 DEF SendPrompt
    <3> QED
      BY <1>0, <1>e, <2>1, <2>2, <3>1 DEF EndIsFinal
  <2> QED
    BY <2>3, <2>4
<1>2. ASSUME NEW i \in Turns, InterruptReturns(i) PROVE EndIsFinal'
  BY <1>0, <1>e, <1>2 DEF EndIsFinal, InterruptReturns
<1>3. ASSUME NEW i \in Turns, Drained(i) PROVE EndIsFinal'
  <2>1. /\ SetState("running") /\ turns' = [turns EXCEPT ![i] = "live"] /\ turns[i] = "waiting"
        /\ UNCHANGED <<stopped, poisoned, crowded, overtaken, told>>
    BY <1>3 DEF Drained, Queried
  <2>2. IF stopped THEN state' = "completed" ELSE state' = "running"
    BY Zenon, <1>0, <1>s, <1>e, <2>1, SetStateIs
  <2> QED
    BY Zenon, <1>0, <1>e, <2>1, <2>2 DEF EndIsFinal
<1>4. ASSUME NEW i \in Turns, turns[i] \in {"live", "resulted"},
             NEW s \in {"resulted", "done"}, turns' = [turns EXCEPT ![i] = s],
             s = "resulted" => turns[i] = "live",
             state' = state \/ SetState("idle") \/ SetState("errored"),
             UNCHANGED <<stopped, poisoned, crowded, overtaken, told>>
      PROVE EndIsFinal'
  <2>1. state' \in {state, "idle", "errored"} /\ (state = "completed" => state' = state)
    BY <1>0, <1>s, <1>4, SetStateIs
  <2>2. ~crowded => \A j \in Turns : turns'[j] # "live"
    BY <1>0, <1>q, <1>4
  <2> QED
    BY <1>0, <1>e, <1>4, <2>1, <2>2 DEF EndIsFinal
<1>5. ASSUME NEW i \in Turns, NEW s \in {"idle", "errored"}, ResultMessage(i, s)
      PROVE EndIsFinal'
  BY Zenon, <1>4, <1>5 DEF ResultMessage
<1>6. ASSUME NEW i \in Turns, NEW f \in BOOLEAN, StreamEnds(i, f) PROVE EndIsFinal'
  BY Zenon, <1>4, <1>6 DEF StreamEnds, Streaming
<1>7. ASSUME NEW i \in Turns, AsksPermission(i) PROVE EndIsFinal'
  <2>1. /\ SetState("waiting_permission") /\ turns[i] = "live"
        /\ UNCHANGED <<turns, stopped, poisoned, crowded, overtaken, told>>
    BY <1>7 DEF AsksPermission
  <2>2. /\ state' \in {state, "waiting_permission"} /\ (state = "completed" => state' = state)
        /\ state \in {"running", "waiting_permission"} => state' = "waiting_permission"
    BY <1>0, <1>s, <2>1, SetStateIs
  <2> QED
    BY <1>0, <1>e, <2>1, <2>2 DEF EndIsFinal
<1>8. ASSUME NEW i \in Turns, PermissionAnswered(i) PROVE EndIsFinal'
  <2>1. /\ SetState("running")
        /\ UNCHANGED <<turns, stopped, poisoned, crowded, overtaken, told>>
    BY <1>8 DEF PermissionAnswered
  <2>2. IF state = "completed" THEN state' = state ELSE state' = "running"
    BY <1>0, <1>s, <2>1, SetStateIs
  <2> QED
    BY <1>0, <1>e, <2>1, <2>2 DEF EndIsFinal
<1>9. ASSUME NEW i \in Turns, PoisonedHistory(i) PROVE EndIsFinal'
  <2>1. /\ SetState("completed") /\ stopped' /\ poisoned' /\ told' = told \cup {query}
        /\ UNCHANGED <<turns, crowded>>
        /\ ~overtaken' => \A j \in Turns : turns[j] \notin {"asked", "waiting"}
    BY Zenon, <1>9 DEF PoisonedHistory
  <2>2. state' = "completed"
    BY <1>0, <1>s, <2>1, SetStateIs
  <2>3. stopped' = TRUE
    BY <1>9 DEF PoisonedHistory
  <2> QED
    BY Zenon, <1>0, <1>q, <2>1, <2>2, <2>3 DEF EndIsFinal
<1>10. CASE Kill
  <2>1. /\ SetState("completed") /\ stopped' /\ told' = told \cup ({query} \ {0})
        /\ UNCHANGED <<turns, crowded>>
        /\ ~overtaken' => \A j \in Turns : turns[j] \notin {"asked", "waiting"}
    BY Zenon, <1>0, <1>10 DEF Kill
  <2>2. state' = "completed"
    BY <1>0, <1>s, <2>1, SetStateIs
  <2>3. stopped' = TRUE
    BY <1>10 DEF Kill
  <2>4. 0 \notin Turns
    BY TurnsAssumption DEF Turns
  <2> QED
    BY Zenon, <1>0, <1>q, <2>1, <2>2, <2>3, <2>4 DEF EndIsFinal
<1>11. CASE UNCHANGED <<adapter, state, turns, told, poisoned, stopped, crowded, overtaken>>
  BY <1>0, <1>e, <1>11 DEF EndIsFinal
<1> QED
  BY <1>1, <1>2, <1>3, <1>5, <1>6, <1>7, <1>8, <1>9, <1>10, <1>11
  DEF TurnsNext, turnVars, ChainPrompt, ChainTurn, ChainReached, ChainTurnEnds, SessionRemoved

(* One turn at a time follows from the invariant. *)
LEMMA TurnsHold == TurnInv => TurnsOneByOne
<1> SUFFICES ASSUME TurnInv PROVE TurnsOneByOne
  OBVIOUS
<1> USE TurnsAssumption DEF TurnInv
<1>1. ASSUME adapter = "chain" \/ ~crowded
      PROVE \A i \in Streaming : i = query /\ \A j \in Turns : j < i => turns[j] = "done"
  BY <1>1 DEF Streaming, ChainInOrder, QueriesInOrder, TurnTypes, Turns
<1>2. ASSUME adapter = "chain" \/ ~crowded PROVE Cardinality(Streaming) <= 1
  <2>1. Streaming \subseteq {query}
    BY <1>1, <1>2
  <2>2. IsFiniteSet({query}) /\ Cardinality({query}) = 1
    BY Zenon, FS_Singleton
  <2>3. Cardinality(Streaming) <= Cardinality({query})
    BY <2>1, <2>2, FS_Subset
  <2> QED
    BY <2>2, <2>3
<1>3. ASSUME adapter = "chain" \/ ~crowded, state = "idle"
      PROVE \A i \in Turns : turns[i] # "live"
  BY Zenon, <1>3 DEF ChainInOrder, EndIsFinal, TurnTypes
<1>4. adapter = "claude" /\ stopped /\ ~crowded /\ ~overtaken => Streaming \subseteq told
  BY DEF Streaming, EndIsFinal
<1> QED
  BY <1>1, <1>2, <1>3, <1>4 DEF TurnsOneByOne

(* The turns of a session run one by one, in the order they were asked for, with
   either kind of adapter and any number of turns (TurnsOneByOne of AgentTurns). *)
THEOREM TurnsTakeTurns == TurnsSpec => []TurnsOneByOne
<1>1. TurnsInit => TurnInv
  <2> SUFFICES ASSUME TurnsInit PROVE TurnInv
    OBVIOUS
  <2> USE TurnsAssumption DEF TurnsInit, Turns
  <2>1. TurnTypes
    BY DEF TurnTypes, States, TurnStates
  <2>2. ChainInOrder
    BY DEF ChainInOrder
  <2>3. QueriesInOrder
    BY DEF QueriesInOrder
  <2>4. EndIsFinal
    BY Zenon DEF EndIsFinal
  <2> QED
    BY <2>1, <2>2, <2>3, <2>4 DEF TurnInv
<1>2. TurnInv /\ [TurnsNext]_turnVars => TurnInv'
  BY TurnTypesStep, ChainStep, QueriesStep, EndStep DEF TurnInv
<1> QED
  BY <1>1, <1>2, TurnsHold, PTL DEF TurnsSpec

-----------------------------------------------------------------------------
(* The sessions of the manager *)

(* What the manager keeps of an incarnation; the shape of all of them. *)
AgentFields == {"id", "phase", "mode", "auto", "runs", "prompt"}
AgentsMade ==
  /\ DOMAIN agents = Incarnations
  /\ \A i \in Incarnations : DOMAIN agents[i] = AgentFields
  /\ agents = [i \in Incarnations |-> agents[i]]

(* The ids and modes the manager keeps, and which incarnation is in its map. *)
SessionTypes ==
  /\ AgentsMade
  /\ \A i \in Incarnations :
       /\ agents[i].id \in SessionIds \cup {"none"} /\ agents[i].mode \in Modes
       /\ agents[i].phase = "none" => agents[i].id = "none"
       /\ agents[i].phase # "none" => agents[i].id \in SessionIds
  /\ active \in [SessionIds -> 0 .. MaxStarts]
  /\ shown \in [SessionIds -> Modes \cup {"none"}]
  /\ enforced \in [SessionIds -> Modes \cup {"none"}]

(* What is so of an id whose starts do not overlap, while the daemon is up. *)
OneStart(s) ==
  /\ \A i, j \in Incarnations :
       /\ agents[i].id = s /\ agents[j].id = s
       /\ agents[i].phase # "ended" /\ agents[j].phase # "ended"
       => i = j
  /\ \A i \in Incarnations : agents[i].id = s =>
       /\ agents[i].phase = "starting" => enforced[s] = agents[i].mode
       /\ agents[i].phase = "live" =>
            active[s] = i /\ shown[s] = enforced[s] /\ shown[s] # "none"
       /\ active[s] = i => agents[i].phase \in {"live", "flushing"}
  /\ active[s] # 0 => agents[active[s]].id = s

(* No session is being shut down: that is the daemon's stopping. *)
NoneClosing == \A i \in Incarnations : agents[i].phase # "closing"

(* A prompt is asked of an agent that was started. *)
PromptsLaunched == \A i \in Incarnations : agents[i].prompt => agents[i].phase # "none"

(* While the daemon is up, a session that was never started twice has one agent. *)
StartsHold ==
  /\ SessionTypes
  /\ daemonUp = "up" => NoneClosing /\ \A s \in SessionIds \ mixed : OneStart(s)

(* The manager's inductive invariant. *)
SessionsInv == StartsHold /\ PromptsLaunched

(* What one incarnation's phase changes. *)
LEMMA PhaseIs ==
  ASSUME AgentsMade, NEW i \in Incarnations, NEW p, Phase(i, p)
  PROVE /\ AgentsMade' /\ agents'[i].phase = p
        /\ \A j \in Incarnations :
             /\ j # i => agents'[j].phase = agents[j].phase
             /\ agents'[j].id = agents[j].id /\ agents'[j].mode = agents[j].mode
  BY DEF AgentsMade, AgentFields, Phase, Of

(* What starting an agent changes. *)
LEMMA StartedIs ==
  ASSUME AgentsMade, NEW i \in Incarnations, NEW p, NEW r,
         agents' = [agents EXCEPT ![i].phase = p, ![i].runs = r, ![i].prompt = TRUE]
         \/ agents' = [agents EXCEPT ![i].phase = p, ![i].runs = r]
  PROVE /\ AgentsMade' /\ agents'[i].phase = p
        /\ \A j \in Incarnations :
             /\ j # i => agents'[j].phase = agents[j].phase
             /\ agents'[j].id = agents[j].id /\ agents'[j].mode = agents[j].mode
  BY DEF AgentsMade, AgentFields, Of

(* What a prompt's end with a flush changes. *)
LEMMA PromptGone ==
  ASSUME AgentsMade, NEW i \in Incarnations, NEW a \in Incarnations,
         agents' = [agents EXCEPT ![i].prompt = FALSE, ![a].phase = "flushing"]
  PROVE /\ AgentsMade' /\ agents'[a].phase = "flushing"
        /\ \A j \in Incarnations :
             /\ j # a => agents'[j].phase = agents[j].phase
             /\ agents'[j].id = agents[j].id /\ agents'[j].mode = agents[j].mode
<1> DEFINE mid == [agents EXCEPT ![i].prompt = FALSE]
<1>1. /\ DOMAIN mid = Incarnations /\ \A j \in Incarnations : DOMAIN mid[j] = AgentFields
      /\ \A j \in Incarnations :
           /\ mid[j].phase = agents[j].phase /\ mid[j].id = agents[j].id
           /\ mid[j].mode = agents[j].mode
  BY DEF AgentsMade, AgentFields
<1>2. agents' = [mid EXCEPT ![a].phase = "flushing"]
  OBVIOUS
<1> HIDE DEF mid
<1>3. DOMAIN agents' = Incarnations /\ agents' = [j \in Incarnations |-> agents'[j]]
  BY Zenon, <1>1, <1>2
<1>4. ASSUME NEW j \in Incarnations
      PROVE /\ DOMAIN agents'[j] = AgentFields
            /\ agents'[j].phase = IF j = a THEN "flushing" ELSE mid[j].phase
            /\ agents'[j].id = mid[j].id /\ agents'[j].mode = mid[j].mode
  <2>1. CASE j = a
    <3>1. agents'[j] = [mid[a] EXCEPT !.phase = "flushing"]
      BY Zenon, <1>1, <1>2, <2>1
    <3>2. DOMAIN mid[a] = AgentFields
      BY <1>1
    <3> QED
      BY <2>1, <3>1, <3>2 DEF AgentFields
  <2>2. CASE j # a
    <3>1. agents'[j] = mid[j]
      BY Zenon, <1>1, <1>2, <2>2
    <3> QED
      BY <1>1, <2>2, <3>1
  <2> QED
    BY <2>1, <2>2
<1>5. AgentsMade'
  BY <1>3, <1>4 DEF AgentsMade
<1>6. ASSUME NEW j \in Incarnations
      PROVE /\ agents'[j].phase = IF j = a THEN "flushing" ELSE agents[j].phase
            /\ agents'[j].mode = agents[j].mode
  <2>1. mid[j].phase = agents[j].phase /\ mid[j].mode = agents[j].mode
    BY <1>1
  <2>2. agents'[j].phase = IF j = a THEN "flushing" ELSE mid[j].phase
    BY Zenon, <1>4
  <2>3. agents'[j].mode = mid[j].mode
    BY Zenon, <1>4
  <2> QED
    BY <2>1, <2>2, <2>3
<1>7. \A j \in Incarnations : agents'[j].id = agents[j].id
  BY Zenon, <1>1, <1>4 DEF Of
<1> QED
  BY Zenon, <1>5, <1>6, <1>7

(* What a prompt's end changes. *)
LEMMA PromptOver ==
  ASSUME AgentsMade, NEW i \in Incarnations,
         agents' = [agents EXCEPT ![i].prompt = FALSE]
  PROVE /\ AgentsMade'
        /\ \A j \in Incarnations :
             /\ agents'[j].phase = agents[j].phase
             /\ agents'[j].id = agents[j].id /\ agents'[j].mode = agents[j].mode
  BY Zenon DEF AgentsMade, AgentFields, Of

(* What an allowed tool changes. *)
LEMMA AutoIs ==
  ASSUME AgentsMade, NEW a, NEW t, agents' = [agents EXCEPT ![a].auto = @ \cup {t}]
  PROVE /\ AgentsMade'
        /\ \A j \in Incarnations :
             /\ agents'[j].phase = agents[j].phase /\ agents'[j].id = agents[j].id
             /\ agents'[j].mode = agents[j].mode
  BY Zenon DEF AgentsMade, AgentFields, Of

(* What the shutdown changes of the agents in the map. *)
LEMMA ClosingIs ==
  ASSUME AgentsMade,
         agents' = [i \in Incarnations |->
           IF agents[i].phase = "live" /\ active[agents[i].id] = i
           THEN [agents[i] EXCEPT !.phase = "closing"] ELSE agents[i]]
  PROVE /\ AgentsMade'
        /\ \A j \in Incarnations :
             /\ agents'[j].phase = "none" <=> agents[j].phase = "none"
             /\ agents'[j].id = agents[j].id /\ agents'[j].mode = agents[j].mode
<1>1. \A j \in Incarnations :
        IF agents[j].phase = "live" /\ active[agents[j].id] = j
        THEN agents'[j] = [agents[j] EXCEPT !.phase = "closing"] ELSE agents'[j] = agents[j]
  OBVIOUS
<1>2. DOMAIN agents' = Incarnations /\ agents' = [j \in Incarnations |-> agents'[j]]
  OBVIOUS
<1>3. \A j \in Incarnations : DOMAIN agents'[j] = AgentFields
  BY <1>1 DEF AgentsMade
<1>4. ASSUME NEW j \in Incarnations
      PROVE /\ agents'[j].phase = "none" <=> agents[j].phase = "none"
            /\ agents'[j].id = agents[j].id /\ agents'[j].mode = agents[j].mode
  <2>1. CASE agents[j].phase = "live" /\ active[agents[j].id] = j
    BY <1>1, <2>1 DEF AgentsMade, AgentFields
  <2>2. CASE ~(agents[j].phase = "live" /\ active[agents[j].id] = j)
    BY <1>1, <2>2
  <2> QED
    BY <2>1, <2>2
<1> QED
  BY <1>2, <1>3, <1>4 DEF AgentsMade, Of

(* What an agent's end during the shutdown changes. *)
LEMMA ClosedIs ==
  ASSUME AgentsMade, NEW i \in Incarnations,
         agents' = [agents EXCEPT ![i].runs = FALSE,
                                  ![i].phase = IF @ = "closing" THEN "ended" ELSE @]
  PROVE /\ AgentsMade'
        /\ \A j \in Incarnations :
             /\ agents'[j].phase = "none" <=> agents[j].phase = "none"
             /\ agents'[j].id = agents[j].id /\ agents'[j].mode = agents[j].mode
<1> DEFINE p == IF agents[i].phase = "closing" THEN "ended" ELSE agents[i].phase
<1>1. agents' = [agents EXCEPT ![i].phase = p, ![i].runs = FALSE]
  BY Zenon DEF AgentsMade, AgentFields
<1>2. p = "none" <=> agents[i].phase = "none"
  OBVIOUS
<1> HIDE DEF p
<1> QED
  BY <1>1, <1>2 DEF AgentsMade, AgentFields, Of

(* Steps that move no incarnation to another session keep the types. *)
LEMMA TypesKept ==
  ASSUME SessionTypes, AgentsMade',
         \A j \in Incarnations :
           /\ agents'[j].phase = "none" <=> agents[j].phase = "none"
           /\ agents'[j].id = agents[j].id /\ agents'[j].mode = agents[j].mode,
         active' \in [SessionIds -> 0 .. MaxStarts],
         shown' \in [SessionIds -> Modes \cup {"none"}],
         enforced' \in [SessionIds -> Modes \cup {"none"}]
  PROVE SessionTypes'
<1>1. ASSUME NEW i \in Incarnations
      PROVE /\ agents'[i].id \in SessionIds \cup {"none"} /\ agents'[i].mode \in Modes
            /\ agents'[i].phase = "none" => agents'[i].id = "none"
            /\ agents'[i].phase # "none" => agents'[i].id \in SessionIds
  BY DEF SessionTypes
<1> QED
  BY <1>1 DEF SessionTypes

(* Every step of the manager keeps one agent to a session. *)
LEMMA SessionsStep == ASSUME SessionsInv, [SessionsNext]_sessionVars PROVE StartsHold'
<1> USE StartsAssumption
<1>0. /\ SessionTypes /\ AgentsMade /\ Incarnations = 1 .. MaxStarts
      /\ active \in [SessionIds -> 0 .. MaxStarts]
      /\ shown \in [SessionIds -> Modes \cup {"none"}]
      /\ enforced \in [SessionIds -> Modes \cup {"none"}]
  BY DEF SessionsInv, StartsHold, SessionTypes, Incarnations
<1>m. AgentsMade
  BY <1>0
<1>a. \A i \in Incarnations :
        /\ agents[i].id \in SessionIds \cup {"none"} /\ agents[i].mode \in Modes
        /\ agents[i].phase # "none" => agents[i].id \in SessionIds
        /\ agents[i].phase = "none" => agents[i].id = "none"
  BY DEF SessionsInv, StartsHold, SessionTypes, Of
<1>u. ASSUME daemonUp = "up", NEW s \in SessionIds \ mixed
      PROVE /\ \A i, j \in Incarnations :
                 agents[i].id = s /\ agents[j].id = s /\ agents[i].phase # "ended"
                   /\ agents[j].phase # "ended" => i = j
            /\ \A i \in Incarnations : agents[i].id = s =>
                 /\ agents[i].phase = "starting" => enforced[s] = agents[i].mode
                 /\ agents[i].phase = "live" =>
                      active[s] = i /\ shown[s] = enforced[s] /\ shown[s] # "none"
                 /\ active[s] = i => agents[i].phase \in {"live", "flushing"}
            /\ active[s] # 0 => agents[active[s]].id = s
  BY <1>u DEF SessionsInv, StartsHold, OneStart, Of
<1>n. daemonUp = "up" => \A i \in Incarnations : agents[i].phase # "closing"
  BY DEF SessionsInv, StartsHold, NoneClosing
<1>1. ASSUME NEW i \in Incarnations, NEW s \in SessionIds, NEW m \in Modes, Begin(i, s, m)
      PROVE StartsHold'
  <2>1. /\ AgentsMade' /\ agents'[i].phase = "setup" /\ agents'[i].id = s /\ agents'[i].mode = m
        /\ \A j \in Incarnations \ {i} : agents'[j] = agents[j] /\ agents'[j].id = agents[j].id
    <3>1. agents' = [agents EXCEPT ![i] =
            [Unstarted EXCEPT !.id = s, !.phase = "setup", !.mode = m, !.auto = AutoTools]]
      BY <1>1 DEF Begin, Of
    <3>2. agents'[i].phase = "setup" /\ agents'[i].id = s /\ agents'[i].mode = m
      BY Zenon, <1>m, <3>1 DEF AgentsMade, Unstarted
    <3> QED
      BY <1>m, <3>1, <3>2 DEF AgentsMade, AgentFields, Unstarted
  <2>2. /\ UNCHANGED <<active, shown, enforced, daemonUp>> /\ agents[i].phase = "none"
        /\ mixed' = IF \E j \in Incarnations : agents[j].id = s /\ agents[j].phase # "ended"
                    THEN mixed \cup {s} ELSE mixed
    BY <1>1 DEF Begin, Of
  <2>3. SessionTypes'
    <3>1. ASSUME NEW j \in Incarnations
          PROVE /\ agents'[j].id \in SessionIds \cup {"none"} /\ agents'[j].mode \in Modes
                /\ agents'[j].phase = "none" => agents'[j].id = "none"
                /\ agents'[j].phase # "none" => agents'[j].id \in SessionIds
      BY <1>a, <2>1
    <3> QED
      BY <1>0, <2>1, <2>2, <3>1 DEF SessionTypes
  <2>4. ASSUME daemonUp' = "up", NEW t \in SessionIds \ mixed' PROVE OneStart(t)'
    <3>1. daemonUp = "up" /\ t \in SessionIds \ mixed
      BY <2>2, <2>4
    <3>2. t = s => \A j \in Incarnations : agents[j].id = s => agents[j].phase = "ended"
      BY <2>2, <2>4
    <3>3. /\ \A x, y \in Incarnations :
                 agents'[x].id = t /\ agents'[y].id = t /\ agents'[x].phase # "ended"
                   /\ agents'[y].phase # "ended" => x = y
      BY <1>u, <2>1, <3>1, <3>2
    <3>4. agents[i].id = "none"
      BY <1>a, <2>2
    <3>5. \A x \in Incarnations : agents'[x].id = t =>
                 /\ agents'[x].phase = "starting" => enforced[t] = agents'[x].mode
                 /\ agents'[x].phase = "live" =>
                      active[t] = x /\ shown[t] = enforced[t] /\ shown[t] # "none"
                 /\ active[t] = x => agents'[x].phase \in {"live", "flushing"}
      BY <1>0, <1>u, <2>1, <2>2, <3>1, <3>2, <3>4
    <3>6. active[t] # 0 => agents'[active'[t]].id = t
      BY <1>0, <1>u, <2>1, <2>2, <3>1, <3>4
    <3> QED
      BY <2>2, <3>3, <3>5, <3>6 DEF OneStart
  <2> QED
    BY <1>n, <2>1, <2>2, <2>3, <2>4 DEF StartsHold, NoneClosing
\* The steps that move one start to a new phase.
<1>p. ASSUME NEW i \in Incarnations, AgentsMade', agents[i].phase # "none",
             \A j \in Incarnations :
               /\ j # i => agents'[j].phase = agents[j].phase
               /\ agents'[j].id = agents[j].id /\ agents'[j].mode = agents[j].mode,
             UNCHANGED <<daemonUp, mixed>>, 
             agents'[i].phase # "none", agents'[i].phase # "closing",
             \A s \in SessionIds \ {agents[i].id} :
               active'[s] = active[s] /\ shown'[s] = shown[s] /\ enforced'[s] = enforced[s],
             active' \in [SessionIds -> 0 .. MaxStarts],
             shown' \in [SessionIds -> Modes \cup {"none"}],
             enforced' \in [SessionIds -> Modes \cup {"none"}],
             daemonUp = "up" /\ agents[i].id \in SessionIds \ mixed =>
               /\ agents[i].phase # "ended"
               /\ agents'[i].phase = "starting" => enforced'[agents[i].id] = agents[i].mode
               /\ agents'[i].phase = "live" => /\ active'[agents[i].id] = i
                                /\ shown'[agents[i].id] = enforced'[agents[i].id]
                                /\ shown'[agents[i].id] # "none"
               /\ active'[agents[i].id] = i => agents'[i].phase \in {"live", "flushing"}
               /\ active'[agents[i].id] \in {0, i}
      PROVE StartsHold'
  <2>1. SessionTypes'
    <3>1. \A j \in Incarnations :
           /\ agents'[j].phase = "none" <=> agents[j].phase = "none"
           /\ agents'[j].id = agents[j].id /\ agents'[j].mode = agents[j].mode
      BY <1>p
    <3> QED
      BY <1>0, <1>p, <3>1, TypesKept
  <2>2. ASSUME daemonUp' = "up", NEW t \in SessionIds \ mixed' PROVE OneStart(t)'
    <3>1. daemonUp = "up" /\ t \in SessionIds \ mixed
      BY <1>p, <2>2
    <3>2. CASE t # agents[i].id
      <4>1. /\ active'[t] = active[t] /\ shown'[t] = shown[t] /\ enforced'[t] = enforced[t]
            /\ \A j \in Incarnations : agents[j].id = t => agents'[j].phase = agents[j].phase
        BY <1>p, <3>1, <3>2
      <4> QED
        <5>1. \A x, y \in Incarnations :
                 agents'[x].id = t /\ agents'[y].id = t /\ agents'[x].phase # "ended"
                   /\ agents'[y].phase # "ended" => x = y
          BY <1>p, <1>u, <3>1, <3>2, <4>1
        <5>2. \A x \in Incarnations : agents'[x].id = t =>
                 /\ agents'[x].phase = "starting" => enforced'[t] = agents'[x].mode
                 /\ agents'[x].phase = "live" =>
                      active'[t] = x /\ shown'[t] = enforced'[t] /\ shown'[t] # "none"
                 /\ active'[t] = x => agents'[x].phase \in {"live", "flushing"}
          BY <1>p, <1>u, <3>1, <3>2, <4>1
        <5>3. active'[t] # 0 => agents'[active'[t]].id = t
          <6>1. active[t] \in 0 .. MaxStarts /\ (active[t] # 0 => agents[active[t]].id = t)
            BY <1>0, <1>u, <3>1
          <6> QED
            BY <1>0, <1>p, <4>1, <6>1
        <5> QED
          BY <5>1, <5>2, <5>3 DEF OneStart
    <3>3. CASE t = agents[i].id
      <4>1. \A x, y \in Incarnations :
                 agents'[x].id = t /\ agents'[y].id = t /\ agents'[x].phase # "ended"
                   /\ agents'[y].phase # "ended" => x = y
        BY <1>p, <1>u, <3>1, <3>3
      <4>2. \A x \in Incarnations : x # i /\ agents'[x].id = t => agents'[x].phase = "ended"
        BY <1>p, <1>u, <3>1, <3>3
      <4>3. \A x \in Incarnations : agents'[x].id = t =>
                 /\ agents'[x].phase = "starting" => enforced'[t] = agents'[x].mode
                 /\ agents'[x].phase = "live" =>
                      active'[t] = x /\ shown'[t] = enforced'[t] /\ shown'[t] # "none"
                 /\ active'[t] = x => agents'[x].phase \in {"live", "flushing"}
        BY <1>0, <1>p, <3>1, <3>3, <4>2
      <4>4. active'[t] # 0 => agents'[active'[t]].id = t
        BY <1>p, <3>1, <3>3
      <4> QED
        BY <1>p, <4>1, <4>3, <4>4 DEF OneStart
    <3> QED
      BY <3>2, <3>3
  <2>3. daemonUp' = "up" => NoneClosing'
    BY <1>n, <1>p DEF NoneClosing
  <2> QED
    BY <2>1, <2>2, <2>3 DEF StartsHold
\* The steps that change no phase.
<1>k. ASSUME AgentsMade',
             \A j \in Incarnations :
               /\ agents'[j].phase = agents[j].phase
               /\ agents'[j].id = agents[j].id /\ agents'[j].mode = agents[j].mode,
             UNCHANGED <<daemonUp, mixed, active>>,
             shown' \in [SessionIds -> Modes \cup {"none"}],
             enforced' \in [SessionIds -> Modes \cup {"none"}],
             \A s \in SessionIds :
               \/ shown'[s] = shown[s] /\ enforced'[s] = enforced[s]
               \/ active[s] # 0 /\ shown'[s] = enforced'[s] /\ shown'[s] # "none"
      PROVE StartsHold'
  <2>1. SessionTypes'
    <3>1. \A j \in Incarnations :
           /\ agents'[j].phase = "none" <=> agents[j].phase = "none"
           /\ agents'[j].id = agents[j].id /\ agents'[j].mode = agents[j].mode
      BY <1>k
    <3> QED
      BY <1>0, <1>k, <3>1, TypesKept
  <2>2. ASSUME daemonUp' = "up", NEW t \in SessionIds \ mixed' PROVE OneStart(t)'
    <3>1. daemonUp = "up" /\ t \in SessionIds \ mixed
      BY <1>k, <2>2
    <3>0. /\ \A x, y \in Incarnations :
                agents'[x].id = t /\ agents'[y].id = t /\ agents'[x].phase # "ended"
                  /\ agents'[y].phase # "ended" => x = y
          /\ active'[t] # 0 => agents'[active'[t]].id = t
      <4>1. active[t] \in 0 .. MaxStarts /\ (active[t] # 0 => agents[active[t]].id = t)
        BY <1>0, <1>u, <3>1
      <4>2. \A x, y \in Incarnations :
              agents[x].id = t /\ agents[y].id = t /\ agents[x].phase # "ended"
                /\ agents[y].phase # "ended" => x = y
        BY <1>u, <3>1
      <4> QED
        BY <1>0, <1>k, <4>1, <4>2
    <3>2. CASE active[t] = 0
      <4>1. shown'[t] = shown[t] /\ enforced'[t] = enforced[t] /\ active'[t] = active[t]
        BY <1>k, <3>1, <3>2
      <4>2. \A x \in Incarnations : agents'[x].id = t =>
                 /\ agents'[x].phase = "starting" => enforced'[t] = agents'[x].mode
                 /\ agents'[x].phase = "live" =>
                      active'[t] = x /\ shown'[t] = enforced'[t] /\ shown'[t] # "none"
                 /\ active'[t] = x => agents'[x].phase \in {"live", "flushing"}
        BY <1>k, <1>u, <3>1, <4>1
      <4> QED
        BY <3>0, <4>2 DEF OneStart
    <3>3. CASE active[t] # 0
      <4>1. active[t] \in Incarnations /\ agents[active[t]].id = t
        BY <1>0, <1>u, <3>1, <3>3
      <4>2. agents[active[t]].phase \in {"live", "flushing"}
        BY <1>u, <3>1, <4>1
      <4>3. \A x \in Incarnations : agents[x].id = t => agents[x].phase # "starting"
        BY <1>u, <3>1, <4>1, <4>2
      <4>4. /\ active'[t] = active[t]
            /\ \/ shown'[t] = shown[t] /\ enforced'[t] = enforced[t]
               \/ shown'[t] = enforced'[t] /\ shown'[t] # "none"
        BY <1>k, <3>1
      <4>5. \A x \in Incarnations : agents'[x].id = t =>
                 /\ agents'[x].phase = "starting" => enforced'[t] = agents'[x].mode
                 /\ agents'[x].phase = "live" =>
                      active'[t] = x /\ shown'[t] = enforced'[t] /\ shown'[t] # "none"
                 /\ active'[t] = x => agents'[x].phase \in {"live", "flushing"}
        BY <1>k, <1>u, <3>1, <4>3, <4>4
      <4> QED
        BY <3>0, <4>5 DEF OneStart
    <3> QED
      BY <3>2, <3>3
  <2>3. daemonUp' = "up" => NoneClosing'
    BY <1>n, <1>k DEF NoneClosing
  <2> QED
    BY <2>1, <2>2, <2>3 DEF StartsHold
<1>2. ASSUME NEW i \in Incarnations, SetUp(i) PROVE StartsHold'
  <2>1. /\ agents[i].phase = "setup" /\ Phase(i, "starting")
        /\ UNCHANGED <<active, shown, daemonUp, mixed>>
        /\ enforced' = [enforced EXCEPT ![agents[i].id] = agents[i].mode]
    BY <1>2 DEF SetUp, Of
  <2>2. daemonUp = "up" /\ agents[i].id \in SessionIds \ mixed => active[agents[i].id] = 0
    BY SMTT(30), <1>0, <1>u, <2>1
  <2>3. agents[i].id \in SessionIds /\ agents[i].mode \in Modes
    BY <1>a, <2>1
  <2>4. AgentsMade' /\ agents'[i].phase = "starting"
        /\ \A j \in Incarnations :
             /\ j # i => agents'[j].phase = agents[j].phase
             /\ agents'[j].id = agents[j].id /\ agents'[j].mode = agents[j].mode
    BY <1>m, <2>1, PhaseIs
  <2>5. enforced' \in [SessionIds -> Modes \cup {"none"}]
    BY <1>0, <2>1, <2>3
  <2>6. /\ enforced'[agents[i].id] = agents[i].mode
        /\ \A s \in SessionIds \ {agents[i].id} : enforced'[s] = enforced[s]
    BY <1>0, <2>1, <2>3
  <2>9. daemonUp = "up" /\ agents[i].id \in SessionIds \ mixed =>
          /\ agents[i].phase # "ended"
          /\ agents'[i].phase = "starting" => enforced'[agents[i].id] = agents[i].mode
          /\ agents'[i].phase = "live" =>
               /\ active'[agents[i].id] = i
               /\ shown'[agents[i].id] = enforced'[agents[i].id]
               /\ shown'[agents[i].id] # "none"
          /\ active'[agents[i].id] = i => agents'[i].phase \in {"live", "flushing"}
          /\ active'[agents[i].id] \in {0, i}
    BY <1>0, <2>1, <2>2, <2>3, <2>4, <2>6
  <2>q. agents'[i].phase \notin {"none", "closing"} /\ agents[i].phase # "none"
    BY <1>0, <2>1, <2>2, <2>3, <2>4, <2>6
  <2> QED
    BY <2>9, <2>q, <1>0, <1>p, <2>1, <2>2, <2>3, <2>4, <2>5, <2>6
<1>3. ASSUME NEW i \in Incarnations, AgentStarted(i) PROVE StartsHold'
  <2>1. /\ agents[i].phase = "starting" /\ UNCHANGED <<enforced, daemonUp, mixed>>
        /\ agents' = [agents EXCEPT ![i].phase = "live", ![i].runs = TRUE, ![i].prompt = TRUE]
        /\ active' = [active EXCEPT ![agents[i].id] = i]
        /\ shown' = [shown EXCEPT ![agents[i].id] = agents[i].mode]
    BY <1>3 DEF AgentStarted, Of
  <2>2. agents[i].id \in SessionIds /\ agents[i].mode \in Modes /\ "none" \notin Modes
    BY <1>a, <2>1 DEF Modes
  <2>3. daemonUp = "up" /\ agents[i].id \in SessionIds \ mixed =>
          enforced[agents[i].id] = agents[i].mode
    BY <1>u, <2>1
  <2>4. AgentsMade' /\ agents'[i].phase = "live"
        /\ \A j \in Incarnations :
             /\ j # i => agents'[j].phase = agents[j].phase
             /\ agents'[j].id = agents[j].id /\ agents'[j].mode = agents[j].mode
    BY Zenon, <1>m, <2>1, StartedIs
  <2>6. /\ active' \in [SessionIds -> 0 .. MaxStarts]
        /\ shown' \in [SessionIds -> Modes \cup {"none"}]
    BY <1>0, <2>1, <2>2
  <2>7. active'[agents[i].id] = i /\ shown'[agents[i].id] = agents[i].mode
    BY <1>0, <2>1, <2>2
  <2>8. \A s \in SessionIds \ {agents[i].id} : active'[s] = active[s] /\ shown'[s] = shown[s]
    BY <1>0, <2>1
  <2>9. daemonUp = "up" /\ agents[i].id \in SessionIds \ mixed =>
          /\ agents[i].phase # "ended"
          /\ agents'[i].phase = "starting" => enforced'[agents[i].id] = agents[i].mode
          /\ agents'[i].phase = "live" =>
               /\ active'[agents[i].id] = i
               /\ shown'[agents[i].id] = enforced'[agents[i].id]
               /\ shown'[agents[i].id] # "none"
          /\ active'[agents[i].id] = i => agents'[i].phase \in {"live", "flushing"}
          /\ active'[agents[i].id] \in {0, i}
    BY <1>0, <2>1, <2>2, <2>3, <2>4, <2>7
  <2>q. agents'[i].phase \notin {"none", "closing"} /\ agents[i].phase # "none"
    BY <1>0, <2>1, <2>2, <2>3, <2>4, <2>7
  <2> QED
    BY Zenon, <2>9, <2>q, <1>0, <1>p, <2>1, <2>2, <2>3, <2>4, <2>6, <2>7, <2>8
<1>4. ASSUME NEW i \in Incarnations, StartFails(i) PROVE StartsHold'
  <2>1. /\ agents[i].phase = "starting" /\ Phase(i, "ended")
        /\ UNCHANGED <<active, shown, daemonUp, mixed>>
        /\ enforced' = [enforced EXCEPT ![agents[i].id] = "none"]
    BY <1>4 DEF StartFails, Of
  <2>2. daemonUp = "up" /\ agents[i].id \in SessionIds \ mixed => active[agents[i].id] = 0
    <3> SUFFICES ASSUME daemonUp = "up", agents[i].id \in SessionIds \ mixed
                 PROVE  active[agents[i].id] = 0
      OBVIOUS
    <3> DEFINE j == active[agents[i].id]
    <3>1. j # 0 => j \in Incarnations
      BY <1>0 DEF Incarnations
    <3>2. j # 0 => agents[j].id = agents[i].id
      BY <1>u
    <3> HIDE DEF j
    <3>3. j # 0 => agents[j].phase \in {"live", "flushing"}
      BY <1>u, <3>1, <3>2 DEF j
    <3>4. j # 0 => i = j
      BY <1>u, <2>1, <3>1, <3>2, <3>3
    <3> QED
      BY <2>1, <3>3, <3>4 DEF j
  <2>3. agents[i].id \in SessionIds
    BY <1>a, <2>1
  <2>4. AgentsMade' /\ agents'[i].phase = "ended"
        /\ \A j \in Incarnations :
             /\ j # i => agents'[j].phase = agents[j].phase
             /\ agents'[j].id = agents[j].id /\ agents'[j].mode = agents[j].mode
    BY <1>m, <2>1, PhaseIs
  <2>5. enforced' \in [SessionIds -> Modes \cup {"none"}]
    BY <1>0, <2>1, <2>3
  <2>6. /\ enforced'[agents[i].id] = "none"
        /\ \A s \in SessionIds \ {agents[i].id} : enforced'[s] = enforced[s]
    BY <1>0, <2>1, <2>3
  <2>9. daemonUp = "up" /\ agents[i].id \in SessionIds \ mixed =>
          /\ agents[i].phase # "ended"
          /\ agents'[i].phase = "starting" => enforced'[agents[i].id] = agents[i].mode
          /\ agents'[i].phase = "live" =>
               /\ active'[agents[i].id] = i
               /\ shown'[agents[i].id] = enforced'[agents[i].id]
               /\ shown'[agents[i].id] # "none"
          /\ active'[agents[i].id] = i => agents'[i].phase \in {"live", "flushing"}
          /\ active'[agents[i].id] \in {0, i}
    BY <1>0, <2>1, <2>2, <2>3, <2>4, <2>6
  <2>q. agents'[i].phase \notin {"none", "closing"} /\ agents[i].phase # "none"
    BY <1>0, <2>1, <2>2, <2>3, <2>4, <2>6
  <2> QED
    BY Zenon, <2>9, <2>q, <1>0, <1>p, <2>1, <2>2, <2>3, <2>4, <2>5, <2>6
<1>5. ASSUME NEW i \in Incarnations, AgentEnds(i) PROVE StartsHold'
  <2>1. /\ agents[i].phase = "live" /\ UNCHANGED <<active, shown, enforced, daemonUp, mixed>>
        /\ agents' = [agents EXCEPT ![i].phase = "flushing", ![i].runs = FALSE]
    BY <1>5 DEF AgentEnds, Ending, Of
  <2>2. daemonUp = "up" /\ agents[i].id \in SessionIds \ mixed => active[agents[i].id] = i
    BY <1>u, <2>1
  <2>3. AgentsMade' /\ agents'[i].phase = "flushing"
        /\ \A j \in Incarnations :
             /\ j # i => agents'[j].phase = agents[j].phase
             /\ agents'[j].id = agents[j].id /\ agents'[j].mode = agents[j].mode
    BY Zenon, <1>m, <2>1, StartedIs
  <2>9. daemonUp = "up" /\ agents[i].id \in SessionIds \ mixed =>
          /\ agents[i].phase # "ended"
          /\ agents'[i].phase = "starting" => enforced'[agents[i].id] = agents[i].mode
          /\ agents'[i].phase = "live" =>
               /\ active'[agents[i].id] = i
               /\ shown'[agents[i].id] = enforced'[agents[i].id]
               /\ shown'[agents[i].id] # "none"
          /\ active'[agents[i].id] = i => agents'[i].phase \in {"live", "flushing"}
          /\ active'[agents[i].id] \in {0, i}
    BY <1>0, <2>1, <2>2, <2>3
  <2>q. agents'[i].phase \notin {"none", "closing"} /\ agents[i].phase # "none"
    BY <1>0, <2>1, <2>2, <2>3
  <2> QED
    BY Zenon, <2>9, <2>q, <1>0, <1>p, <2>1, <2>2, <2>3
<1>6. ASSUME NEW i \in Incarnations, TornDown(i) PROVE StartsHold'
  <2>1. /\ agents[i].phase = "flushing" /\ Phase(i, "ended") /\ UNCHANGED <<daemonUp, mixed>>
        /\ active' = [active EXCEPT ![agents[i].id] = 0]
        /\ shown' = [shown EXCEPT ![agents[i].id] = "none"]
        /\ enforced' = [enforced EXCEPT ![agents[i].id] = "none"]
    BY <1>6 DEF TornDown, Of
  <2>2. agents[i].id \in SessionIds
    BY <1>a, <2>1
  <2> QED
    <3>1. AgentsMade' /\ agents'[i].phase = "ended"
        /\ \A j \in Incarnations :
             /\ j # i => agents'[j].phase = agents[j].phase
             /\ agents'[j].id = agents[j].id /\ agents'[j].mode = agents[j].mode
      BY <1>m, <2>1, PhaseIs
    <3>2. /\ active' \in [SessionIds -> 0 .. MaxStarts] /\ active'[agents[i].id] = 0
          /\ shown' \in [SessionIds -> Modes \cup {"none"}]
          /\ enforced' \in [SessionIds -> Modes \cup {"none"}]
          /\ \A s \in SessionIds \ {agents[i].id} :
               active'[s] = active[s] /\ shown'[s] = shown[s] /\ enforced'[s] = enforced[s]
      BY <1>0, <2>1, <2>2
    <3>3. daemonUp = "up" /\ agents[i].id \in SessionIds \ mixed => i # 0
      BY <1>0
    <3> QED
      BY <1>p, <2>1, <2>2, <3>1, <3>2, <3>3
<1>7. ASSUME NEW i \in Incarnations, PromptSent(i) \/ PromptFails(i) PROVE StartsHold'
  <2>1. agents[i].prompt /\ agents[i].phase # "none"
    BY <1>7 DEF SessionsInv, PromptsLaunched, PromptSent, PromptFails
  <2>2. CASE agents' = [agents EXCEPT ![i].prompt = FALSE]
             /\ UNCHANGED <<active, shown, enforced, daemonUp, mixed>>
    <3>1. AgentsMade' /\ \A j \in Incarnations :
             /\ agents'[j].phase = agents[j].phase
             /\ agents'[j].id = agents[j].id /\ agents'[j].mode = agents[j].mode
      BY Zenon, <1>m, <2>2, PromptOver
    <3> QED
      BY <1>0, <1>k, <2>2, <3>1
  <2>3. CASE /\ PromptFails(i) /\ active[agents[i].id] # 0
             /\ agents[active[agents[i].id]].phase = "live"
             /\ agents' = [agents EXCEPT ![i].prompt = FALSE,
                                         ![active[agents[i].id]].phase = "flushing"]
             /\ UNCHANGED <<active, shown, enforced, daemonUp, mixed>>
    <3> DEFINE a == active[agents[i].id]
    <3>1. a \in Incarnations /\ agents[a].phase = "live"
      BY <1>0, <1>a, <2>1, <2>3
    <3>2. agents' = [agents EXCEPT ![i].prompt = FALSE, ![a].phase = "flushing"]
      BY <2>3
    <3>3. daemonUp = "up" /\ agents[a].id \in SessionIds \ mixed => active[agents[a].id] = a
      BY <1>u, <3>1
    <3> HIDE DEF a
    <3>4. AgentsMade' /\ agents'[a].phase = "flushing"
        /\ \A j \in Incarnations :
             /\ j # a => agents'[j].phase = agents[j].phase
             /\ agents'[j].id = agents[j].id /\ agents'[j].mode = agents[j].mode
      BY Zenon, <1>m, <3>1, <3>2, PromptGone
    <3>5. daemonUp = "up" /\ agents[a].id \in SessionIds \ mixed =>
          /\ agents[a].phase # "ended"
          /\ agents'[a].phase = "starting" => enforced'[agents[a].id] = agents[a].mode
          /\ agents'[a].phase = "live" =>
               /\ active'[agents[a].id] = a
               /\ shown'[agents[a].id] = enforced'[agents[a].id]
               /\ shown'[agents[a].id] # "none"
          /\ active'[agents[a].id] = a => agents'[a].phase \in {"live", "flushing"}
          /\ active'[agents[a].id] \in {0, a}
      BY <3>1, <3>3, <3>4, <2>3
    <3> QED
      BY Zenon, <1>0, <1>p, <2>3, <3>1, <3>4, <3>5
  <2> QED
    BY <1>7, <2>2, <2>3 DEF PromptSent, PromptFails, Ending, Of
<1>8. ASSUME NEW s \in SessionIds, NEW m \in Modes, SetMode(s, m) PROVE StartsHold'
  <2>1. /\ active[s] # 0 /\ UNCHANGED <<agents, active, daemonUp, mixed>>
        /\ shown' = [shown EXCEPT ![s] = m] /\ enforced' = [enforced EXCEPT ![s] = m]
    BY <1>8 DEF SetMode, Of
  <2>2. AgentsMade' /\ \A j \in Incarnations : agents'[j].id = agents[j].id
    BY <1>0, <2>1 DEF AgentsMade
  <2>3. /\ shown' \in [SessionIds -> Modes \cup {"none"}]
        /\ enforced' \in [SessionIds -> Modes \cup {"none"}]
    BY <1>0, <2>1
  <2>4. \A t \in SessionIds :
               \/ shown'[t] = shown[t] /\ enforced'[t] = enforced[t]
               \/ active[t] # 0 /\ shown'[t] = enforced'[t] /\ shown'[t] # "none"
    BY <1>0, <2>1 DEF Modes
  <2> QED
    BY <1>0, <1>k, <2>1, <2>2, <2>3, <2>4
<1>9. CASE UNCHANGED <<agents, active, shown, enforced, daemonUp, mixed>>
  <2>1. AgentsMade' /\ \A j \in Incarnations : agents'[j].id = agents[j].id
    BY <1>0, <1>9 DEF AgentsMade
  <2> QED
    BY <1>0, <1>k, <1>9, <2>1
<1>10. ASSUME NEW c \in Calls, NEW d, NEW w, RespondPermission(c, d, w) PROVE StartsHold'
  <2> DEFINE a == active[agents[calls[c].agent].id]
             t == calls[c].tool
  <2>1. /\ UNCHANGED <<active, shown, enforced, daemonUp, mixed>>
        /\ agents' = agents \/ agents' = [agents EXCEPT ![a].auto = @ \cup {t}]
    BY Zenon, <1>10 DEF RespondPermission, Of
  <2>2. CASE agents' = agents
    BY <1>9, <2>1, <2>2
  <2>3. CASE agents' = [agents EXCEPT ![a].auto = @ \cup {t}]
    <3> HIDE DEF a, t
    <3>1. AgentsMade' /\ \A j \in Incarnations :
             /\ agents'[j].phase = agents[j].phase /\ agents'[j].id = agents[j].id
             /\ agents'[j].mode = agents[j].mode
      BY Zenon, <1>m, <2>3, AutoIs
    <3> QED
      BY <1>0, <1>k, <2>1, <3>1
  <2> QED
    BY Zenon, <2>1, <2>2, <2>3
\* Once the daemon is closing only the types matter.
<1>11. ASSUME NEW i \in Incarnations, ClosedDown(i) PROVE StartsHold'
  <2>1. daemonUp # "up" /\ daemonUp' = daemonUp
    BY <1>n, <1>11 DEF ClosedDown, Closing, Of
  <2>2. /\ agents' = [agents EXCEPT ![i].runs = FALSE,
                                    ![i].phase = IF @ = "closing" THEN "ended" ELSE @]
        /\ shown' = [shown EXCEPT ![agents[i].id] = "none"] /\ active' = active
        /\ enforced' = [enforced EXCEPT ![agents[i].id] = "none"]
    BY <1>11 DEF ClosedDown, Of
  <2>3. AgentsMade' /\ \A j \in Incarnations :
             /\ agents'[j].phase = "none" <=> agents[j].phase = "none"
             /\ agents'[j].id = agents[j].id /\ agents'[j].mode = agents[j].mode
    BY Zenon, <1>m, <2>2, ClosedIs
  <2>4. SessionTypes'
    BY Zenon, <1>0, <2>2, <2>3, TypesKept
  <2> QED
    BY <2>1, <2>4 DEF StartsHold
<1>12. CASE ShutdownBegins
  <2>1. /\ daemonUp' = "closing" /\ UNCHANGED <<active, shown, enforced>>
        /\ agents' = [i \in Incarnations |->
             IF agents[i].phase = "live" /\ active[agents[i].id] = i
             THEN [agents[i] EXCEPT !.phase = "closing"] ELSE agents[i]]
    BY <1>12 DEF ShutdownBegins, Of
  <2>2. AgentsMade' /\ \A j \in Incarnations :
             /\ agents'[j].phase = "none" <=> agents[j].phase = "none"
             /\ agents'[j].id = agents[j].id /\ agents'[j].mode = agents[j].mode
    BY <1>m, <2>1, ClosingIs
  <2>3. SessionTypes'
    BY <1>0, <2>1, <2>2, TypesKept
  <2> QED
    BY <2>1, <2>3 DEF StartsHold
<1>13. CASE ShutdownEnds
  <2>1. /\ daemonUp' = "down" /\ UNCHANGED <<agents, enforced>>
        /\ active' = [s \in SessionIds |-> 0] /\ shown' = [s \in SessionIds |-> "none"]
    BY <1>13 DEF ShutdownEnds, Of
  <2>2. AgentsMade' /\ \A j \in Incarnations : agents'[j].id = agents[j].id
    BY <1>0, <2>1 DEF AgentsMade
  <2>3. active' \in [SessionIds -> 0 .. MaxStarts]
    BY <2>1
  <2>4. SessionTypes'
    BY <1>0, <2>1, <2>2, <2>3, TypesKept
  <2> QED
    BY <2>1, <2>4 DEF StartsHold
<1> QED
  BY <1>1, <1>2, <1>3, <1>4, <1>5, <1>6, <1>7, <1>8, <1>9, <1>10, <1>11, <1>12, <1>13
  DEF SessionsNext, sessionVars, LaunchSession, ResumeSession, CanUseTool, PermissionTimesOut,
    CallAborted

(* Every step keeps prompts with started agents. *)
LEMMA PromptsStep == ASSUME SessionsInv, [SessionsNext]_sessionVars PROVE PromptsLaunched'
<1>0. DOMAIN agents = Incarnations /\ \A i \in Incarnations : DOMAIN agents[i] = AgentFields
  BY DEF SessionsInv, StartsHold, SessionTypes, AgentsMade
<1>1. \A i \in Incarnations : agents[i].prompt => agents[i].phase # "none"
  BY DEF SessionsInv, PromptsLaunched
<1> SUFFICES ASSUME NEW i \in Incarnations, agents'[i].prompt PROVE agents'[i].phase # "none"
  BY DEF PromptsLaunched
<1> USE DEF AgentFields
<1>2. ASSUME NEW j \in Incarnations, NEW s \in SessionIds, NEW m \in Modes, Begin(j, s, m)
      PROVE agents'[i].phase # "none"
  BY <1>0, <1>1, <1>2 DEF Begin, Unstarted
<1>3. ASSUME NEW j \in Incarnations, NEW p, p # "none", Phase(j, p)
      PROVE agents'[i].phase # "none"
  BY <1>0, <1>1, <1>3 DEF Phase
<1>4. ASSUME NEW j \in Incarnations, AgentStarted(j) \/ AgentEnds(j)
      PROVE agents'[i].phase # "none"
  BY <1>0, <1>1, <1>4 DEF AgentStarted, AgentEnds
<1>5. ASSUME NEW j \in Incarnations, PromptSent(j) \/ PromptFails(j)
      PROVE agents'[i].phase # "none"
  BY <1>0, <1>1, <1>5 DEF PromptSent, PromptFails
<1>6. ASSUME NEW c \in Calls, NEW d, NEW w, RespondPermission(c, d, w)
      PROVE agents'[i].phase # "none"
  BY <1>0, <1>1, <1>6 DEF RespondPermission
<1>7. CASE ShutdownBegins
  BY <1>0, <1>1, <1>7 DEF ShutdownBegins
<1>9. ASSUME NEW j \in Incarnations, ClosedDown(j) PROVE agents'[i].phase # "none"
  <2>1. agents' = [agents EXCEPT ![j].runs = FALSE,
                                 ![j].phase = IF @ = "closing" THEN "ended" ELSE @]
    BY <1>9 DEF ClosedDown
  <2>2. agents'[i].prompt = agents[i].prompt
    BY Zenon, <1>0, <2>1
  <2>3. agents'[i].phase = "none" => agents[i].phase = "none"
    BY <1>0, <2>1
  <2> QED
    BY <1>1, <2>2, <2>3
<1>8. CASE UNCHANGED agents
  BY <1>0, <1>1, <1>8
<1> QED
  BY <1>2, <1>3, <1>4, <1>5, <1>6, <1>7, <1>8, <1>9
  DEF SessionsNext, sessionVars, LaunchSession, ResumeSession, SetUp, StartFails, TornDown,
    SetMode, CanUseTool, PermissionTimesOut, CallAborted, ShutdownEnds

(* The managed sessions follow from the invariant. *)
LEMMA SessionsManaged == SessionsInv => Managed
  BY StartsAssumption DEF SessionsInv, StartsHold, OneStart, Managed, Of

(* They hold before the first start. *)
LEMMA SessionsBegin == SessionsInit => SessionsInv
<1> SUFFICES ASSUME SessionsInit PROVE SessionsInv
  OBVIOUS
<1> USE StartsAssumption DEF SessionsInit
<1>1. AgentsMade
  BY DEF AgentsMade, AgentFields, Unstarted
<1>2. \A i \in Incarnations : /\ agents[i].id = "none" /\ agents[i].mode = "detect"
                              /\ agents[i].phase = "none" /\ agents[i].prompt = FALSE
  BY DEF Of, Unstarted
<1>3. SessionTypes
  BY <1>1, <1>2 DEF SessionTypes, Modes
<1> QED
  BY <1>2, <1>3 DEF SessionsInv, StartsHold, PromptsLaunched, NoneClosing, OneStart

(* A live agent is the one in the manager's map and runs in the mode that is shown,
   unless its session was started twice (Managed of AgentSessions), for any ids and
   any number of starts. *)
THEOREM SessionsAreManaged == SessionsInit /\ [][SessionsNext]_sessionVars => []Managed
<1>1. SessionsInv /\ [SessionsNext]_sessionVars => SessionsInv'
  BY SessionsStep, PromptsStep DEF SessionsInv
<1> QED
  BY <1>1, SessionsBegin, SessionsManaged, PTL

-----------------------------------------------------------------------------
(* The hooks of supervised sessions *)

(* What is kept of a hook's request, and the shape of all of them. *)
HookFields == {"of", "plan", "outcome", "waits"}

(* The requests have their shape, and what is held is of a session. *)
HooksMade ==
  /\ DOMAIN supervisors = HookSessions
  /\ rules \in [HookSessions -> {"allow", "deny", "none"}]
  /\ DOMAIN hooks = Hooks /\ hooks = [q \in Hooks |-> hooks[q]]
  /\ \A q \in Hooks : DOMAIN hooks[q] = HookFields
  /\ \A q \in Hooks : hooks[q].outcome = "held" => hooks[q].of \in HookSessions

(* The router's inductive invariant. *)
HookInv == HooksMade /\ HeldHasSupervisor

(* Resolving requests leaves the others as they were. *)
LEMMA ResolvedAre ==
  ASSUME HooksMade, NEW qs, NEW outcome, outcome # "held", hooks' = Resolve(qs, outcome)
  PROVE /\ DOMAIN hooks' = Hooks /\ hooks' = [q \in Hooks |-> hooks'[q]]
        /\ \A q \in Hooks : DOMAIN hooks'[q] = HookFields
        /\ \A q \in Hooks : hooks'[q].outcome = "held" =>
             q \notin qs /\ hooks'[q] = hooks[q]
<1>1. ASSUME NEW q \in Hooks PROVE
        IF q \in qs THEN hooks'[q] = [hooks[q] EXCEPT !.outcome = outcome, !.waits = FALSE]
                    ELSE hooks'[q] = hooks[q]
  BY Zenon DEF Resolve
<1>2. DOMAIN hooks' = Hooks /\ hooks' = [q \in Hooks |-> hooks'[q]]
  BY Zenon DEF Resolve
<1>3. ASSUME NEW q \in Hooks, q \in qs
      PROVE DOMAIN hooks'[q] = HookFields /\ hooks'[q].outcome = outcome
  BY Zenon, <1>1, <1>3 DEF HooksMade, HookFields
<1>4. ASSUME NEW q \in Hooks, q \notin qs
      PROVE DOMAIN hooks'[q] = HookFields /\ hooks'[q] = hooks[q]
  BY Zenon, <1>1, <1>4 DEF HooksMade
<1> QED
  BY <1>2, <1>3, <1>4

(* Every step of the router and its supervisors keeps it. *)
LEMMA HookStep == ASSUME HookInv, [HooksNext]_hookVars PROVE HookInv'
<1>0. /\ HooksMade /\ rules \in [HookSessions -> {"allow", "deny", "none"}]
      /\ DOMAIN supervisors = HookSessions
      /\ \A q \in Hooks : hooks[q].outcome = "held" => hooks[q].of \in HookSessions
      /\ \A q \in Hooks : hooks[q].outcome = "held" =>
           hooks[q].plan \/ supervisors[hooks[q].of] # {} \/ hooks[q].of \in left
  BY DEF HookInv, HooksMade, HeldHasSupervisor, Pending, IsSupervised
<1>h. HookInv' <=> /\ HooksMade'
                   /\ \A q \in Hooks : hooks'[q].outcome = "held" =>
                        \/ hooks'[q].plan \/ supervisors'[hooks'[q].of] # {}
                        \/ hooks'[q].of \in left'
  BY DEF HookInv, HeldHasSupervisor, Pending, IsSupervised
<1>r. ASSUME NEW qs, NEW o, o # "held", hooks' = Resolve(qs, o),
             DOMAIN supervisors' = HookSessions, UNCHANGED rules,
             \A q \in Hooks : hooks[q].outcome = "held" /\ q \notin qs =>
               \/ hooks[q].plan \/ supervisors'[hooks[q].of] # {}
               \/ hooks[q].of \in left'
      PROVE HookInv'
  <2>1. /\ DOMAIN hooks' = Hooks /\ hooks' = [q \in Hooks |-> hooks'[q]]
        /\ \A q \in Hooks : DOMAIN hooks'[q] = HookFields
        /\ \A q \in Hooks : hooks'[q].outcome = "held" => q \notin qs /\ hooks'[q] = hooks[q]
    BY <1>0, <1>r, ResolvedAre
  <2>2. HooksMade'
    BY <1>0, <1>r, <2>1 DEF HooksMade
  <2> QED
    BY <1>h, <1>r, <2>1, <2>2
<1>u. ASSUME UNCHANGED hooks, rules' \in [HookSessions -> {"allow", "deny", "none"}],
             DOMAIN supervisors' = HookSessions,
             \A s \in HookSessions : supervisors[s] # {} \/ s \in left =>
               supervisors'[s] # {} \/ s \in left'
      PROVE HookInv'
  BY <1>0, <1>h, <1>u DEF HooksMade
<1>1. ASSUME NEW s \in HookSessions, NEW c \in Watchers, Supervise(s, c) PROVE HookInv'
  <2> DEFINE evicted == IF ~IsSupervised(s) /\ Len(order) >= MaxSupervised
                        THEN {Head(order)} ELSE {}
  <2>1. /\ supervisors' = [t \in HookSessions |->
             IF t = s THEN supervisors[t] \cup {c}
             ELSE IF t \in evicted THEN {} ELSE supervisors[t]]
        /\ left' = (left \ {s}) \cup evicted /\ UNCHANGED <<hooks, rules>>
    BY <1>1 DEF Supervise
  <2> HIDE DEF evicted
  <2> QED
    BY <1>0, <1>u, <2>1
<1>2. ASSUME NEW s \in HookSessions, NEW c \in Watchers, Unsupervise(s, c) PROVE HookInv'
  <2>1. /\ supervisors' = [supervisors EXCEPT ![s] = @ \ {c}] /\ UNCHANGED <<hooks, rules>>
        /\ IF supervisors[s] = {c} THEN left' = left \cup {s} ELSE left' = left
        /\ c \in supervisors[s]
    BY <1>2 DEF Unsupervise
  <2>2. supervisors[s] # {c} => supervisors[s] \ {c} # {}
    BY <2>1
  <2> QED
    BY <1>0, <1>u, <2>1, <2>2
<1>3. ASSUME NEW c \in Watchers, WatcherDisconnects(c) PROVE HookInv'
  <2> DEFINE released == {s \in Watched(c) : supervisors[s] = {c}}
             qs == HeldOf(released)
  <2>1. /\ supervisors' = [s \in HookSessions |-> supervisors[s] \ {c}]
        /\ hooks' = Resolve(qs, "local") /\ UNCHANGED <<left, rules>>
    BY <1>3 DEF WatcherDisconnects
  <2>2. ASSUME NEW q \in Hooks, hooks[q].outcome = "held", q \notin qs
        PROVE hooks[q].plan \/ supervisors'[hooks[q].of] # {} \/ hooks[q].of \in left'
    <3>1. hooks[q].of \in HookSessions /\ hooks[q].of \notin released
      BY <1>0, <2>2 DEF HeldOf, Pending
    <3>2. supervisors[hooks[q].of] # {} => supervisors[hooks[q].of] \ {c} # {}
      BY <3>1 DEF Watched
    <3> QED
      BY <1>0, <2>1, <2>2, <3>1, <3>2
  <2> HIDE DEF qs
  <2> QED
    BY <1>r, <2>1, <2>2
<1>4. ASSUME NEW q \in Hooks, NEW s \in HookSessions, NEW planned \in BOOLEAN,
             HandleEvent(q, s, planned)
      PROVE HookInv'
  <2> DEFINE outcome == IF rules[s] # "none" THEN rules[s]
                        ELSE IF ~planned /\ ~IsSupervised(s) THEN "local"
                        ELSE IF Cardinality(Pending) >= MaxPending THEN "deny" ELSE "held"
  <2>1. /\ hooks' = [hooks EXCEPT ![q] =
             [of |-> s, plan |-> planned, outcome |-> outcome, waits |-> outcome = "held"]]
        /\ UNCHANGED <<supervisors, left, rules>>
    BY <1>4 DEF HandleEvent
  <2>2. outcome = "held" /\ rules[s] # "held" => planned \/ supervisors[s] # {}
    BY DEF IsSupervised
  <2>3. rules[s] # "held"
    BY <1>0
  <2> HIDE DEF outcome
  <2>4. HooksMade'
    <3>1. DOMAIN hooks' = Hooks /\ hooks' = [p \in Hooks |-> hooks'[p]]
      BY <1>0, <2>1 DEF HooksMade
    <3>2. /\ \A p \in Hooks \ {q} : hooks'[p] = hooks[p]
          /\ DOMAIN hooks'[q] = HookFields /\ hooks'[q].of = s
      BY <1>0, <2>1 DEF HooksMade, HookFields
    <3> QED
      BY <1>0, <2>1, <3>1, <3>2 DEF HooksMade
  <2>5. \A p \in Hooks \ {q} : hooks'[p] = hooks[p]
    BY <1>0, <2>1 DEF HooksMade
  <2>6. hooks'[q].of = s /\ hooks'[q].outcome = outcome /\ (hooks'[q].plan <=> planned)
    BY <1>0, <2>1 DEF HooksMade
  <2> QED
    BY <1>0, <1>h, <2>1, <2>2, <2>3, <2>4, <2>5, <2>6
<1>5. ASSUME NEW q \in Hooks, AgentLeaves(q) PROVE HookInv'
  <2>1. hooks' = [hooks EXCEPT ![q].waits = FALSE] /\ UNCHANGED <<supervisors, left, rules>>
    BY <1>5 DEF AgentLeaves
  <2>2. /\ DOMAIN hooks' = Hooks /\ hooks' = [p \in Hooks |-> hooks'[p]]
        /\ \A p \in Hooks : /\ DOMAIN hooks'[p] = HookFields
                            /\ hooks'[p].outcome = hooks[p].outcome
                            /\ hooks'[p].of = hooks[p].of
                            /\ hooks'[p].plan <=> hooks[p].plan
    BY Zenon, <1>0, <2>1 DEF HooksMade, HookFields
  <2> QED
    BY SMTT(30), <1>0, <1>h, <2>1, <2>2 DEF HooksMade
<1>6. CASE HookShutdown
  BY <1>0, <1>r, <1>6 DEF HookShutdown
<1>7. ASSUME NEW s \in HookSessions, HookSessionEnds(s) PROVE HookInv'
  BY <1>0, <1>r, <1>7 DEF HookSessionEnds
<1>8. ASSUME NEW q \in Hooks, HookTimesOut(q) PROVE HookInv'
  BY <1>0, <1>r, <1>8 DEF HookTimesOut
<1>9. ASSUME NEW q \in Hooks, NEW d \in HookDecisions, ResolvePending(q, d) PROVE HookInv'
  <2>1. d # "held"
    BY HookCaps
  <2> QED
    BY <1>0, <1>r, <1>9, <2>1 DEF ResolvePending
<1>10. ASSUME NEW s \in HookSessions, NEW d \in HookDecisions \cup {"none"}, RulesChange(s, d)
       PROVE HookInv'
  BY <1>0, <1>u, <1>10, HookCaps DEF RulesChange
<1>11. CASE UNCHANGED <<supervisors, rules, hooks, left>>
  BY <1>0, <1>u, <1>11
<1> QED
  BY <1>1, <1>2, <1>3, <1>4, <1>5, <1>6, <1>7, <1>8, <1>9, <1>10, <1>11
  DEF HooksNext, hookVars, WatcherConnects

(* It holds before the first request. *)
LEMMA HooksBegin == HooksInit => HookInv
  BY DEF HooksInit, NoHook, HookInv, HooksMade, HookFields, HeldHasSupervisor, Pending

(* A hook's request is held only while someone supervises its session
   (HeldHasSupervisor of HookSupervision), for any sessions, clients and requests. *)
THEOREM HooksAreSupervised == HooksInit /\ [][HooksNext]_hookVars => []HeldHasSupervisor
<1>1. HookInv => HeldHasSupervisor
  BY DEF HookInv
<1>2. HookInv /\ [HooksNext]_hookVars => HookInv'
  BY HookStep
<1> QED
  BY <1>1, <1>2, HooksBegin, PTL

-----------------------------------------------------------------------------
(* The keys of a client's exchange *)

(* The daemon's state in its answer to the exchange p, made with a secret. *)
AnswerState(p, id, secret) ==
  Answered(p.state, DaemonEphemeral(id), ClientEphemeral(p.request), ClientStatic(p.request),
           p.profile, Secret(secret))

(* The text the daemon answers with. *)
AnswerText(p, id, secret) == Encrypted(AnswerState(p, id, secret), <<"meta", id, 1>>)

(* The key it derives. *)
AnswerKey(p, id, secret) ==
  IF p.version = 3
  THEN SessionKey(AfterText(AnswerState(p, id, secret), AnswerText(p, id, secret)),
                  p.profile, id, 1)
  ELSE SessionKey2(p.request, DaemonKey(p.key), p.profile, Secret(secret), id, 1)

(* A symmetric state of the exchange. *)
IsState(s) == DOMAIN s = {"ck", "k", "n", "h"}

(* Mixing keeps a state a state, and is remembered in its hash. *)
LEMMA Mixed ==
  ASSUME NEW s, IsState(s), NEW x
  PROVE /\ IsState(MixHash(s, x)) /\ MixHash(s, x).h = <<"hash", s.h, x>>
        /\ MixHash(s, x).k = s.k /\ MixHash(s, x).ck = s.ck
        /\ IsState(MixKey(s, x)) /\ MixKey(s, x).h = s.h
        /\ IsState(AfterText(s, x)) /\ AfterText(s, x).h = <<"hash", s.h, x>>
<1>1. IsState(MixHash(s, x)) /\ MixHash(s, x).h = <<"hash", s.h, x>>
      /\ MixHash(s, x).k = s.k /\ MixHash(s, x).ck = s.ck
  BY DEF IsState, MixHash
<1>2. IsState(MixKey(s, x)) /\ MixKey(s, x).h = s.h
  BY DEF IsState, MixKey
<1>3. IsState(AfterText(s, x)) /\ AfterText(s, x).h = MixHash(s, x).h
  BY <1>1 DEF IsState, AfterText
<1> QED
  BY <1>1, <1>2, <1>3

(* Mixing the secret in decides the key. *)
LEMMA SecretMixed ==
  ASSUME NEW s, IsState(s), NEW x
  PROVE IsState(MixKeyAndHash(s, x)) /\ MixKeyAndHash(s, x).k = Kdf(3, s.ck, x)
<1>1. IsState(MixHash(s, Kdf(2, s.ck, x)))
  BY Mixed
<1> QED
  BY <1>1 DEF MixKeyAndHash, IsState

(* What both ends have mixed before the daemon answers. *)
LEMMA Begins ==
  ASSUME NEW profile, NEW n, NEW dk
  PROVE /\ IsState(InitKeyed(profile, n, dk)) /\ IsState(InitSent(profile, n, dk))
        /\ InitKeyed(profile, n, dk).h =
             <<"hash", <<"hash", <<"hash", <<"name", profile>>, <<"prologue">>>>, dk>>,
               ClientEphemeral(n)>>
<1>1. /\ IsState(Initialized(profile, dk))
      /\ Initialized(profile, dk).h =
           <<"hash", <<"hash", <<"name", profile>>, <<"prologue">>>>, dk>>
  BY DEF IsState, Initialized
<1>2. IsState(MixHash(Initialized(profile, dk), ClientEphemeral(n)))
  BY <1>1, Mixed
<1>3. IsState(InitKeyed(profile, n, dk))
  BY <1>2, Mixed DEF InitKeyed
<1>4. IsState(InitSent(profile, n, dk))
  BY <1>3, Mixed DEF InitSent
<1> QED
  BY <1>1, <1>2, <1>3, <1>4, Mixed DEF InitKeyed

\* What a ciphertext tells of the state it was made with.

(* One text is sealed in one state. *)
LEMMA Sealed ==
  ASSUME NEW s, NEW t, NEW x, NEW y, Encrypted(s, x) = Encrypted(t, y)
  PROVE s.k = t.k /\ s.n = t.n /\ s.h = t.h /\ x = y
  BY DEF Encrypted

(* What is sealed is what is read. *)
LEMMA OpenedAs == \A s, x : Encrypted(s, x)[5] = x
  BY DEF Encrypted

(* A client's first text tells the daemon's key it was made for. *)
LEMMA KeyTold ==
  ASSUME NEW profile, NEW n, NEW i, NEW j, NEW x, NEW y,
         Encrypted(InitKeyed(profile, n, DaemonKey(i)), x) =
           Encrypted(InitKeyed(profile, n, DaemonKey(j)), y)
  PROVE i = j
<1>1. InitKeyed(profile, n, DaemonKey(i)).h = InitKeyed(profile, n, DaemonKey(j)).h
  BY Sealed
<1>2. DaemonKey(i) = DaemonKey(j)
  BY <1>1, Begins
<1> QED
  BY <1>2 DEF DaemonKey

(* An answer tells the secret it was made with. *)
LEMMA SecretTold ==
  ASSUME NEW p, IsState(p.state), p.profile = "noise-ikpsk2", NEW id, NEW a, NEW b, NEW x, NEW y,
         Encrypted(AnswerState(p, id, a), x) = Encrypted(AnswerState(p, id, b), y)
  PROVE a = b
<1> DEFINE eph == DaemonEphemeral(id)
           m == MixKey(MixKey(MixHash(p.state, eph), Shared(ClientEphemeral(p.request), eph)),
                       Shared(ClientStatic(p.request), eph))
<1>1. IsState(MixHash(p.state, eph))
  BY Mixed
<1>2. IsState(MixKey(MixHash(p.state, eph), Shared(ClientEphemeral(p.request), eph)))
  BY <1>1, Mixed
<1>3. IsState(m)
  BY <1>2, Mixed
<1>4. /\ AnswerState(p, id, a) = MixKeyAndHash(m, Secret(a))
      /\ AnswerState(p, id, b) = MixKeyAndHash(m, Secret(b))
  BY DEF AnswerState, Answered
<1> HIDE DEF m
<1>5. AnswerState(p, id, a).k = AnswerState(p, id, b).k
  BY Sealed
<1>6. Kdf(3, m.ck, Secret(a)) = Kdf(3, m.ck, Secret(b))
  BY <1>3, <1>4, <1>5, SecretMixed
<1>7. Secret(a) = Secret(b)
  BY <1>6 DEF Kdf
<1> QED
  BY <1>7 DEF Secret

(* Only the pre-shared profile depends on the secret. *)
LEMMA SameAnswer ==
  ASSUME NEW p, NEW id, NEW a, NEW b, p.profile = "noise-ikpsk2" => a = b
  PROVE AnswerState(p, id, a) = AnswerState(p, id, b) /\ AnswerText(p, id, a) = AnswerText(p, id, b)
        /\ AnswerKey(p, id, a) = AnswerKey(p, id, b)
<1>1. AnswerState(p, id, a) = AnswerState(p, id, b)
  BY DEF AnswerState, Answered
<1>2. AnswerText(p, id, a) = AnswerText(p, id, b)
  BY <1>1 DEF AnswerText
<1>3. AnswerKey(p, id, a) = AnswerKey(p, id, b)
  BY <1>1, <1>2 DEF AnswerKey, SessionKey2, Material
<1> QED
  BY <1>1, <1>2, <1>3

(* The client reads an answer in the state its own secret gives. *)
LEMMA ReadAs ==
  ASSUME NEW p, NEW f, NEW id, f.ephemeral = DaemonEphemeral(id)
  PROVE ClientRead(p, f) = AnswerState(p, id, p.secret)
  BY DEF ClientRead, AnswerState, Answered

(* A key tells its session. *)
LEMMA SessionTold ==
  ASSUME NEW p, NEW q, NEW i, NEW j, NEW a, NEW b, AnswerKey(p, i, a) = AnswerKey(q, j, b)
  PROVE i = j
<1>1. CASE p.version = 3 /\ q.version = 3
  <2>1. AnswerKey(p, i, a)[6] = i /\ AnswerKey(q, j, b)[6] = j
    BY <1>1 DEF AnswerKey, SessionKey
  <2> QED
    BY <2>1
<1>2. CASE p.version # 3 /\ q.version # 3
  <2>1. AnswerKey(p, i, a)[4] = i /\ AnswerKey(q, j, b)[4] = j
    BY <1>2 DEF AnswerKey, SessionKey2
  <2> QED
    BY <2>1
<1>3. ~((p.version = 3) # (q.version = 3))
  BY DEF AnswerKey, SessionKey, SessionKey2
<1> QED
  BY <1>1, <1>2, <1>3

(* What is sent and kept, each by what it was made from. *)
Opens(f, p) ==
  /\ f.version = p.version /\ f.profile = p.profile /\ f.request = p.request
  /\ f.ephemeral = ClientEphemeral(p.request)
  /\ f.text = IF p.version = 3 THEN InitText(p.profile, p.request, DaemonKey(p.key))
              ELSE InitProof(p.request, DaemonKey(p.key), p.profile, Secret(p.secret))

(* The daemon's session was derived for the client's request. *)
MadeFor(d, p) ==
  /\ d.request = p.request /\ d.profile = p.profile
  /\ d.key = AnswerKey(p, d.session, d.secret)

(* The answer tells of the daemon's session. *)
Tells(f, d, p) ==
  /\ f.version = p.version /\ f.profile = p.profile /\ f.request = p.request
  /\ f.session = d.session /\ f.epoch = 1 /\ f.ephemeral = DaemonEphemeral(d.session)
  /\ IF p.version = 3
     THEN /\ f.text = AnswerText(p, d.session, d.secret)
          /\ f.proof = AfterText(AnswerState(p, d.session, d.secret), f.text).h
     ELSE f.proof = <<"proof", d.key>>

(* The clients' requests are numbered as they are made. *)
PendingMade ==
  /\ IsFiniteSet(pending)
  /\ \A p \in pending :
       /\ p.version \in {2, 3} /\ p.profile \in Profiles
       /\ p.request \in 1 .. Cardinality(pending)
       /\ p.state = InitSent(p.profile, p.request, DaemonKey(p.key))
       /\ \A q \in pending : p.request = q.request => p = q

(* An init is a client's. *)
InitsSent == \A f \in initFrames : \E p \in pending : Opens(f, p)

(* The daemon's sessions are numbered as they are derived, each for a request. *)
SessionsMade ==
  /\ IsFiniteSet(daemonSessions)
  /\ \A d \in daemonSessions :
       /\ d.session \in 1 .. Cardinality(daemonSessions)
       /\ \A e \in daemonSessions : d.session = e.session => d = e
       /\ Strength(d.profile) >= Strength(required)
       /\ \E p \in pending : MadeFor(d, p)

(* An answer is of a session of the daemon. *)
AnswersSent ==
  \A f \in answerFrames : \E d \in daemonSessions, p \in pending : MadeFor(d, p) /\ Tells(f, d, p)

(* A client's session is one of the daemon's, with its key and its secret. *)
SessionsShared ==
  \A c \in clientSessions : \E d \in daemonSessions :
    /\ d.key = c.key /\ d.session = c.session /\ d.profile = c.profile
    /\ d.request = c.request
    /\ c.profile = "noise-ikpsk2" => d.secret = c.secret

(* The exchange's inductive invariant. *)
HandshakeInv == PendingMade /\ InitsSent /\ SessionsMade /\ AnswersSent /\ SessionsShared

(* A new exchange is one more. *)
LEMMA OneMore ==
  ASSUME NEW S, NEW x, IsFiniteSet(S), x \notin S
  PROVE /\ IsFiniteSet(S \cup {x}) /\ Cardinality(S) \in Nat
        /\ Cardinality(S \cup {x}) = Cardinality(S) + 1
  BY FS_AddElement, FS_CardinalityType

(* A client takes an answer just when it shares the secret, and then shares the key. *)
LEMMA ReadsBack ==
  ASSUME HandshakeInv, NEW p \in pending, NEW d \in daemonSessions, MadeFor(d, p),
         NEW f, Tells(f, d, p)
  PROVE /\ Finalizes(p, f) => /\ p.profile = "noise-ikpsk2" => d.secret = p.secret
                              /\ ClientKey(p, f) = d.key
        /\ (p.profile = "noise-ikpsk2" => d.secret = p.secret) => Finalizes(p, f)
<1>1. ClientRead(p, f) = AnswerState(p, d.session, p.secret)
  BY ReadAs DEF Tells
<1>2. IsState(p.state)
  BY Begins DEF HandshakeInv, PendingMade
<1>3. CASE p.version = 3
  <2>1. /\ f.text = AnswerText(p, d.session, d.secret)
        /\ f.proof = AfterText(AnswerState(p, d.session, d.secret), f.text).h
    BY <1>3 DEF Tells
  <2>2. f.text[5] = <<"meta", d.session, 1>>
    BY <2>1, OpenedAs DEF AnswerText
  <2>3. ASSUME Finalizes(p, f), p.profile = "noise-ikpsk2" PROVE d.secret = p.secret
    <3>1. f.text = Encrypted(AnswerState(p, d.session, p.secret), f.text[5])
      BY <1>1, <1>3, <2>3 DEF Finalizes, Decrypts
    <3> QED
      BY <1>2, <2>1, <2>3, <3>1, SecretTold DEF AnswerText
  <2>4. ASSUME p.profile = "noise-ikpsk2" => d.secret = p.secret
        PROVE Finalizes(p, f) /\ ClientKey(p, f) = d.key
    <3>1. /\ AnswerState(p, d.session, p.secret) = AnswerState(p, d.session, d.secret)
          /\ AnswerText(p, d.session, p.secret) = AnswerText(p, d.session, d.secret)
      BY <2>4, SameAnswer
    <3>2. f.text = Encrypted(ClientRead(p, f), f.text[5])
      BY <1>1, <2>1, <2>2, <3>1 DEF AnswerText
    <3>3. Finalizes(p, f)
      BY <1>1, <1>3, <2>1, <2>2, <3>1, <3>2 DEF Finalizes, Decrypts, Tells
    <3>4. ClientKey(p, f) = d.key
      BY <1>1, <1>3, <2>1, <3>1 DEF ClientKey, AnswerKey, Tells, MadeFor
    <3> QED
      BY <3>3, <3>4
  <2> QED
    BY <2>3, <2>4
<1>4. CASE p.version # 3
  <2>1. /\ f.proof = <<"proof", d.key>>
        /\ d.key = SessionKey2(p.request, DaemonKey(p.key), p.profile, Secret(d.secret),
                               d.session, 1)
    BY <1>4 DEF Tells, MadeFor, AnswerKey
  <2>2. ClientKey(p, f) = SessionKey2(p.request, DaemonKey(p.key), p.profile,
                                      Secret(p.secret), d.session, 1)
    BY <1>4 DEF ClientKey, Tells
  <2>3. Finalizes(p, f) <=> f.proof = <<"proof", ClientKey(p, f)>>
    BY <1>4, <2>2 DEF Finalizes, Tells, ClientKey
  <2>4. ClientKey(p, f) = d.key /\ p.profile = "noise-ikpsk2" => d.secret = p.secret
    BY <2>1, <2>2 DEF SessionKey2, Material, Secret
  <2>5. (p.profile = "noise-ikpsk2" => d.secret = p.secret) => ClientKey(p, f) = d.key
    BY <2>1, <2>2 DEF SessionKey2, Material
  <2>6. f.proof = <<"proof", ClientKey(p, f)>> <=> ClientKey(p, f) = d.key
    BY <2>1
  <2> QED
    BY <2>3, <2>4, <2>5, <2>6
<1> QED
  BY <1>3, <1>4

(* An answer that names a request is of a session that was made for it. *)
LEMMA OneOfARequest ==
  ASSUME HandshakeInv, NEW f \in answerFrames, NEW p \in pending, f.request = p.request
  PROVE \E d \in daemonSessions : MadeFor(d, p) /\ Tells(f, d, p)
<1>1. PICK d \in daemonSessions, q \in pending : MadeFor(d, q) /\ Tells(f, d, q)
  BY DEF HandshakeInv, AnswersSent
<1>2. q.request = p.request
  BY <1>1 DEF Tells
<1>3. q = p
  BY <1>2 DEF HandshakeInv, PendingMade
<1> QED
  BY <1>1, <1>3

(* The agreement follows from the invariant. *)
LEMMA HandshakeHolds == HandshakeInv => KeysAgree
<1> SUFFICES ASSUME HandshakeInv PROVE KeysAgree
  OBVIOUS
<1>1. \A d, e \in daemonSessions : d.key = e.key => d = e
  <2> SUFFICES ASSUME NEW d \in daemonSessions, NEW e \in daemonSessions, d.key = e.key
               PROVE d = e
    OBVIOUS
  <2>1. PICK p \in pending : MadeFor(d, p)
    BY DEF HandshakeInv, SessionsMade
  <2>2. PICK q \in pending : MadeFor(e, q)
    BY DEF HandshakeInv, SessionsMade
  <2>3. AnswerKey(p, d.session, d.secret) = AnswerKey(q, e.session, e.secret)
    BY Zenon, <2>1, <2>2 DEF MadeFor
  <2>4. d.session = e.session
    BY <2>3, SessionTold
  <2> QED
    BY <2>4 DEF HandshakeInv, SessionsMade
<1>2. ASSUME NEW p \in pending, NEW f \in answerFrames, NEW d \in daemonSessions,
             f.request = p.request, d.session = f.session,
             p.profile = "noise-ikpsk2" => d.secret = p.secret
      PROVE Finalizes(p, f)
  <2>1. PICK e \in daemonSessions : MadeFor(e, p) /\ Tells(f, e, p)
    BY <1>2, OneOfARequest
  <2>2. e = d
    BY <1>2, <2>1 DEF Tells, HandshakeInv, SessionsMade
  <2> QED
    BY <1>2, <2>1, <2>2, ReadsBack
<1> QED
  BY <1>1, <1>2 DEF KeysAgree, HandshakeInv, SessionsShared, SessionsMade

(* A client begins an exchange. *)
LEMMA BeginStep ==
  ASSUME HandshakeInv, NEW version \in {2, 3}, NEW profile \in Profiles,
         BeginExchange(version, profile)
  PROVE HandshakeInv'
<1> DEFINE n == Cardinality(pending) + 1
           dk == DaemonKey(trusted.key)
           new == [version |-> version, profile |-> profile, request |-> n,
                   secret |-> trusted.secret, key |-> trusted.key,
                   state |-> InitSent(profile, n, dk)]
           sent == [version |-> version, profile |-> profile, request |-> n,
                    ephemeral |-> ClientEphemeral(n),
                    text |-> IF version = 3 THEN InitText(profile, n, dk)
                             ELSE InitProof(n, dk, profile, Secret(trusted.secret))]
<1>0. /\ pending' = pending \cup {new} /\ initFrames' = initFrames \cup {sent}
      /\ UNCHANGED <<required, answerFrames, daemonSessions, clientSessions>>
  BY DEF BeginExchange
<1>1. /\ new.version = version /\ new.profile = profile /\ new.request = n
      /\ new.secret = trusted.secret /\ new.key = trusted.key
      /\ new.state = InitSent(profile, n, DaemonKey(new.key))
  OBVIOUS
<1>2. Opens(sent, new)
  BY DEF Opens
<1> HIDE DEF new, sent
<1>3. PendingMade'
  <2>1. Cardinality(pending) \in Nat
    BY FS_CardinalityType DEF HandshakeInv, PendingMade
  <2>2. new \notin pending
    BY <1>1, <2>1 DEF HandshakeInv, PendingMade
  <2>3. IsFiniteSet(pending') /\ Cardinality(pending') = n
    BY <1>0, <2>2, OneMore DEF HandshakeInv, PendingMade
  <2>4. ASSUME NEW p \in pending'
        PROVE /\ p.version \in {2, 3} /\ p.profile \in Profiles
              /\ p.request \in 1 .. n
              /\ p.state = InitSent(p.profile, p.request, DaemonKey(p.key))
    BY <1>0, <1>1, <2>1 DEF HandshakeInv, PendingMade
  <2>5. ASSUME NEW p \in pending', NEW q \in pending', p.request = q.request PROVE p = q
    BY <1>0, <1>1, <2>1, <2>5 DEF HandshakeInv, PendingMade
  <2> QED
    BY <2>3, <2>4, <2>5 DEF PendingMade
<1>4. InitsSent'
  BY <1>0, <1>2 DEF HandshakeInv, InitsSent
<1>5. SessionsMade'
  BY <1>0 DEF HandshakeInv, SessionsMade
<1>6. AnswersSent'
  BY <1>0 DEF HandshakeInv, AnswersSent
<1>7. SessionsShared'
  BY <1>0 DEF HandshakeInv, SessionsShared
<1> QED
  BY <1>3, <1>4, <1>5, <1>6, <1>7 DEF HandshakeInv

\* A session more for the exchange p.

(* The daemon derives a session. *)
LEMMA DeriveStep ==
  ASSUME HandshakeInv, NEW p \in pending, NEW d, NEW f,
         d.session = Cardinality(daemonSessions) + 1, MadeFor(d, p), Tells(f, d, p),
         Strength(p.profile) >= Strength(required),
         daemonSessions' = daemonSessions \cup {d}, answerFrames' = answerFrames \cup {f},
         UNCHANGED <<required, pending, initFrames, clientSessions>>
  PROVE HandshakeInv'
<1>1. SessionsMade'
  <2>1. Cardinality(daemonSessions) \in Nat
    BY FS_CardinalityType DEF HandshakeInv, SessionsMade
  <2>2. d \notin daemonSessions
    BY <2>1 DEF HandshakeInv, SessionsMade
  <2>3. /\ IsFiniteSet(daemonSessions')
        /\ Cardinality(daemonSessions') = Cardinality(daemonSessions) + 1
    BY <2>2, OneMore DEF HandshakeInv, SessionsMade
  <2>4. ASSUME NEW e \in daemonSessions'
        PROVE /\ e.session \in 1 .. Cardinality(daemonSessions')
              /\ Strength(e.profile) >= Strength(required')
              /\ \E q \in pending' : MadeFor(e, q)
    <3>1. CASE e = d
      BY <2>1, <2>3, <3>1 DEF MadeFor
    <3>2. CASE e \in daemonSessions
      BY <2>1, <2>3, <3>2 DEF HandshakeInv, SessionsMade
    <3> QED
      BY <3>1, <3>2
  <2>5. ASSUME NEW x \in daemonSessions', NEW y \in daemonSessions', x.session = y.session
        PROVE x = y
    BY <2>1, <2>5 DEF HandshakeInv, SessionsMade
  <2> QED
    BY Zenon, <2>3, <2>4, <2>5 DEF SessionsMade
<1>2. AnswersSent'
  BY DEF HandshakeInv, AnswersSent
<1>3. SessionsShared'
  BY DEF HandshakeInv, SessionsShared
<1> QED
  BY <1>1, <1>2, <1>3 DEF HandshakeInv, PendingMade, InitsSent

(* The daemon reads an init of the third version as it was made. *)
LEMMA DaemonReads ==
  ASSUME HandshakeInv, NEW p \in pending, NEW f, Opens(f, p), p.version = 3, DaemonRead(f).ok
  PROVE DaemonRead(f).state = p.state /\ f.text[5] = ClientStatic(p.request)
<1> DEFINE dk == DaemonKey(identity)
<1>1. f.text = Encrypted(InitKeyed(p.profile, p.request, DaemonKey(p.key)),
                         ClientStatic(p.request))
  BY DEF Opens, InitText
<1>2. f.text[5] = ClientStatic(p.request)
  BY <1>1, OpenedAs
<1>3. /\ DaemonRead(f).ok = Decrypts(InitKeyed(p.profile, p.request, dk), f.text)
      /\ DaemonRead(f).state = MixKey(AfterText(InitKeyed(p.profile, p.request, dk), f.text),
                                      Shared(f.text[5], dk))
  BY DEF DaemonRead, Opens, InitKeyed
<1>4. f.text = Encrypted(InitKeyed(p.profile, p.request, dk), f.text[5])
  BY Zenon, <1>3 DEF Decrypts
<1>5. identity = p.key
  BY <1>1, <1>4, KeyTold
<1> QED
  BY <1>1, <1>2, <1>3, <1>5 DEF HandshakeInv, PendingMade, InitSent, InitText

(* The daemon answers an init, or refuses it. *)
LEMMA InitStep ==
  ASSUME HandshakeInv, NEW f \in initFrames, InitArrives(f)
  PROVE HandshakeInv'
<1> DEFINE id == Cardinality(daemonSessions) + 1
<1>0. PICK p \in pending : Opens(f, p)
  BY DEF HandshakeInv, InitsSent
<1>1. /\ UNCHANGED <<required, pending, initFrames, clientSessions>>
      /\ Strength(p.profile) >= Strength(required)
  BY <1>0 DEF InitArrives, Opens
<1>2. CASE DeriveSession3(f)
  <2>1. f.version = 3 /\ DaemonRead(f).ok
    BY <1>2 DEF DeriveSession3
  <2>2. DaemonRead(f).state = p.state /\ f.text[5] = ClientStatic(p.request) /\ p.version = 3
    BY Zenon, <1>0, <2>1, DaemonReads DEF Opens
  <2> DEFINE s == Answered(DaemonRead(f).state, DaemonEphemeral(id), f.ephemeral, f.text[5],
                           f.profile, Secret(binding))
             meta == Encrypted(s, <<"meta", id, 1>>)
             done == AfterText(s, meta)
             d == [profile |-> f.profile, session |-> id, request |-> f.request,
                   secret |-> binding, key |-> SessionKey(done, f.profile, id, 1)]
             a == [version |-> 3, profile |-> f.profile, request |-> f.request,
                   session |-> id, epoch |-> 1, ephemeral |-> DaemonEphemeral(id),
                   text |-> meta, proof |-> done.h]
  <2>3. daemonSessions' = daemonSessions \cup {d} /\ answerFrames' = answerFrames \cup {a}
    BY <1>2 DEF DeriveSession3
  <2>4. s = AnswerState(p, id, binding) /\ meta = AnswerText(p, id, binding)
    BY <1>0, <2>2 DEF AnswerState, AnswerText, Opens
  <2> HIDE DEF s
  <2>5. MadeFor(d, p)
    BY <1>0, <2>2, <2>4 DEF MadeFor, AnswerKey, Opens
  <2>6. Tells(a, d, p)
    BY <1>0, <2>2, <2>4 DEF Tells, Opens
  <2>7. d.session = id
    OBVIOUS
  <2> HIDE DEF d, a
  <2> QED
    BY <1>1, <2>3, <2>5, <2>6, <2>7, DeriveStep
<1>3. CASE DeriveSession2(f)
  <2> DEFINE dk == DaemonKey(identity)
             key == SessionKey2(f.request, dk, f.profile, Secret(binding), id, 1)
             d == [profile |-> f.profile, session |-> id, request |-> f.request,
                   secret |-> binding, key |-> key]
             a == [version |-> 2, profile |-> f.profile, request |-> f.request,
                   session |-> id, epoch |-> 1, ephemeral |-> DaemonEphemeral(id),
                   text |-> <<"none">>, proof |-> <<"proof", key>>]
  <2>1. /\ f.version = 2 /\ f.text = InitProof(f.request, dk, f.profile, Secret(binding))
        /\ daemonSessions' = daemonSessions \cup {d} /\ answerFrames' = answerFrames \cup {a}
    BY <1>3 DEF DeriveSession2
  <2>2. p.version = 2 /\ f.request = p.request /\ f.profile = p.profile
    BY <1>0, <2>1 DEF Opens
  <2>3. f.text = InitProof(p.request, DaemonKey(p.key), p.profile, Secret(p.secret))
    BY <1>0, <2>2 DEF Opens
  <2>4. dk = DaemonKey(p.key)
    BY <2>1, <2>3 DEF InitProof
  <2>5. key = AnswerKey(p, id, binding)
    BY <2>2, <2>4 DEF AnswerKey
  <2> HIDE DEF key
  <2>6. MadeFor(d, p)
    BY <2>2, <2>5 DEF MadeFor
  <2>7. Tells(a, d, p)
    BY <2>2 DEF Tells
  <2>8. d.session = id
    OBVIOUS
  <2> HIDE DEF d, a
  <2> QED
    BY <1>1, <2>1, <2>6, <2>7, <2>8, DeriveStep
<1> QED
  BY <1>2, <1>3 DEF InitArrives

(* The client takes an answer. *)
LEMMA AnswerStep ==
  ASSUME HandshakeInv, NEW p \in pending, NEW f \in answerFrames, AnswerArrives(p, f)
  PROVE HandshakeInv'
<1> DEFINE c == [profile |-> f.profile, session |-> f.session, request |-> p.request,
                 secret |-> p.secret, key |-> ClientKey(p, f)]
<1>1. /\ Finalizes(p, f) /\ clientSessions' = clientSessions \cup {c}
      /\ UNCHANGED <<required, pending, initFrames, answerFrames, daemonSessions>>
  BY DEF AnswerArrives
<1>2. f.request = p.request /\ f.profile = p.profile
  BY <1>1 DEF Finalizes
<1>3. PICK d \in daemonSessions : MadeFor(d, p) /\ Tells(f, d, p)
  BY <1>2, OneOfARequest
<1>4. /\ d.key = c.key /\ d.session = c.session /\ d.profile = c.profile
      /\ d.request = c.request
      /\ c.profile = "noise-ikpsk2" => d.secret = c.secret
  BY <1>1, <1>2, <1>3, ReadsBack DEF MadeFor, Tells
<1> HIDE DEF c
<1>5. SessionsShared'
  BY <1>1, <1>4 DEF HandshakeInv, SessionsShared
<1> QED
  BY <1>1, <1>5 DEF HandshakeInv, PendingMade, InitsSent, SessionsMade, AnswersSent

(* A client's session is one of the daemon's: the same key, session, profile and
   secret, of at least the strength the daemon asks for (KeysAgree of RelayHandshake),
   for any number of exchanges, secrets and inits. *)
THEOREM ExchangesAgree == HandshakeSpec => []KeysAgree
<1>1. HandshakeInit => HandshakeInv
  BY FS_EmptySet DEF HandshakeInit, HandshakeInv, PendingMade, InitsSent, SessionsMade,
    AnswersSent, SessionsShared
<1>2. ASSUME HandshakeInv, [HandshakeNext]_handshakeVars PROVE HandshakeInv'
  <2>1. CASE UNCHANGED <<required, pending, initFrames, answerFrames, daemonSessions,
                         clientSessions>>
    BY <1>2, <2>1 DEF HandshakeInv, PendingMade, InitsSent, SessionsMade, AnswersSent,
      SessionsShared
  <2> QED
    BY <1>2, <2>1, BeginStep, InitStep, AnswerStep
    DEF HandshakeNext, handshakeVars, IdentityReplaced, PairedAgain, ClientLearns
<1> QED
  BY <1>1, <1>2, HandshakeHolds, PTL DEF HandshakeSpec

-----------------------------------------------------------------------------
(* The reports of a worker *)

LocalStatus == Ended \cup {"running"}

(* A store of local runs, the platform's runs and a claim are made of what they
   are made of. *)
IsLocal(l) ==
  /\ l = [of |-> l.of, status |-> l.status, runners |-> l.runners]
  /\ l.of \in HostedRuns /\ l.status \in LocalStatus /\ l.runners \in Nat
IsHosted(h) == h = [status |-> h.status, leased |-> h.leased, knows |-> h.knows]
IsClaim(c) == c = [run |-> c.run, local |-> c.local, report |-> c.report]
AreLocal(runs) == IsList(runs) /\ \A i \in 1 .. Len(runs) : IsLocal(runs[i])
WorkerShapes ==
  /\ AreLocal(localRuns) /\ doubted \subseteq HostedRuns /\ IsClaim(claim)
  /\ hosted = [r \in HostedRuns |-> hosted[r]] /\ \A r \in HostedRuns : IsHosted(hosted[r])

(* A run that is not doubted has one local run, and that one runner while it
   runs and none otherwise. *)
OneLocalRun ==
  \A i \in DOMAIN localRuns : localRuns[i].of \notin doubted =>
    /\ localRuns[i].runners <= 1
    /\ localRuns[i].status # "running" => localRuns[i].runners = 0
    /\ \A j \in DOMAIN localRuns : localRuns[j].of = localRuns[i].of => j = i

(* What the platform was told is so. *)
ToldTruth ==
  \A r \in HostedRuns \ doubted :
    /\ hosted[r].status = "completed" =>
         \E i \in DOMAIN localRuns : localRuns[i].of = r /\ localRuns[i].status = "completed"
    /\ hosted[r].status = "failed" =>
         \A i \in DOMAIN localRuns :
           localRuns[i].of = r => localRuns[i].status \notin {"running", "completed"}

(* The run that is claimed is not over, its local run is its own, and what is
   about to be reported is what became of it. *)
LocalIsOwn ==
  claim.local \in DOMAIN localRuns /\ localRuns[claim.local].of = claim.run
ReportIsTrue ==
  IF claim.local # 0 THEN localRuns[claim.local].status = claim.report
  ELSE /\ claim.report = "failed"
       /\ \A i \in DOMAIN localRuns :
            localRuns[i].of = claim.run => localRuns[i].status = "blocked"
ClaimIsOpen ==
  /\ workerPc \notin {"down", "idle"} =>
       claim.run \in HostedRuns /\ hosted[claim.run].status \in {"queued", "blocked"}
  /\ workerPc \in {"waiting", "rewaiting", "polling"} => LocalIsOwn
  /\ workerPc = "syncing" => claim.report \in Ended /\ (claim.local # 0 => LocalIsOwn)
  /\ workerPc = "polling" => claim.report = "blocked"
  /\ workerPc \in {"syncing", "polling"} /\ claim.run \notin doubted => ReportIsTrue

WorkerInv == WorkerShapes /\ OneLocalRun /\ ToldTruth /\ ClaimIsOpen

-----------------------------------------------------------------------------
IsTransportCall(c) ==
  /\ c = [outcome |-> c.outcome, applied |-> c.applied, retried |-> c.retried]
  /\ c.applied \in Nat /\ c.retried \in Nat
IsRequest(r) ==
  /\ r = [call |-> r.call, socket |-> r.socket, status |-> r.status]
  /\ r.call \in 1 .. Len(transportCalls)
IsSocket(s) == s = [state |-> s.state, heard |-> s.heard] /\ s.heard \in BOOLEAN
IsCall(c) == c = [pc |-> c.pc, attempt |-> c.attempt, request |-> c.request, socket |-> c.socket]
TransportShapes ==
  /\ IsList(transportCalls) /\ \A i \in 1 .. Len(transportCalls) : IsTransportCall(transportCalls[i])
  /\ IsList(requests) /\ \A i \in 1 .. Len(requests) : IsRequest(requests[i])
  /\ IsList(sockets) /\ \A i \in 1 .. Len(sockets) : IsSocket(sockets[i])
  /\ ws \in 0 .. Len(sockets)
  /\ IsCall(call) /\ call.pc \in {"idle", "dispatch", "token", "opening", "waiting", "delay"}

Asked(i) == {r \in DOMAIN requests : requests[r].call = i}
Replied(i) == {r \in Asked(i) : requests[r].status # "none"}

(* A call is asked as often as it is tried again, and once more when it is not
   about to be, and done no more often than it was answered. *)
AskedAsOften ==
  \A i \in DOMAIN transportCalls :
    /\ Cardinality(Asked(i)) <= transportCalls[i].retried + 1
    /\ i = CallsMade /\ call.pc \in {"dispatch", "token", "opening", "delay"} =>
         Cardinality(Asked(i)) <= transportCalls[i].retried
    /\ transportCalls[i].applied <= Cardinality(Replied(i))
    /\ transportCalls[i].outcome = "ok" => transportCalls[i].applied >= 1

OkIsDone ==
  /\ \A r \in DOMAIN requests : requests[r].status = "ok" =>
       transportCalls[requests[r].call].applied >= 1
  /\ call.pc # "idle" => CallsMade >= 1
  /\ call.pc = "waiting" =>
       call.request \in DOMAIN requests /\ requests[call.request].call = CallsMade

(* The worker listens to the socket it would use; before it opens another, it
   has none that is open; a socket it waits for is one of its sockets. *)
Open(s) == sockets[s] = [state |-> "open", heard |-> TRUE]
UsesOne ==
  /\ ~forgotten => \A s \in DOMAIN sockets : Open(s) => s = ws
  /\ ws # 0 => sockets[ws].heard = TRUE
  /\ \A s \in DOMAIN sockets : sockets[s].state = "connecting" => sockets[s].heard = FALSE
  /\ call.pc \in {"token", "opening"} => ~(ws # 0 /\ sockets[ws].state = "open")
  /\ call.pc = "opening" => call.socket \in DOMAIN sockets

TransportInv == TransportShapes /\ AskedAsOften /\ OkIsDone /\ UsesOne

-----------------------------------------------------------------------------
(* A list is a function of its positions. *)
LEMMA ListIs == ASSUME NEW S, NEW s \in Seq(S) PROVE s = [i \in 1 .. Len(s) |-> s[i]]
  OBVIOUS

(* A list made longer by one. *)
LEMMA Longer ==
  ASSUME NEW s, IsList(s), NEW e
  PROVE  /\ IsList(Append(s, e)) /\ Len(Append(s, e)) = Len(s) + 1
         /\ \A i \in 1 .. Len(s) + 1 : Append(s, e)[i] = IF i = Len(s) + 1 THEN e ELSE s[i]
<1> DEFINE S == {s[i] : i \in 1 .. Len(s)} \cup {e}
           n == Len(s)
<1>1. s \in [1 .. n -> S] /\ n \in Nat
  BY DEF IsList
<1> HIDE DEF S
<1>2. s \in Seq(S) /\ e \in S
  <2>1. e \in S
    BY DEF S
  <2> QED
    BY <1>1, <2>1
<1>3. Append(s, e) \in Seq(S) /\ Len(Append(s, e)) = n + 1
  BY <1>2
<1>4. \A i \in 1 .. n + 1 : Append(s, e)[i] = IF i = n + 1 THEN e ELSE s[i]
  BY <1>2
<1>5. Append(s, e) = [i \in 1 .. n + 1 |-> Append(s, e)[i]]
  BY Zenon, <1>3, ListIs
<1> QED
  BY <1>1, <1>3, <1>4, <1>5 DEF IsList

(* What a step makes of a call, a request and a socket. *)
LEMMA CallsMadeOf ==
  /\ IsTransportCall([outcome |-> "none", applied |-> 0, retried |-> 0])
  /\ \A c : IsTransportCall(c) =>
       /\ \A o : /\ IsTransportCall([c EXCEPT !.outcome = o]) /\ [c EXCEPT !.outcome = o].outcome = o
                 /\ [c EXCEPT !.outcome = o].applied = c.applied
                 /\ [c EXCEPT !.outcome = o].retried = c.retried
       /\ \A n \in Nat : /\ IsTransportCall([c EXCEPT !.applied = @ + n])
                         /\ [c EXCEPT !.applied = @ + n].outcome = c.outcome
                         /\ [c EXCEPT !.applied = @ + n].applied = c.applied + n
                         /\ [c EXCEPT !.applied = @ + n].retried = c.retried
       /\ IsTransportCall([c EXCEPT !.retried = @ + 1])
       /\ [c EXCEPT !.retried = @ + 1].outcome = c.outcome
       /\ [c EXCEPT !.retried = @ + 1].applied = c.applied
       /\ [c EXCEPT !.retried = @ + 1].retried = c.retried + 1
  BY DEF IsTransportCall
LEMMA SocketsMadeOf ==
  \A s : IsSocket(s) => \A t : /\ IsSocket([s EXCEPT !.state = t])
                               /\ [s EXCEPT !.state = t].state = t
                               /\ [s EXCEPT !.state = t].heard = s.heard
  BY DEF IsSocket
LEMMA OpenIs ==
  \A s : IsSocket(s) => (s = [state |-> "open", heard |-> TRUE] <=>
                           s.state = "open" /\ s.heard = TRUE)
  BY DEF IsSocket
LEMMA RequestsMadeOf ==
  \A r : IsRequest(r) => \A t : /\ IsRequest([r EXCEPT !.status = t])
                                /\ [r EXCEPT !.status = t].status = t
                                /\ [r EXCEPT !.status = t].call = r.call
  BY DEF IsRequest

(* The requests of a call are finitely many, the answered among them. *)
LEMMA AskedCount ==
  ASSUME TransportShapes, NEW i
  PROVE  /\ IsFiniteSet(Asked(i)) /\ IsFiniteSet(Replied(i))
         /\ Cardinality(Asked(i)) \in Nat /\ Cardinality(Replied(i)) \in Nat
         /\ Cardinality(Replied(i)) <= Cardinality(Asked(i))
<1>1. IsFiniteSet(1 .. Len(requests)) /\ DOMAIN requests = 1 .. Len(requests)
  <2>1. Len(requests) \in Nat /\ DOMAIN requests = 1 .. Len(requests)
    BY DEF TransportShapes
  <2> QED
    BY <2>1, FS_Interval
<1>2. Asked(i) \subseteq 1 .. Len(requests) /\ Replied(i) \subseteq Asked(i)
  BY <1>1 DEF Asked, Replied
<1>3. IsFiniteSet(Asked(i))
  BY <1>1, <1>2, FS_Subset
<1> QED
  BY <1>2, <1>3, FS_Subset, FS_CardinalityType

(* A socket whose state is changed is still one. *)
LEMMA SocketChanged ==
  ASSUME TransportShapes, NEW s \in DOMAIN sockets, NEW t,
         sockets' = [sockets EXCEPT ![s].state = t]
  PROVE  /\ IsList(sockets') /\ Len(sockets') = Len(sockets) /\ s \in 1 .. Len(sockets)
         /\ \A i \in 1 .. Len(sockets) : IsSocket(sockets'[i])
         /\ \A i \in 1 .. Len(sockets) : /\ sockets'[i].state = IF i = s THEN t ELSE sockets[i].state
                                        /\ sockets'[i].heard = sockets[i].heard
<1>1. IsList(sockets) /\ s \in 1 .. Len(sockets) /\ \A i \in 1 .. Len(sockets) : IsSocket(sockets[i])
  BY DEF TransportShapes, IsList
<1> DEFINE e == [sockets[s] EXCEPT !.state = t]
<1>2. sockets' = [sockets EXCEPT ![s] = e]
  OBVIOUS
<1>3. IsSocket(e) /\ e.state = t /\ e.heard = sockets[s].heard
  BY <1>1, SocketsMadeOf
<1> HIDE DEF e
<1>4. /\ IsList(sockets') /\ Len(sockets') = Len(sockets)
      /\ \A i \in 1 .. Len(sockets) : sockets'[i] = IF i = s THEN e ELSE sockets[i]
  <2>1. DOMAIN sockets = 1 .. Len(sockets) /\ Len(sockets) \in Nat
    BY <1>1, <1>2 DEF IsList
  <2>2. DOMAIN sockets' = 1 .. Len(sockets) /\ sockets' = [i \in 1 .. Len(sockets) |-> sockets'[i]]
    BY Zenon, <1>1, <1>2, <2>1
  <2>3. Len(sockets') = Len(sockets)
    BY <2>1, <2>2
  <2>4. \A i \in 1 .. Len(sockets) : sockets'[i] = IF i = s THEN e ELSE sockets[i]
    BY <1>1, <1>2, <2>1
  <2> QED
    BY <2>1, <2>2, <2>3, <2>4 DEF IsList
<1> QED
  BY <1>1, <1>3, <1>4

(* What a call that ends leaves. *)
LEMMA CallSettles ==
  ASSUME TransportShapes, CallsMade >= 1, NEW o, Settles(o)
  PROVE  /\ IsList(transportCalls') /\ Len(transportCalls') = Len(transportCalls)
         /\ \A i \in 1 .. Len(transportCalls) :
              /\ IsTransportCall(transportCalls'[i])
              /\ transportCalls'[i].outcome = IF i = CallsMade THEN o ELSE transportCalls[i].outcome
              /\ transportCalls'[i].applied = transportCalls[i].applied
              /\ transportCalls'[i].retried = transportCalls[i].retried
         /\ IsCall(call') /\ call'.pc = "idle"
<1>1. /\ IsList(transportCalls) /\ CallsMade \in 1 .. Len(transportCalls)
      /\ \A i \in 1 .. Len(transportCalls) : IsTransportCall(transportCalls[i])
  BY DEF TransportShapes, IsList, CallsMade
<1> DEFINE e == [transportCalls[CallsMade] EXCEPT !.outcome = o]
<1>2. transportCalls' = [transportCalls EXCEPT ![CallsMade] = e]
  BY DEF Settles
<1>3. /\ IsTransportCall(e) /\ e.outcome = o /\ e.applied = transportCalls[CallsMade].applied
      /\ e.retried = transportCalls[CallsMade].retried
  BY ZenonT(30), <1>1, CallsMadeOf
<1> HIDE DEF e
<1>4. /\ IsList(transportCalls') /\ Len(transportCalls') = Len(transportCalls)
      /\ \A i \in 1 .. Len(transportCalls) :
           transportCalls'[i] = IF i = CallsMade THEN e ELSE transportCalls[i]
  <2>1. DOMAIN transportCalls = 1 .. Len(transportCalls) /\ Len(transportCalls) \in Nat
    BY <1>1, <1>2 DEF IsList
  <2>2. DOMAIN transportCalls' = 1 .. Len(transportCalls) /\ transportCalls' = [i \in 1 .. Len(transportCalls) |-> transportCalls'[i]]
    BY Zenon, <1>1, <1>2, <2>1
  <2>3. Len(transportCalls') = Len(transportCalls)
    BY <2>1, <2>2
  <2>4. \A i \in 1 .. Len(transportCalls) : transportCalls'[i] = IF i = CallsMade THEN e ELSE transportCalls[i]
    BY <1>1, <1>2, <2>1
  <2> QED
    BY <2>1, <2>2, <2>3, <2>4 DEF IsList
<1>5. IsCall(call') /\ call'.pc = "idle"
  BY DEF Settles, NoTransportCall, IsCall
<1> QED
  BY <1>3, <1>4, <1>1, <1>5

(* What trying again leaves. *)
LEMMA CallRetried ==
  ASSUME TransportShapes, CallsMade >= 1,
         transportCalls' = [transportCalls EXCEPT ![CallsMade].retried = @ + 1]
  PROVE  /\ IsList(transportCalls') /\ Len(transportCalls') = Len(transportCalls)
         /\ \A i \in 1 .. Len(transportCalls) :
              /\ IsTransportCall(transportCalls'[i])
              /\ transportCalls'[i].outcome = transportCalls[i].outcome
              /\ transportCalls'[i].applied = transportCalls[i].applied
              /\ transportCalls'[i].retried = 
                   IF i = CallsMade THEN transportCalls[i].retried + 1 ELSE transportCalls[i].retried
<1>1. /\ IsList(transportCalls) /\ CallsMade \in 1 .. Len(transportCalls)
      /\ \A i \in 1 .. Len(transportCalls) : IsTransportCall(transportCalls[i])
  BY DEF TransportShapes, IsList, CallsMade
<1> DEFINE e == [transportCalls[CallsMade] EXCEPT !.retried = @ + 1]
<1>2. transportCalls' = [transportCalls EXCEPT ![CallsMade] = e]
  OBVIOUS
<1>3. /\ IsTransportCall(e) /\ e.outcome = transportCalls[CallsMade].outcome
      /\ e.applied = transportCalls[CallsMade].applied
      /\ e.retried = transportCalls[CallsMade].retried + 1
  BY <1>1, CallsMadeOf
<1> HIDE DEF e
<1>4. /\ IsList(transportCalls') /\ Len(transportCalls') = Len(transportCalls)
      /\ \A i \in 1 .. Len(transportCalls) :
           transportCalls'[i] = IF i = CallsMade THEN e ELSE transportCalls[i]
  <2>1. DOMAIN transportCalls = 1 .. Len(transportCalls) /\ Len(transportCalls) \in Nat
    BY <1>1, <1>2 DEF IsList
  <2>2. DOMAIN transportCalls' = 1 .. Len(transportCalls) /\ transportCalls' = [i \in 1 .. Len(transportCalls) |-> transportCalls'[i]]
    BY Zenon, <1>1, <1>2, <2>1
  <2>3. Len(transportCalls') = Len(transportCalls)
    BY <2>1, <2>2
  <2>4. \A i \in 1 .. Len(transportCalls) : transportCalls'[i] = IF i = CallsMade THEN e ELSE transportCalls[i]
    BY <1>1, <1>2, <2>1
  <2> QED
    BY <2>1, <2>2, <2>3, <2>4 DEF IsList
<1> QED
  BY <1>3, <1>4, <1>1

(* What an answer of the platform leaves: one more of the call's requests is
   answered, and the call is done once at most. *)
LEMMA PlatformAnswered ==
  ASSUME TransportShapes, NEW r \in DOMAIN requests, PlatformAnswers(r)
  PROVE  /\ IsList(transportCalls') /\ Len(transportCalls') = Len(transportCalls)
         /\ IsList(requests') /\ Len(requests') = Len(requests)
         /\ r \in 1 .. Len(requests) /\ requests[r].status = "none" /\ requests'[r].status # "none"
         /\ \A i \in 1 .. Len(requests) :
              /\ IsRequest(requests'[i]) /\ requests'[i].call = requests[i].call
              /\ i # r => requests'[i].status = requests[i].status
         /\ UNCHANGED <<call, sockets, ws, forgotten>>
         /\ \E done \in {0, 1} :
              /\ requests'[r].status = "ok" => done = 1
              /\ \A i \in 1 .. Len(transportCalls) :
                   /\ IsTransportCall(transportCalls'[i])
                   /\ transportCalls'[i].outcome = transportCalls[i].outcome
                   /\ transportCalls'[i].retried = transportCalls[i].retried
                   /\ transportCalls'[i].applied =
                        transportCalls[i].applied + IF i = requests[r].call THEN done ELSE 0
<1>1. PICK s \in Statuses, done \in {0, 1} :
        /\ s = "ok" => done = 1
        /\ requests' = [requests EXCEPT ![r].status = s]
        /\ transportCalls' = [transportCalls EXCEPT ![requests[r].call].applied = @ + done]
        /\ requests[r].status = "none" /\ UNCHANGED <<call, sockets, ws, forgotten>>
  BY Zenon DEF PlatformAnswers
<1>2. /\ IsList(transportCalls) /\ IsList(requests) /\ r \in 1 .. Len(requests)
      /\ \A i \in 1 .. Len(transportCalls) : IsTransportCall(transportCalls[i])
      /\ \A i \in 1 .. Len(requests) : IsRequest(requests[i])
  BY DEF TransportShapes, IsList
<1>3. PICK k : k = requests[r].call /\ k \in 1 .. Len(transportCalls)
  BY Zenon, <1>2 DEF IsRequest
<1> DEFINE e == [requests[r] EXCEPT !.status = s]
           c == [transportCalls[k] EXCEPT !.applied = @ + done]
<1>4. IsRequest(e) /\ e.status = s /\ e.call = requests[r].call
  BY Zenon, <1>2, RequestsMadeOf
<1>5. /\ IsTransportCall(c) /\ c.outcome = transportCalls[k].outcome
      /\ c.applied = transportCalls[k].applied + done /\ c.retried = transportCalls[k].retried
  <2>1. IsTransportCall(transportCalls[k]) /\ done \in Nat
    BY <1>1, <1>2, <1>3
  <2> QED
    BY Zenon, <2>1, CallsMadeOf
<1>6. requests' = [requests EXCEPT ![r] = e] /\ transportCalls' = [transportCalls EXCEPT ![k] = c]
  BY <1>1, <1>3
<1> HIDE DEF e, c
<1>7. /\ IsList(requests') /\ Len(requests') = Len(requests)
      /\ \A i \in 1 .. Len(requests) : requests'[i] = IF i = r THEN e ELSE requests[i]
  <2>1. DOMAIN requests = 1 .. Len(requests) /\ Len(requests) \in Nat
    BY <1>2, <1>6 DEF IsList
  <2>2. DOMAIN requests' = 1 .. Len(requests) /\ requests' = [i \in 1 .. Len(requests) |-> requests'[i]]
    BY Zenon, <1>2, <1>6, <2>1
  <2>3. Len(requests') = Len(requests)
    BY <2>1, <2>2
  <2>4. \A i \in 1 .. Len(requests) : requests'[i] = IF i = r THEN e ELSE requests[i]
    BY <1>2, <1>6, <2>1
  <2> QED
    BY <2>1, <2>2, <2>3, <2>4 DEF IsList
<1>8. /\ IsList(transportCalls') /\ Len(transportCalls') = Len(transportCalls)
      /\ \A i \in 1 .. Len(transportCalls) :
           transportCalls'[i] = IF i = k THEN c ELSE transportCalls[i]
  <2>1. DOMAIN transportCalls = 1 .. Len(transportCalls) /\ Len(transportCalls) \in Nat
    BY <1>2, <1>3, <1>6 DEF IsList
  <2>2. DOMAIN transportCalls' = 1 .. Len(transportCalls) /\ transportCalls' = [i \in 1 .. Len(transportCalls) |-> transportCalls'[i]]
    BY Zenon, <1>2, <1>3, <1>6, <2>1
  <2>3. Len(transportCalls') = Len(transportCalls)
    BY <2>1, <2>2
  <2>4. \A i \in 1 .. Len(transportCalls) : transportCalls'[i] = IF i = k THEN c ELSE transportCalls[i]
    BY <1>2, <1>3, <1>6, <2>1
  <2> QED
    BY <2>1, <2>2, <2>3, <2>4 DEF IsList
<1>9. \A i \in 1 .. Len(transportCalls) : transportCalls[i].applied \in Nat
  BY Zenon, <1>2 DEF IsTransportCall
<1>10. \A i \in 1 .. Len(requests) :
         /\ IsRequest(requests'[i]) /\ requests'[i].call = requests[i].call
         /\ i # r => requests'[i].status = requests[i].status
  BY <1>2, <1>4, <1>7
<1>11. requests'[r].status = s /\ s # "none"
  BY <1>2, <1>4, <1>7 DEF Statuses
<1>12. \A i \in 1 .. Len(transportCalls) :
         /\ IsTransportCall(transportCalls'[i])
         /\ transportCalls'[i].outcome = transportCalls[i].outcome
         /\ transportCalls'[i].retried = transportCalls[i].retried
         /\ transportCalls'[i].applied =
              transportCalls[i].applied + IF i = requests[r].call THEN done ELSE 0
  BY <1>2, <1>3, <1>5, <1>8, <1>9
<1> QED
  BY Zenon, <1>1, <1>2, <1>7, <1>8, <1>10, <1>11, <1>12

LEMMA TransportBegins == TransportInit => TransportInv
<1> SUFFICES ASSUME TransportInit PROVE TransportInv
  OBVIOUS
<1>1. TransportShapes
  BY DEF TransportInit, TransportShapes, NoTransportCall, IsList, IsCall
<1> QED
  BY <1>1 DEF TransportInit, TransportInv, AskedAsOften, OkIsDone, UsesOne, NoTransportCall, Open

(* What a frame that is sent, and nothing else, does to the requests. *)
LEMMA FrameSent ==
  ASSUME TransportInv, NEW s, Sent(s), CallsMade >= 1,
         UNCHANGED transportCalls, TransportShapes',
         Cardinality(Asked(CallsMade)) <= transportCalls[CallsMade].retried
  PROVE  AskedAsOften' /\ OkIsDone'
<1>0. PICK c : c = Len(transportCalls)
  BY Zenon
<1>a. PICK n : n = Len(requests)
  BY Zenon
<1>1. /\ n \in Nat /\ Len(requests') = n + 1 /\ DOMAIN requests = 1 .. n /\ DOMAIN requests' = 1 .. n + 1
      /\ \A r \in 1 .. n : requests'[r] = requests[r]
      /\ requests'[n + 1].call = c /\ requests'[n + 1].status = "none"
  <2>1. requests' = Append(requests, [call |-> c, socket |-> s, status |-> "none"])
    BY <1>0 DEF Sent, CallsMade
  <2>2. n \in Nat /\ requests = [i \in 1 .. n |-> requests[i]]
    BY <1>a DEF TransportInv, TransportShapes, IsList
  <2> QED
    BY <1>a, <2>1, <2>2, Longer DEF IsList
<1>2. c \in Nat /\ c >= 1 /\ DOMAIN transportCalls = 1 .. c /\ transportCalls' = transportCalls
  BY <1>0 DEF CallsMade, TransportInv, TransportShapes
<1>3. call'.pc = "waiting" /\ call'.request = n + 1
  BY <1>a DEF Sent, TransportInv, TransportShapes
<1>4. Asked(c)' = Asked(c) \cup {n + 1} /\ n + 1 \notin Asked(c)
  BY <1>1 DEF Asked
<1>5. \A i \in 1 .. c : i # c => Asked(i)' = Asked(i)
  BY <1>1 DEF Asked
<1>6. \A i \in 1 .. c : Replied(i)' = Replied(i)
  BY <1>1 DEF Asked, Replied
<1>7. Cardinality(Asked(c)') = Cardinality(Asked(c)) + 1 /\ Cardinality(Asked(c)) \in Nat
  BY Zenon, <1>4, AskedCount, FS_AddElement DEF TransportInv
<1>8. AskedAsOften'
  <2> SUFFICES ASSUME NEW i \in 1 .. c
               PROVE  /\ Cardinality(Asked(i)') <= transportCalls[i].retried + 1
                      /\ transportCalls[i].applied <= Cardinality(Replied(i)')
                      /\ transportCalls[i].outcome = "ok" => transportCalls[i].applied >= 1
    BY <1>2, <1>3 DEF AskedAsOften
  <2>1. /\ Cardinality(Asked(i)) <= transportCalls[i].retried + 1
        /\ transportCalls[i].applied <= Cardinality(Replied(i))
        /\ transportCalls[i].outcome = "ok" => transportCalls[i].applied >= 1
    BY <1>2 DEF TransportInv, AskedAsOften
  <2>2. CASE i = c
    <3>1. transportCalls[c].retried \in Nat
      <4>1. c \in 1 .. Len(transportCalls)
        BY <1>0, <1>2
      <4>2. \A j \in 1 .. Len(transportCalls) : IsTransportCall(transportCalls[j])
        BY DEF TransportInv, TransportShapes
      <4> QED
        BY Zenon, <4>1, <4>2 DEF IsTransportCall
    <3>2. Cardinality(Asked(c)) <= transportCalls[c].retried
      BY <1>0 DEF CallsMade
    <3>3. Cardinality(Asked(c)') <= transportCalls[c].retried + 1
      BY <1>7, <3>1, <3>2
    <3> QED
      BY <1>6, <2>1, <2>2, <3>3
  <2>3. CASE i # c
    BY <1>5, <1>6, <2>1, <2>3
  <2> QED
    BY <2>2, <2>3
<1>9. OkIsDone'
  <2>1. \A r \in DOMAIN requests : requests[r].status = "ok" =>
          transportCalls[requests[r].call].applied >= 1
    BY DEF TransportInv, OkIsDone
  <2>2. \A r \in DOMAIN requests' : requests'[r].status = "ok" =>
          transportCalls'[requests'[r].call].applied >= 1
    BY <1>1, <1>2, <2>1
  <2>3. CallsMade' = c /\ CallsMade' >= 1
    BY <1>0, <1>2 DEF CallsMade
  <2> QED
    BY <1>1, <1>3, <2>2, <2>3 DEF OkIsDone
<1> QED
  BY <1>8, <1>9

(* The lists keep being made of what they are made of. *)
LEMMA TransportTypes ==
  ASSUME TransportInv, [TransportNext]_transportVars PROVE TransportShapes'
<1>0. TransportShapes /\ OkIsDone
  BY DEF TransportInv
<1> USE <1>0
<1>1. CASE CallStarts
  <2>1. /\ IsList(transportCalls') /\ Len(transportCalls') = Len(transportCalls) + 1
        /\ \A i \in 1 .. Len(transportCalls) + 1 : transportCalls'[i] =
             IF i = Len(transportCalls) + 1 THEN [outcome |-> "none", applied |-> 0, retried |-> 0]
             ELSE transportCalls[i]
    BY <1>1, Longer DEF CallStarts, TransportShapes
  <2>2. \A i \in 1 .. Len(transportCalls') : IsTransportCall(transportCalls'[i])
    BY <2>1, CallsMadeOf DEF TransportShapes, IsList
  <2>3. \A i \in 1 .. Len(requests) : IsRequest(requests[i])'
    BY <1>1, <2>1 DEF TransportShapes, IsRequest, IsList, CallStarts
  <2>4. IsCall(call') /\ call'.pc = "dispatch"
    BY Zenon, <1>1 DEF CallStarts, NoTransportCall, IsCall
  <2> QED
    BY <1>1, <2>1, <2>2, <2>3, <2>4 DEF CallStarts, TransportShapes
<1>2. ASSUME NEW s, Sent(s), CallsMade >= 1, UNCHANGED transportCalls,
             IsList(sockets'), Len(sockets') = Len(sockets), ws' \in 0 .. Len(sockets),
             \A i \in 1 .. Len(sockets) : IsSocket(sockets'[i])
      PROVE  TransportShapes'
  <2> DEFINE r == [call |-> CallsMade, socket |-> s, status |-> "none"]
  <2>1. /\ IsList(requests') /\ Len(requests') = Len(requests) + 1
        /\ \A i \in 1 .. Len(requests) + 1 :
             requests'[i] = IF i = Len(requests) + 1 THEN r ELSE requests[i]
    BY <1>2, Longer DEF Sent, TransportShapes
  <2>2. IsRequest(r)
    BY <1>2 DEF IsRequest, CallsMade, TransportShapes, IsList
  <2> HIDE DEF r
  <2>3. \A i \in 1 .. Len(requests') : IsRequest(requests'[i])
    BY <2>1, <2>2 DEF TransportShapes, IsList
  <2>4. IsCall(call') /\ call'.pc = "waiting"
    BY Zenon, <1>2 DEF Sent, IsCall, TransportShapes
  <2>5. \A i \in 1 .. Len(requests') : IsRequest(requests[i])'
    BY Zenon, <1>2, <2>3 DEF IsRequest
  <2> QED
    BY <1>2, <2>1, <2>4, <2>5 DEF TransportShapes
<1>3. CASE Dispatch
  <2>1. CallsMade >= 1
    BY <1>3 DEF Dispatch, OkIsDone
  <2>2. CASE Sent(ws)
    BY <1>2, <1>3, <2>1, <2>2 DEF Dispatch, TransportShapes
  <2>3. CASE call' = [call EXCEPT !.pc = "token"] /\ UNCHANGED requests
    <3>1. IsCall(call') /\ call'.pc = "token"
      BY <2>3 DEF IsCall, TransportShapes
    <3> QED
      BY <1>3, <2>3, <3>1 DEF Dispatch, TransportShapes, IsRequest
  <2> QED
    BY <1>3, <2>2, <2>3 DEF Dispatch
<1>4. CASE TokenComes
  <2>1. /\ IsList(sockets') /\ Len(sockets') = Len(sockets) + 1
        /\ \A i \in 1 .. Len(sockets) + 1 : sockets'[i] =
             IF i = Len(sockets) + 1 THEN [state |-> "connecting", heard |-> FALSE] ELSE sockets[i]
    BY <1>4, Longer DEF TokenComes, TransportShapes
  <2>2. IsSocket([state |-> "connecting", heard |-> FALSE])
    BY DEF IsSocket
  <2>3. \A i \in 1 .. Len(sockets') : IsSocket(sockets'[i])
    <3>1. Len(sockets) \in Nat /\ \A i \in 1 .. Len(sockets) : IsSocket(sockets[i])
      BY DEF TransportShapes, IsList
    <3>2. ASSUME NEW i \in 1 .. Len(sockets') PROVE IsSocket(sockets'[i])
      <4>1. i \in 1 .. Len(sockets) + 1 /\ (i = Len(sockets) + 1 \/ i \in 1 .. Len(sockets))
        BY <2>1, <3>1
      <4>2. CASE i = Len(sockets) + 1
        BY Zenon, <2>1, <2>2, <4>1, <4>2
      <4>3. CASE i # Len(sockets) + 1
        BY <2>1, <3>1, <4>1, <4>3
      <4> QED
        BY <4>2, <4>3
    <3> QED
      BY <3>2
  <2>4. IsCall(call') /\ call'.pc = "opening"
    BY Zenon, <1>4 DEF TokenComes, IsCall, TransportShapes
  <2>5. ws' \in 0 .. Len(sockets')
    BY <1>4, <2>1 DEF TokenComes, TransportShapes, IsList
  <2> QED
    BY <1>4, <2>1, <2>3, <2>4, <2>5 DEF TokenComes, TransportShapes, IsRequest
<1>5. ASSUME NEW o, Settles(o), CallsMade >= 1, UNCHANGED <<requests>>,
             IsList(sockets'), Len(sockets') = Len(sockets), ws' \in 0 .. Len(sockets),
             \A i \in 1 .. Len(sockets) : IsSocket(sockets'[i])
      PROVE  TransportShapes'
  <2>1. /\ IsList(transportCalls') /\ Len(transportCalls') = Len(transportCalls)
        /\ \A i \in 1 .. Len(transportCalls) : IsTransportCall(transportCalls'[i])
        /\ IsCall(call') /\ call'.pc = "idle"
    BY <1>5, CallSettles
  <2>2. \A i \in 1 .. Len(requests) : IsRequest(requests[i])'
    BY <1>5, <2>1 DEF TransportShapes, IsRequest
  <2> QED
    BY <1>5, <2>1, <2>2 DEF TransportShapes
<1>6. CASE ConnectionFails
  <2>1. Settles("failed") /\ UNCHANGED <<ws, requests>> /\ CallsMade >= 1
    BY <1>6 DEF ConnectionFails, OkIsDone
  <2>2. CASE UNCHANGED sockets
    BY <1>5, <2>1, <2>2 DEF TransportShapes
  <2>3. CASE call.pc = "opening" /\ sockets' = [sockets EXCEPT ![call.socket].state = "closed"]
    <3>1. call.socket \in DOMAIN sockets
      BY <2>3 DEF TransportInv, UsesOne
    <3> QED
      BY Zenon, <1>5, <2>1, <2>3, <3>1, SocketChanged DEF TransportShapes
  <2> QED
    BY <1>6, <2>2, <2>3 DEF ConnectionFails
<1>7. CASE ConnectionTimesOut
  BY <1>5, <1>7 DEF ConnectionTimesOut, TransportShapes, OkIsDone
<1>8. ASSUME NEW s \in DOMAIN sockets, SocketOpens(s) PROVE TransportShapes'
  <2>1. s \in 1 .. Len(sockets)
    BY <1>8 DEF TransportShapes, IsList
  <2>2. CASE call.pc = "opening" /\ call.socket = s
    <3>1. /\ sockets' = [sockets EXCEPT ![s] = [state |-> "open", heard |-> TRUE]]
          /\ ws' = s /\ Sent(s) /\ UNCHANGED transportCalls
      BY <1>8, <2>2 DEF SocketOpens
    <3>2. CallsMade >= 1
      BY <2>2 DEF OkIsDone
    <3>3. IsSocket([state |-> "open", heard |-> TRUE])
      BY DEF IsSocket
    <3>4. /\ IsList(sockets') /\ Len(sockets') = Len(sockets)
          /\ \A i \in 1 .. Len(sockets) :
               sockets'[i] = IF i = s THEN [state |-> "open", heard |-> TRUE] ELSE sockets[i]
      <4>1. DOMAIN sockets = 1 .. Len(sockets) /\ Len(sockets) \in Nat
        BY <2>1, <3>1 DEF IsList, TransportShapes
      <4>2. DOMAIN sockets' = 1 .. Len(sockets) /\ sockets' = [i \in 1 .. Len(sockets) |-> sockets'[i]]
        BY Zenon, <2>1, <3>1, <4>1
      <4>3. Len(sockets') = Len(sockets)
        BY <4>1, <4>2
      <4>4. \A i \in 1 .. Len(sockets) : sockets'[i] = IF i = s THEN [state |-> "open", heard |-> TRUE] ELSE sockets[i]
        BY <2>1, <3>1, <4>1
      <4> QED
        BY <4>1, <4>2, <4>3, <4>4 DEF IsList
    <3>5. \A i \in 1 .. Len(sockets) : IsSocket(sockets'[i])
      BY <3>3, <3>4 DEF TransportShapes
    <3>6. ws' \in 0 .. Len(sockets)
      BY <2>1, <3>1 DEF TransportShapes, IsList
    <3> QED
      BY <1>2, <3>1, <3>2, <3>4, <3>5, <3>6
  <2>3. CASE ~(call.pc = "opening" /\ call.socket = s)
    <3>1. sockets' = [sockets EXCEPT ![s].state = "open"] /\ UNCHANGED <<ws, call, requests, transportCalls>>
      BY <1>8, <2>3 DEF SocketOpens
    <3> QED
      BY Zenon, <3>1, SocketChanged DEF TransportShapes, IsRequest
  <2> QED
    BY <2>2, <2>3
<1>9. ASSUME NEW s \in DOMAIN sockets, SocketCloses(s) PROVE TransportShapes'
  BY Zenon, <1>9, SocketChanged DEF SocketCloses, TransportShapes, IsRequest
<1>10. ASSUME NEW s \in DOMAIN sockets, SocketClosed(s) PROVE TransportShapes'
  <2>1. sockets' = [sockets EXCEPT ![s].state = "closed"] /\ UNCHANGED requests /\ ws' \in {0, ws}
    BY <1>10 DEF SocketClosed
  <2>2. /\ IsList(sockets') /\ Len(sockets') = Len(sockets)
        /\ \A i \in 1 .. Len(sockets) : IsSocket(sockets'[i])
    BY Zenon, <2>1, SocketChanged
  <2>3. ws' \in 0 .. Len(sockets)
    BY <2>1 DEF TransportShapes, IsList
  <2>4. CASE Settles("failed") /\ call.pc = "waiting"
    BY <1>5, <2>1, <2>2, <2>3, <2>4 DEF OkIsDone
  <2>5. CASE UNCHANGED <<call, transportCalls>>
    BY <2>1, <2>2, <2>3, <2>5 DEF TransportShapes, IsRequest
  <2> QED
    BY <1>10, <2>4, <2>5 DEF SocketClosed
<1>11. ASSUME NEW r \in DOMAIN requests, PlatformAnswers(r) PROVE TransportShapes'
  BY <1>11, PlatformAnswered DEF TransportShapes, IsRequest
<1>12. CASE TransportAnswer
  <2>1. CASE Settles("ok") \/ Settles("failed")
    BY <1>5, <1>12, <2>1 DEF TransportAnswer, TransportShapes, OkIsDone
  <2>2. CASE /\ call' = [call EXCEPT !.pc = "delay"]
             /\ transportCalls' = [transportCalls EXCEPT ![CallsMade].retried = @ + 1]
    <3>1. CallsMade >= 1
      BY <1>12 DEF TransportAnswer, OkIsDone
    <3>2. /\ IsList(transportCalls') /\ Len(transportCalls') = Len(transportCalls)
          /\ \A i \in 1 .. Len(transportCalls) : IsTransportCall(transportCalls'[i])
      BY <2>2, <3>1, CallRetried
    <3>3. IsCall(call') /\ call'.pc = "delay"
      BY <2>2 DEF TransportShapes, IsCall
    <3> QED
      BY <1>12, <3>2, <3>3 DEF TransportAnswer, TransportShapes, IsRequest
  <2> QED
    BY <1>12, <2>1, <2>2 DEF TransportAnswer
<1>13. CASE DelayEnds
  <2>1. IsCall(call') /\ call'.pc = "dispatch"
    BY Zenon, <1>13 DEF DelayEnds, TransportShapes, IsCall
  <2> QED
    BY <1>13, <2>1 DEF DelayEnds, TransportShapes, IsRequest
<1>14. CASE RequestTimesOut
  BY <1>5, <1>14 DEF RequestTimesOut, TransportShapes, OkIsDone
<1>15. CASE UNCHANGED transportVars
  BY <1>15 DEF transportVars, TransportShapes, IsRequest
<1> QED
  BY <1>1, <1>3, <1>4, <1>6, <1>7, <1>8, <1>9, <1>10, <1>11, <1>12, <1>13, <1>14, <1>15
  DEF TransportNext

(* A step that neither asks nor is answered, and begins nothing. *)
LEMMA NothingAsked ==
  ASSUME TransportInv, UNCHANGED requests, IsList(transportCalls'),
         Len(transportCalls') = Len(transportCalls), TransportShapes',
         \A i \in 1 .. Len(transportCalls) :
           /\ transportCalls'[i].applied = transportCalls[i].applied
           /\ transportCalls'[i].retried = transportCalls[i].retried
           /\ transportCalls'[i].outcome = "ok" /\ transportCalls[i].outcome # "ok" =>
                transportCalls[i].applied >= 1,
         call'.pc \in {"dispatch", "token", "opening", "delay"} =>
           call.pc \in {"dispatch", "token", "opening", "delay"},
         call'.pc # "idle" => call.pc # "idle",
         call'.pc = "waiting" => call.pc = "waiting" /\ UNCHANGED call
  PROVE  AskedAsOften' /\ OkIsDone'
<1>1. /\ DOMAIN transportCalls = 1 .. Len(transportCalls)
      /\ DOMAIN transportCalls' = 1 .. Len(transportCalls)
      /\ CallsMade' = CallsMade
  BY DEF TransportInv, TransportShapes, IsList, CallsMade
<1>2. \A i : Asked(i)' = Asked(i) /\ Replied(i)' = Replied(i)
  BY DEF Asked, Replied
<1>3. AskedAsOften'
  <2>1. \A i \in 1 .. Len(transportCalls) :
          /\ Cardinality(Asked(i)) <= transportCalls[i].retried + 1
          /\ i = CallsMade /\ call.pc \in {"dispatch", "token", "opening", "delay"} =>
               Cardinality(Asked(i)) <= transportCalls[i].retried
          /\ transportCalls[i].applied <= Cardinality(Replied(i))
          /\ transportCalls[i].outcome = "ok" => transportCalls[i].applied >= 1
    BY <1>1 DEF TransportInv, AskedAsOften
  <2> QED
    BY <1>1, <1>2, <2>1 DEF AskedAsOften
<1>4. \A r \in DOMAIN requests : requests[r].call \in 1 .. Len(transportCalls)
  BY DEF TransportInv, TransportShapes, IsRequest, IsList
<1>5. OkIsDone'
  BY <1>1, <1>4 DEF TransportInv, OkIsDone
<1> QED
  BY <1>3, <1>5

(* A socket that opens or closes is not the one in use. *)
LEMMA SocketMoves ==
  ASSUME TransportInv, NEW s \in DOMAIN sockets, NEW t, t \in {"open", "closing", "closed"},
         sockets' = [sockets EXCEPT ![s].state = t],
         t = "open" => sockets[s].state = "connecting"
  PROVE  /\ DOMAIN sockets = 1 .. Len(sockets) /\ DOMAIN sockets' = DOMAIN sockets
         /\ \A i \in DOMAIN sockets :
              /\ Open(i)' => i # s /\ Open(i)
              /\ sockets'[i].heard = sockets[i].heard
              /\ sockets'[i].state = "connecting" => sockets[i].state = "connecting"
              /\ sockets'[i].state = "open" /\ sockets[i].heard = TRUE => sockets[i].state = "open"
<1>1. /\ IsList(sockets') /\ Len(sockets') = Len(sockets) /\ s \in 1 .. Len(sockets)
      /\ \A i \in 1 .. Len(sockets) : IsSocket(sockets'[i])
      /\ \A i \in 1 .. Len(sockets) : /\ sockets'[i].state = IF i = s THEN t ELSE sockets[i].state
                                      /\ sockets'[i].heard = sockets[i].heard
  BY Zenon, SocketChanged DEF TransportInv
<1>2. /\ DOMAIN sockets = 1 .. Len(sockets) /\ DOMAIN sockets' = 1 .. Len(sockets)
      /\ \A i \in 1 .. Len(sockets) : IsSocket(sockets[i])
  BY <1>1 DEF TransportInv, TransportShapes, IsList
<1>3. \A i \in DOMAIN sockets : Open(i) <=> sockets[i].state = "open" /\ sockets[i].heard = TRUE
  BY <1>2, OpenIs DEF Open
<1>4. \A i \in DOMAIN sockets : Open(i)' <=> sockets'[i].state = "open" /\ sockets'[i].heard = TRUE
  BY Zenon, <1>1, <1>2, OpenIs, Zenon DEF Open
<1>5. sockets[s].state = "connecting" => sockets[s].heard = FALSE
  BY <1>2 DEF TransportInv, UsesOne
<1> QED
  BY <1>1, <1>2, <1>3, <1>4, <1>5

(* An answer of the platform does a call once, and answers one request more. *)
LEMMA TransportAnswerStep ==
  ASSUME TransportInv, NEW r \in DOMAIN requests, PlatformAnswers(r)
  PROVE  AskedAsOften' /\ OkIsDone'
<1>1. PICK done \in {0, 1} :
        /\ requests'[r].status = "ok" => done = 1
        /\ \A i \in 1 .. Len(transportCalls) :
             /\ transportCalls'[i].outcome = transportCalls[i].outcome
             /\ transportCalls'[i].retried = transportCalls[i].retried
             /\ transportCalls'[i].applied =
                  transportCalls[i].applied + IF i = requests[r].call THEN done ELSE 0
  BY PlatformAnswered DEF TransportInv
<1>2. /\ IsList(transportCalls') /\ Len(transportCalls') = Len(transportCalls)
      /\ IsList(requests') /\ Len(requests') = Len(requests)
      /\ r \in 1 .. Len(requests) /\ requests[r].status = "none" /\ requests'[r].status # "none"
      /\ \A i \in 1 .. Len(requests) :
           /\ IsRequest(requests'[i]) /\ requests'[i].call = requests[i].call
           /\ i # r => requests'[i].status = requests[i].status
      /\ UNCHANGED <<call, sockets, ws, forgotten>>
  BY PlatformAnswered DEF TransportInv
<1>3. PICK k : k = requests[r].call
  OBVIOUS
<1>4. /\ DOMAIN requests = 1 .. Len(requests) /\ DOMAIN requests' = DOMAIN requests
      /\ DOMAIN transportCalls = 1 .. Len(transportCalls)
      /\ DOMAIN transportCalls' = DOMAIN transportCalls
      /\ \A i \in DOMAIN transportCalls : transportCalls[i].applied \in Nat
      /\ \A q \in DOMAIN requests : requests[q].call \in DOMAIN transportCalls
  BY <1>2 DEF TransportInv, TransportShapes, IsList, IsTransportCall, IsRequest
<1>5. \A i : Asked(i)' = Asked(i)
  BY <1>2, <1>4 DEF Asked
<1>6. Replied(k)' = Replied(k) \cup {r} /\ r \notin Replied(k)
  BY <1>2, <1>3, <1>4 DEF Asked, Replied
<1>7. \A i : i # k => Replied(i)' = Replied(i)
  BY Zenon, <1>2, <1>3, <1>4 DEF Asked, Replied
<1>8. Cardinality(Replied(k)') = Cardinality(Replied(k)) + 1 /\ Cardinality(Replied(k)) \in Nat
  BY Zenon, <1>6, AskedCount, FS_AddElement DEF TransportInv
<1>9. ASSUME NEW i \in DOMAIN transportCalls
      PROVE  /\ transportCalls'[i].applied <= Cardinality(Replied(i)')
             /\ transportCalls'[i].applied >= transportCalls[i].applied
  <2>1. transportCalls[i].applied <= Cardinality(Replied(i)) /\ Cardinality(Replied(i)) \in Nat
    BY <1>9, AskedCount DEF TransportInv, AskedAsOften
  <2>2. CASE i = k
    <3>1. transportCalls'[i].applied = transportCalls[i].applied + done
      BY <1>1, <1>3, <1>4, <2>2
    <3> QED
      BY <1>1, <1>4, <1>8, <2>1, <2>2, <3>1
  <2>3. CASE i # k
    <3>1. transportCalls'[i].applied = transportCalls[i].applied + 0
      BY <1>1, <1>3, <1>4, <2>3
    <3> QED
      BY <1>4, <1>7, <2>1, <2>3, <3>1
  <2> QED
    BY <2>2, <2>3
<1>10. AskedAsOften'
  <2> SUFFICES ASSUME NEW i \in DOMAIN transportCalls
      PROVE  /\ Cardinality(Asked(i)') <= transportCalls'[i].retried + 1
             /\ i = CallsMade' /\ call'.pc \in {"dispatch", "token", "opening", "delay"} =>
                  Cardinality(Asked(i)') <= transportCalls'[i].retried
             /\ transportCalls'[i].applied <= Cardinality(Replied(i)')
             /\ transportCalls'[i].outcome = "ok" => transportCalls'[i].applied >= 1
    BY <1>4 DEF AskedAsOften
  <2>1. /\ Cardinality(Asked(i)) <= transportCalls[i].retried + 1
        /\ i = CallsMade /\ call.pc \in {"dispatch", "token", "opening", "delay"} =>
             Cardinality(Asked(i)) <= transportCalls[i].retried
        /\ transportCalls[i].outcome = "ok" => transportCalls[i].applied >= 1
    BY DEF TransportInv, AskedAsOften
  <2>2. CallsMade' = CallsMade /\ call' = call
    BY <1>2 DEF CallsMade
  <2>3. /\ transportCalls'[i].outcome = transportCalls[i].outcome
        /\ transportCalls'[i].retried = transportCalls[i].retried
    BY <1>1, <1>4
  <2>4. transportCalls'[i].applied \in Int
    BY <1>1, <1>4
  <2> QED
    BY <1>4, <1>5, <1>9, <2>1, <2>2, <2>3, <2>4
<1>11. OkIsDone'
  <2>1. \A q \in DOMAIN requests : requests[q].status = "ok" =>
          transportCalls[requests[q].call].applied >= 1
    BY DEF TransportInv, OkIsDone
  <2>2. ASSUME NEW q \in DOMAIN requests, requests'[q].status = "ok"
        PROVE  transportCalls'[requests'[q].call].applied >= 1
    <3>1. requests'[q].call = requests[q].call /\ requests[q].call \in DOMAIN transportCalls
      BY <1>2, <1>4
    <3>2. CASE q = r
      <4>1. done = 1 /\ k \in DOMAIN transportCalls /\ requests'[q].call = k
        BY <1>1, <1>3, <2>2, <3>1, <3>2
      <4>2. transportCalls'[k].applied = transportCalls[k].applied + 1
        BY <1>1, <1>3, <1>4, <4>1
      <4> QED
        BY <1>4, <4>1, <4>2
    <3>3. CASE q # r
      <4>1. transportCalls[requests[q].call].applied >= 1
        BY <1>2, <1>4, <2>1, <2>2, <3>3
      <4>2. PICK j \in DOMAIN transportCalls : j = requests[q].call
        BY <3>1
      <4>3. transportCalls'[j].applied = transportCalls[j].applied
              \/ transportCalls'[j].applied = transportCalls[j].applied + done
        BY <1>1, <1>4
      <4> QED
        BY <1>4, <1>1, <3>1, <4>1, <4>2, <4>3
    <3> QED
      BY <3>2, <3>3
  <2>3. CallsMade' = CallsMade /\ call' = call
    BY <1>2 DEF CallsMade
  <2>4. /\ call.pc # "idle" => CallsMade >= 1
        /\ call.pc = "waiting" =>
             call.request \in DOMAIN requests /\ requests[call.request].call = CallsMade
    BY DEF TransportInv, OkIsDone
  <2>5. call.pc = "waiting" => requests'[call.request].call = CallsMade
    BY <1>2, <1>4, <2>4
  <2> QED
    BY <1>4, <2>2, <2>3, <2>4, <2>5 DEF OkIsDone
<1> QED
  BY <1>10, <1>11

(* Trying again allows for one request more. *)
LEMMA RetryStep ==
  ASSUME TransportInv, call.pc = "waiting", UNCHANGED requests,
         call' = [call EXCEPT !.pc = "delay"],
         transportCalls' = [transportCalls EXCEPT ![CallsMade].retried = @ + 1]
  PROVE  AskedAsOften' /\ OkIsDone'
<1>1. CallsMade >= 1
  BY DEF TransportInv, OkIsDone
<1>2. /\ IsList(transportCalls') /\ Len(transportCalls') = Len(transportCalls)
      /\ \A i \in 1 .. Len(transportCalls) :
           /\ transportCalls'[i].outcome = transportCalls[i].outcome
           /\ transportCalls'[i].applied = transportCalls[i].applied
           /\ transportCalls'[i].retried =
                IF i = CallsMade THEN transportCalls[i].retried + 1 ELSE transportCalls[i].retried
  BY <1>1, CallRetried DEF TransportInv
<1>3. /\ Len(transportCalls) \in Nat /\ DOMAIN transportCalls = 1 .. Len(transportCalls)
      /\ DOMAIN transportCalls' = 1 .. Len(transportCalls)
      /\ \A i \in 1 .. Len(transportCalls) : transportCalls[i].retried \in Nat
      /\ CallsMade' = CallsMade
  BY <1>2 DEF TransportInv, TransportShapes, IsList, IsTransportCall, CallsMade
<1>4. \A i : Asked(i)' = Asked(i) /\ Replied(i)' = Replied(i)
  BY DEF Asked, Replied
<1>5. \A i \in 1 .. Len(transportCalls) :
        /\ Cardinality(Asked(i)) <= transportCalls[i].retried + 1
        /\ transportCalls[i].applied <= Cardinality(Replied(i))
        /\ transportCalls[i].outcome = "ok" => transportCalls[i].applied >= 1
        /\ Cardinality(Asked(i)) \in Nat
  BY <1>3, AskedCount DEF TransportInv, AskedAsOften
<1>6. \A i \in 1 .. Len(transportCalls) :
        /\ Cardinality(Asked(i)) <= transportCalls'[i].retried + 1
        /\ i = CallsMade => Cardinality(Asked(i)) <= transportCalls'[i].retried
  BY <1>2, <1>3, <1>5
<1>7. AskedAsOften'
  BY <1>2, <1>3, <1>4, <1>5, <1>6 DEF AskedAsOften
<1>8. call'.pc = "delay"
  BY DEF TransportInv, TransportShapes, IsCall
<1>9. \A r \in DOMAIN requests : requests[r].call \in 1 .. Len(transportCalls)
  BY DEF TransportInv, TransportShapes, IsRequest, IsList
<1>10. OkIsDone'
  BY <1>1, <1>2, <1>3, <1>8, <1>9 DEF TransportInv, OkIsDone
<1> QED
  BY <1>7, <1>10

(* The requests keep to the calls, and the calls to what was answered. *)
LEMMA AskedStep ==
  ASSUME TransportInv, [TransportNext]_transportVars PROVE AskedAsOften' /\ OkIsDone'
<1>0. TransportShapes /\ OkIsDone /\ TransportShapes'
  BY TransportTypes DEF TransportInv
<1>s. /\ Len(transportCalls) \in Nat /\ DOMAIN transportCalls = 1 .. Len(transportCalls)
      /\ \A i \in 1 .. Len(transportCalls) :
           transportCalls[i].applied \in Nat /\ transportCalls[i].retried \in Nat
  BY <1>0 DEF TransportShapes, IsList, IsTransportCall
<1>a. AskedAsOften
  BY DEF TransportInv
<1>1. CASE CallStarts
  <2>1. PICK c \in Nat : c = Len(transportCalls)
    BY Zenon, <1>s
  <2>2. /\ Len(transportCalls') = c + 1 /\ DOMAIN transportCalls' = 1 .. c + 1
        /\ \A i \in 1 .. c + 1 : transportCalls'[i] =
             IF i = c + 1 THEN [outcome |-> "none", applied |-> 0, retried |-> 0]
             ELSE transportCalls[i]
    BY <1>1, <1>0, <2>1, Longer DEF CallStarts, TransportShapes, IsList
  <2>3. \A r \in DOMAIN requests : requests[r].call \in 1 .. c
    BY <1>0, <2>1 DEF TransportShapes, IsRequest, IsList
  <2>4. Asked(c + 1)' = {} /\ Replied(c + 1)' = {}
    BY <1>1, <2>3 DEF CallStarts, Asked, Replied
  <2>5. \A i : Asked(i)' = Asked(i) /\ Replied(i)' = Replied(i)
    BY <1>1 DEF CallStarts, Asked, Replied
  <2>6. call.pc = "idle" /\ call'.pc = "dispatch"
    BY <1>1 DEF CallStarts, NoTransportCall
  <2>7. ASSUME NEW i \in 1 .. c + 1
        PROVE  /\ Cardinality(Asked(i)') <= transportCalls'[i].retried + 1
               /\ i = c + 1 => Cardinality(Asked(i)') <= transportCalls'[i].retried
               /\ transportCalls'[i].applied <= Cardinality(Replied(i)')
               /\ transportCalls'[i].outcome = "ok" => transportCalls'[i].applied >= 1
    <3>1. CASE i = c + 1
      <4>1. Cardinality({}) = 0
        BY FS_EmptySet
      <4>2. Cardinality(Asked(i)') = 0 /\ Cardinality(Replied(i)') = 0
        BY <2>4, <3>1, <4>1
      <4>3. transportCalls'[i] = [outcome |-> "none", applied |-> 0, retried |-> 0]
        BY <2>2, <3>1
      <4> QED
        BY <4>2, <4>3
    <3>2. CASE i # c + 1
      <4>1. i \in 1 .. c
        BY <3>2
      <4> QED
        BY <1>a, <1>s, <2>1, <2>2, <2>5, <4>1 DEF AskedAsOften
    <3> QED
      BY <3>1, <3>2
  <2>8. AskedAsOften'
    BY <2>2, <2>7 DEF AskedAsOften, CallsMade
  <2>9. OkIsDone'
    BY <1>0, <1>1, <2>1, <2>2, <2>3, <2>6 DEF OkIsDone, CallsMade, CallStarts
  <2> QED
    BY <2>8, <2>9
<1>2. ASSUME NEW s, Sent(s), UNCHANGED transportCalls,
             call.pc \in {"dispatch", "token", "opening", "delay"}
      PROVE  AskedAsOften' /\ OkIsDone'
  <2>1. CallsMade >= 1
    BY <1>0, <1>2 DEF OkIsDone
  <2>2. Cardinality(Asked(CallsMade)) <= transportCalls[CallsMade].retried
    BY <1>a, <1>s, <1>2, <2>1 DEF AskedAsOften, CallsMade
  <2> QED
    BY <1>0, <1>2, <2>1, <2>2, FrameSent
<1>3. ASSUME UNCHANGED <<requests, transportCalls>>,
             call'.pc \in {"dispatch", "token", "opening", "delay"} =>
               call.pc \in {"dispatch", "token", "opening", "delay"},
             call'.pc # "idle" => call.pc # "idle",
             call'.pc = "waiting" => call.pc = "waiting" /\ UNCHANGED call
      PROVE  AskedAsOften' /\ OkIsDone'
  BY <1>0, <1>3, NothingAsked DEF TransportShapes
<1>4. ASSUME NEW o, Settles(o), UNCHANGED requests, call.pc # "idle",
             o = "ok" => call.pc = "waiting" /\ requests[call.request].status = "ok"
      PROVE  AskedAsOften' /\ OkIsDone'
  <2>1. CallsMade >= 1 /\ CallsMade = Len(transportCalls)
    BY <1>0, <1>4 DEF OkIsDone, CallsMade
  <2>2. /\ IsList(transportCalls') /\ Len(transportCalls') = Len(transportCalls)
        /\ \A i \in 1 .. Len(transportCalls) :
             /\ transportCalls'[i].outcome = IF i = CallsMade THEN o ELSE transportCalls[i].outcome
             /\ transportCalls'[i].applied = transportCalls[i].applied
             /\ transportCalls'[i].retried = transportCalls[i].retried
        /\ call'.pc = "idle"
    BY <1>0, <1>4, <2>1, CallSettles
  <2>3. o = "ok" => transportCalls[CallsMade].applied >= 1
    BY <1>0, <1>4 DEF OkIsDone
  <2>4. \A i \in 1 .. Len(transportCalls) :
          transportCalls'[i].outcome = "ok" /\ transportCalls[i].outcome # "ok" =>
            transportCalls[i].applied >= 1
    BY <2>1, <2>2, <2>3
  <2> QED
    BY <1>0, <1>4, <2>2, <2>4, NothingAsked
<1>5. CASE Dispatch
  <2>1. CASE Sent(ws)
    BY <1>2, <1>5, <2>1 DEF Dispatch
  <2>2. CASE call' = [call EXCEPT !.pc = "token"] /\ UNCHANGED requests
    <3>1. call'.pc = "token" /\ call.pc = "dispatch"
      BY <1>0, <1>5, <2>2 DEF Dispatch, TransportShapes, IsCall
    <3> QED
      BY <1>3, <1>5, <2>2, <3>1 DEF Dispatch
  <2> QED
    BY <1>5, <2>1, <2>2 DEF Dispatch
<1>6. CASE TokenComes
  <2>1. call'.pc = "opening" /\ call.pc = "token"
    BY <1>0, <1>6 DEF TokenComes, TransportShapes, IsCall
  <2> QED
    BY <1>3, <1>6, <2>1 DEF TokenComes
<1>7. CASE ConnectionFails
  BY <1>4, <1>7 DEF ConnectionFails
<1>8. CASE ConnectionTimesOut
  BY <1>4, <1>8 DEF ConnectionTimesOut
<1>9. ASSUME NEW s \in DOMAIN sockets, SocketOpens(s) PROVE AskedAsOften' /\ OkIsDone'
  <2>1. CASE call.pc = "opening" /\ call.socket = s
    BY <1>2, <1>9, <2>1 DEF SocketOpens
  <2>2. CASE ~(call.pc = "opening" /\ call.socket = s)
    BY <1>3, <1>9, <2>2 DEF SocketOpens
  <2> QED
    BY <2>1, <2>2
<1>10. ASSUME NEW s \in DOMAIN sockets, SocketCloses(s) PROVE AskedAsOften' /\ OkIsDone'
  BY <1>3, <1>10 DEF SocketCloses
<1>11. ASSUME NEW s \in DOMAIN sockets, SocketClosed(s) PROVE AskedAsOften' /\ OkIsDone'
  <2>1. CASE Settles("failed") /\ call.pc = "waiting"
    BY <1>4, <1>11, <2>1 DEF SocketClosed
  <2>2. CASE UNCHANGED <<call, transportCalls>>
    BY <1>3, <1>11, <2>2 DEF SocketClosed
  <2> QED
    BY <1>11, <2>1, <2>2 DEF SocketClosed
<1>12. ASSUME NEW r \in DOMAIN requests, PlatformAnswers(r) PROVE AskedAsOften' /\ OkIsDone'
  BY <1>12, TransportAnswerStep
<1>13. CASE TransportAnswer
  <2>1. CASE Settles("ok") /\ requests[call.request].status = "ok"
    BY <1>4, <1>13, <2>1 DEF TransportAnswer
  <2>2. CASE Settles("failed")
    BY <1>4, <1>13, <2>2 DEF TransportAnswer
  <2>3. CASE /\ call' = [call EXCEPT !.pc = "delay"]
             /\ transportCalls' = [transportCalls EXCEPT ![CallsMade].retried = @ + 1]
    BY <1>13, <2>3, RetryStep DEF TransportAnswer
  <2> QED
    BY <1>13, <2>1, <2>2, <2>3 DEF TransportAnswer
<1>14. CASE DelayEnds
  <2>1. call'.pc = "dispatch" /\ call.pc = "delay"
    BY <1>0, <1>14 DEF DelayEnds, TransportShapes, IsCall
  <2> QED
    BY <1>3, <1>14, <2>1 DEF DelayEnds
<1>15. CASE RequestTimesOut
  BY <1>4, <1>15 DEF RequestTimesOut
<1>16. CASE UNCHANGED transportVars
  BY <1>3, <1>16 DEF transportVars
<1> QED
  BY <1>1, <1>5, <1>6, <1>7, <1>8, <1>9, <1>10, <1>11, <1>12, <1>13, <1>14, <1>15, <1>16
  DEF TransportNext

(* Before it opens a socket the worker has none that is open. *)
LEMMA SocketStep == ASSUME TransportInv, [TransportNext]_transportVars PROVE UsesOne'
<1>0. TransportShapes /\ UsesOne
  BY DEF TransportInv
<1>s. /\ Len(sockets) \in Nat /\ DOMAIN sockets = 1 .. Len(sockets)
      /\ \A i \in DOMAIN sockets : IsSocket(sockets[i])
      /\ ws # 0 => ws \in DOMAIN sockets
  BY <1>0 DEF TransportShapes, IsList
<1>1. ASSUME UNCHANGED <<sockets, ws, forgotten>>,
             call'.pc \in {"token", "opening"} =>
               \/ call'.pc = call.pc /\ call'.socket = call.socket
               \/ call'.pc = "token" /\ ~(ws # 0 /\ sockets[ws].state = "open")
      PROVE  UsesOne'
  BY <1>0, <1>1 DEF UsesOne, Open
<1>2. ASSUME NEW s, Sent(s) PROVE call'.pc = "waiting"
  BY <1>0, <1>2 DEF Sent, TransportShapes, IsCall
<1>3. ASSUME NEW o, Settles(o) PROVE call'.pc = "idle"
  BY <1>3 DEF Settles, NoTransportCall
<1>4. CASE CallStarts
  <2>1. call'.pc = "dispatch"
    BY <1>4 DEF CallStarts, NoTransportCall
  <2> QED
    BY <1>1, <1>4, <2>1 DEF CallStarts
<1>5. CASE Dispatch
  <2>1. CASE ws # 0 /\ sockets[ws].state = "open"
    BY <1>1, <1>2, <1>5, <2>1 DEF Dispatch
  <2>2. CASE ~(ws # 0 /\ sockets[ws].state = "open")
    <3>1. call'.pc = "token"
      BY <1>0, <1>5, <2>2 DEF Dispatch, TransportShapes, IsCall
    <3> QED
      BY <1>1, <1>5, <2>2, <3>1 DEF Dispatch
  <2> QED
    BY <2>1, <2>2
<1>6. CASE TokenComes
  <2>1. PICK n \in Nat : n = Len(sockets)
    BY Zenon, <1>s
  <2>2. /\ DOMAIN sockets' = 1 .. n + 1 /\ UNCHANGED <<ws, forgotten>>
        /\ \A i \in 1 .. n + 1 : sockets'[i] =
             IF i = n + 1 THEN [state |-> "connecting", heard |-> FALSE] ELSE sockets[i]
    BY <1>0, <1>6, <2>1, Longer DEF TokenComes, TransportShapes, IsList
  <2>3. call.pc = "token" /\ call'.pc = "opening" /\ call'.socket = n + 1
    BY <1>0, <1>6, <2>1 DEF TokenComes, TransportShapes, IsCall
  <2>4. \A i \in 1 .. n : sockets'[i] = sockets[i]
    BY <2>1, <2>2
  <2>5. ~Open(n + 1)' /\ \A i \in 1 .. n : Open(i)' <=> Open(i)
    BY <2>1, <2>2, <2>4 DEF Open
  <2>6. DOMAIN sockets = 1 .. n /\ (ws # 0 => ws \in 1 .. n)
    BY <1>s, <2>1
  <2>7. sockets'[n + 1] = [state |-> "connecting", heard |-> FALSE]
    <3>1. n + 1 \in 1 .. n + 1
      BY <2>1
    <3> QED
      BY Zenon, <3>1, <2>2
  <2>8. \A i \in 1 .. n + 1 : i = n + 1 \/ i \in 1 .. n
    BY <2>1
  <2> QED
    BY <1>0, <2>2, <2>3, <2>4, <2>5, <2>6, <2>7, <2>8 DEF UsesOne
<1>7. ASSUME NEW s \in DOMAIN sockets, NEW t, t \in {"open", "closing", "closed"},
             sockets' = [sockets EXCEPT ![s].state = t],
             t = "open" => sockets[s].state = "connecting",
             UNCHANGED <<ws, forgotten>>,
             call'.pc \in {"token", "opening"} => UNCHANGED call
      PROVE  UsesOne'
  <2>1. /\ DOMAIN sockets' = DOMAIN sockets
        /\ \A i \in DOMAIN sockets :
              /\ Open(i)' => i # s /\ Open(i)
              /\ sockets'[i].heard = sockets[i].heard
              /\ sockets'[i].state = "connecting" => sockets[i].state = "connecting"
              /\ sockets'[i].state = "open" /\ sockets[i].heard = TRUE => sockets[i].state = "open"
    BY Zenon, <1>7, SocketMoves
  <2> HIDE <1>7
  <2>2. ws' = ws /\ forgotten' = forgotten /\ (call'.pc \in {"token", "opening"} => call' = call)
    BY <1>7
  <2> QED
    BY <1>0, <1>s, <2>1, <2>2 DEF UsesOne
<1>8. CASE ConnectionFails
  <2>1. CASE UNCHANGED sockets
    BY <1>1, <1>3, <1>8, <2>1 DEF ConnectionFails
  <2>2. CASE call.pc = "opening" /\ sockets' = [sockets EXCEPT ![call.socket].state = "closed"]
    <3>1. call.socket \in DOMAIN sockets /\ UNCHANGED <<ws, forgotten>> /\ call'.pc = "idle"
      BY <1>0, <1>3, <1>8, <2>2 DEF UsesOne, ConnectionFails
    <3>2. PICK k \in DOMAIN sockets : k = call.socket
      BY <3>1
    <3> QED
      BY Zenon, <1>7, <2>2, <3>1, <3>2
  <2> QED
    BY <1>8, <2>1, <2>2 DEF ConnectionFails
<1>9. CASE ConnectionTimesOut
  BY <1>1, <1>3, <1>9 DEF ConnectionTimesOut
<1>10. ASSUME NEW s \in DOMAIN sockets, SocketOpens(s) PROVE UsesOne'
  <2>1. CASE call.pc = "opening" /\ call.socket = s
    <3>1. sockets' = [sockets EXCEPT ![s] = [state |-> "open", heard |-> TRUE]]
      BY <1>10, <2>1 DEF SocketOpens
    <3>2. ws' = s /\ UNCHANGED forgotten /\ call'.pc = "waiting"
      BY <1>2, <1>10, <2>1 DEF SocketOpens
    <3>3. /\ DOMAIN sockets' = DOMAIN sockets
          /\ sockets'[s] = [state |-> "open", heard |-> TRUE]
          /\ \A i \in DOMAIN sockets : i # s => sockets'[i] = sockets[i]
      BY <1>s, <3>1
    <3>4. \A i \in DOMAIN sockets : i # s => (Open(i)' <=> Open(i))
      BY <3>3 DEF Open
    <3>5. ~forgotten => \A i \in DOMAIN sockets : ~Open(i)
      BY <1>0, <1>s, <2>1 DEF UsesOne, Open
    <3> QED
      BY <1>0, <1>s, <1>10, <3>2, <3>3, <3>4, <3>5 DEF UsesOne
  <2>2. CASE ~(call.pc = "opening" /\ call.socket = s)
    BY <1>7, <1>10, <2>2 DEF SocketOpens
  <2> QED
    BY <2>1, <2>2
<1>11. ASSUME NEW s \in DOMAIN sockets, SocketCloses(s) PROVE UsesOne'
  BY Zenon, <1>7, <1>11 DEF SocketCloses
<1>12. ASSUME NEW s \in DOMAIN sockets, SocketClosed(s) PROVE UsesOne'
  <2>1. CASE sockets[s].heard = TRUE
    <3>1. /\ sockets' = [sockets EXCEPT ![s].state = "closed"] /\ ws' = 0
          /\ forgotten' = (forgotten \/ ws \notin {0, s})
      BY <1>12, <2>1 DEF SocketClosed
    <3>2. call'.pc \in {"token", "opening"} => UNCHANGED call
      BY <1>3, <1>12, <2>1 DEF SocketClosed
    <3>3. /\ DOMAIN sockets' = DOMAIN sockets
          /\ \A i \in DOMAIN sockets :
                /\ Open(i)' => i # s /\ Open(i)
                /\ sockets'[i].heard = sockets[i].heard
                /\ sockets'[i].state = "connecting" => sockets[i].state = "connecting"
      BY Zenon, <1>12, <3>1, SocketMoves
    <3>4. ws' = 0 /\ (~forgotten' => ~forgotten /\ ws \in {0, s})
      BY Zenon, <3>1
    <3>5. ~forgotten' => \A i \in DOMAIN sockets : ~Open(i)'
      BY <1>0, <1>s, <3>3, <3>4 DEF UsesOne
    <3> QED
      BY <1>0, <3>2, <3>3, <3>4, <3>5 DEF UsesOne
  <2>2. CASE sockets[s].heard # TRUE
    <3>1. CASE sockets[s].heard = FALSE
      BY Zenon, <1>7, <1>12, <3>1 DEF SocketClosed
    <3> QED
      BY Zenon, <1>s, <1>12, <2>2, <3>1 DEF IsSocket
  <2> QED
    BY Zenon, <2>1, <2>2
<1>13. ASSUME NEW r \in DOMAIN requests, PlatformAnswers(r) PROVE UsesOne'
  BY <1>1, <1>13 DEF PlatformAnswers
<1>14. CASE TransportAnswer
  <2>1. call'.pc \in {"delay", "idle"}
    BY <1>0, <1>3, <1>14 DEF TransportAnswer, TransportShapes, IsCall
  <2> QED
    BY <1>1, <1>14, <2>1 DEF TransportAnswer
<1>15. CASE DelayEnds
  <2>1. call'.pc = "dispatch"
    BY <1>0, <1>15 DEF DelayEnds, TransportShapes, IsCall
  <2> QED
    BY <1>1, <1>15, <2>1 DEF DelayEnds
<1>16. CASE RequestTimesOut
  BY <1>1, <1>3, <1>16 DEF RequestTimesOut
<1>17. CASE UNCHANGED transportVars
  BY <1>1, <1>17 DEF transportVars
<1> QED
  BY <1>4, <1>5, <1>6, <1>8, <1>9, <1>10, <1>11, <1>12, <1>13, <1>14, <1>15, <1>16, <1>17
  DEF TransportNext

LEMMA TransportStep == ASSUME TransportInv, [TransportNext]_transportVars PROVE TransportInv'
  BY TransportTypes, AskedStep, SocketStep DEF TransportInv

LEMMA TransportKept == TransportInv => TransportHolds
<1> SUFFICES ASSUME TransportInv PROVE TransportHolds
  OBVIOUS
<1>1. DOMAIN transportCalls = 1 .. Len(transportCalls)
  BY DEF TransportInv, TransportShapes, IsList
<1>2. ASSUME NEW i \in DOMAIN transportCalls
      PROVE  /\ transportCalls[i].outcome = "ok" => transportCalls[i].applied >= 1
             /\ transportCalls[i].applied <= transportCalls[i].retried + 1
  <2>1. transportCalls[i].applied \in Nat /\ transportCalls[i].retried \in Nat
    BY <1>1 DEF TransportInv, TransportShapes, IsTransportCall
  <2>2. /\ Cardinality(Asked(i)) \in Nat /\ Cardinality(Replied(i)) \in Nat
        /\ Cardinality(Replied(i)) <= Cardinality(Asked(i))
    BY AskedCount DEF TransportInv
  <2>3. /\ Cardinality(Asked(i)) <= transportCalls[i].retried + 1
        /\ transportCalls[i].applied <= Cardinality(Replied(i))
        /\ transportCalls[i].outcome = "ok" => transportCalls[i].applied >= 1
    BY DEF TransportInv, AskedAsOften
  <2> QED
    BY <2>1, <2>2, <2>3
<1> QED
  BY <1>2 DEF TransportInv, UsesOne, TransportHolds, DoneAsOften, OneSocketUsed, Open

(* A call that succeeded was done, none is done more often than it was tried
   again and once more, and the worker uses the one socket it hears
   (TransportHolds), for any number of calls, sockets and tries. *)
THEOREM TransportIsTrue == TransportInit /\ [][TransportNext]_transportVars => []TransportHolds
  BY TransportBegins, TransportStep, TransportKept, PTL

-----------------------------------------------------------------------------
(* What a step makes of a local run, of a run of the platform and of a claim. *)
LEMMA LocalMade ==
  ASSUME NEW r \in HostedRuns, NEW t \in LocalStatus, NEW n \in Nat,
         NEW m, m = [of |-> r, status |-> t, runners |-> n]
  PROVE  IsLocal(m) /\ m.of = r /\ m.status = t /\ m.runners = n
  BY DEF IsLocal
LEMMA LocalTyped ==
  ASSUME NEW l, IsLocal(l)
  PROVE  l.of \in HostedRuns /\ l.status \in LocalStatus /\ l.runners \in Nat
  BY DEF IsLocal
LEMMA LocalWith ==
  ASSUME NEW l, IsLocal(l), NEW x
  PROVE  /\ [l EXCEPT !.runners = x] = [of |-> l.of, status |-> l.status, runners |-> x]
         /\ [l EXCEPT !.status = x] = [of |-> l.of, status |-> x, runners |-> l.runners]
<1>1. PICK a, b, c : l = [of |-> a, status |-> b, runners |-> c]
  BY DEF IsLocal
<1>2. l.of = a /\ l.status = b /\ l.runners = c
  BY <1>1
<1>3. [l EXCEPT !.runners = x] = [of |-> a, status |-> b, runners |-> x]
  BY <1>1
<1>4. [l EXCEPT !.status = x] = [of |-> a, status |-> x, runners |-> c]
  BY <1>1
<1> QED
  BY <1>2, <1>3, <1>4

(* A list of local runs that is read position by position. *)
LEMMA LocalsRead ==
  ASSUME NEW l, AreLocal(l)
  PROVE  Len(l) \in Nat /\ DOMAIN l = 1 .. Len(l) /\ \A i \in 1 .. Len(l) : IsLocal(l[i])
  BY DEF AreLocal, IsList


LEMMA KilledIs ==
  ASSUME NEW l, AreLocal(l)
  PROVE  /\ AreLocal(Killed(l)) /\ Len(Killed(l)) = Len(l) /\ DOMAIN Killed(l) = 1 .. Len(l)
         /\ \A i \in 1 .. Len(l) :
              /\ Killed(l)[i].of = l[i].of /\ Killed(l)[i].status = l[i].status
              /\ Killed(l)[i].runners = 0
<1>0. PICK n \in Nat : n = Len(l)
  BY LocalsRead
<1>1. Killed(l) = [i \in 1 .. n |-> Killed(l)[i]] /\ DOMAIN Killed(l) = 1 .. n
  BY <1>0, LocalsRead DEF Killed
<1>2. \A i \in 1 .. n : Killed(l)[i] = [l[i] EXCEPT !.runners = 0]
  BY <1>0, LocalsRead DEF Killed
<1>3. ASSUME NEW i \in 1 .. n
      PROVE  /\ IsLocal(Killed(l)[i]) /\ Killed(l)[i].of = l[i].of
             /\ Killed(l)[i].status = l[i].status /\ Killed(l)[i].runners = 0
  <2>1. IsLocal(l[i])
    BY <1>0, LocalsRead
  <2>2. Killed(l)[i] = [of |-> l[i].of, status |-> l[i].status, runners |-> 0]
    BY Zenon, <1>2, <2>1, LocalWith
  <2>3. l[i].of \in HostedRuns /\ l[i].status \in LocalStatus
    BY <2>1, LocalTyped
  <2> QED
    BY <2>2, <2>3, LocalMade
<1>4. Len(Killed(l)) = n
  BY <1>1
<1> QED
  BY <1>0, <1>1, <1>3, <1>4 DEF AreLocal, IsList

LEMMA ResumedIs ==
  ASSUME NEW l, AreLocal(l)
  PROVE  /\ AreLocal(Resumed(l)) /\ Len(Resumed(l)) = Len(l) /\ DOMAIN Resumed(l) = 1 .. Len(l)
         /\ \A i \in 1 .. Len(l) :
              /\ Resumed(l)[i].of = l[i].of /\ Resumed(l)[i].status = l[i].status
              /\ Resumed(l)[i].runners =
                   IF l[i].status = "running" THEN l[i].runners + 1 ELSE l[i].runners
<1>0. PICK n \in Nat : n = Len(l)
  BY LocalsRead
<1>1. Resumed(l) = [i \in 1 .. n |-> Resumed(l)[i]] /\ DOMAIN Resumed(l) = 1 .. n
  BY <1>0, LocalsRead DEF Resumed
<1>2. \A i \in 1 .. n : Resumed(l)[i] = IF l[i].status = "running"
                                        THEN [l[i] EXCEPT !.runners = l[i].runners + 1] ELSE l[i]
  BY <1>0, LocalsRead DEF Resumed
<1>3. ASSUME NEW i \in 1 .. n
      PROVE  /\ IsLocal(Resumed(l)[i]) /\ Resumed(l)[i].of = l[i].of
             /\ Resumed(l)[i].status = l[i].status
             /\ Resumed(l)[i].runners =
                  IF l[i].status = "running" THEN l[i].runners + 1 ELSE l[i].runners
  <2>1. IsLocal(l[i])
    BY <1>0, LocalsRead
  <2>2. l[i].of \in HostedRuns /\ l[i].status \in LocalStatus /\ l[i].runners + 1 \in Nat
    BY <2>1, LocalTyped
  <2>3. CASE l[i].status = "running"
    <3>1. Resumed(l)[i] = [of |-> l[i].of, status |-> l[i].status, runners |-> l[i].runners + 1]
      <4>1. PICK k : k = l[i].runners + 1
        OBVIOUS
      <4>2. Resumed(l)[i] = [l[i] EXCEPT !.runners = k]
        BY <1>2, <2>3, <4>1
      <4>3. [l[i] EXCEPT !.runners = k] = [of |-> l[i].of, status |-> l[i].status, runners |-> k]
        BY Zenon, <2>1, LocalWith
      <4> QED
        BY <4>1, <4>2, <4>3
    <3> QED
      BY <2>2, <2>3, <3>1, LocalMade
  <2>4. CASE l[i].status # "running"
    BY Zenon, <1>2, <2>1, <2>4
  <2> QED
    BY <2>3, <2>4
<1>4. Len(Resumed(l)) = n
  BY <1>1
<1> QED
  BY <1>0, <1>1, <1>3, <1>4 DEF AreLocal, IsList

(* One run of a list is replaced. *)
Replace(l, i, e) == [l EXCEPT ![i] = e]
Replaced(m, l, i, e) ==
  /\ AreLocal(m) /\ Len(m) = Len(l) /\ DOMAIN m = 1 .. Len(l)
  /\ \A j \in 1 .. Len(l) : m[j] = IF j = i THEN e ELSE l[j]
LEMMA RunReplaced ==
  ASSUME NEW l, AreLocal(l), NEW i \in 1 .. Len(l), NEW e, IsLocal(e), NEW m, m = Replace(l, i, e)
  PROVE  Replaced(m, l, i, e)
<1>e. m = [l EXCEPT ![i] = e]
  BY DEF Replace
<1>0. PICK n \in Nat : n = Len(l) /\ DOMAIN l = 1 .. n
  BY LocalsRead
<1>1. DOMAIN m = 1 .. n /\ m = [j \in 1 .. n |-> m[j]]
  BY Zenon, <1>0, <1>e
<1>2. Len(m) = n
  BY <1>1
<1>3. \A j \in 1 .. n : m[j] = IF j = i THEN e ELSE l[j]
  BY <1>0, <1>e
<1>4. \A j \in 1 .. n : IsLocal(m[j])
  BY <1>0, <1>3, LocalsRead
<1> QED
  BY <1>0, <1>1, <1>2, <1>3, <1>4 DEF AreLocal, IsList, Replaced

LEMMA ReplacedTwice ==
  ASSUME NEW l, AreLocal(l), NEW i \in 1 .. Len(l), NEW d, IsLocal(d), NEW e, IsLocal(e),
         NEW u, u = Replace(l, i, d), NEW m, m = Replace(u, i, e)
  PROVE  Replaced(m, l, i, e)
<1>1. Replaced(u, l, i, d)
  BY RunReplaced
<1>2. AreLocal(u) /\ i \in 1 .. Len(u)
  BY <1>1 DEF Replaced
<1>3. Replaced(m, u, i, e)
  BY <1>2, RunReplaced
<1> QED
  BY <1>1, <1>3 DEF Replaced

(* One run goes on: its status and the number of its runners are set. *)
Proceeds(m, l, i, t, k) ==
  /\ AreLocal(m) /\ Len(m) = Len(l) /\ DOMAIN m = 1 .. Len(l)
  /\ \A j \in 1 .. Len(l) :
       /\ m[j].of = l[j].of
       /\ m[j].status = IF j = i THEN t ELSE l[j].status
       /\ m[j].runners = IF j = i THEN k ELSE l[j].runners
LEMMA ProceedsOn ==
  ASSUME NEW l, NEW m, NEW i \in 1 .. Len(l), NEW e, Replaced(m, l, i, e), e.of = l[i].of
  PROVE  Proceeds(m, l, i, e.status, e.runners)
<1>1. AreLocal(m) /\ Len(m) = Len(l) /\ DOMAIN m = 1 .. Len(l)
  BY DEF Replaced
<1>2. ASSUME NEW j \in 1 .. Len(l)
      PROVE  /\ m[j].of = l[j].of
             /\ m[j].status = IF j = i THEN e.status ELSE l[j].status
             /\ m[j].runners = IF j = i THEN e.runners ELSE l[j].runners
  <2>1. m[j] = IF j = i THEN e ELSE l[j]
    BY DEF Replaced
  <2> QED
    BY <2>1
<1> QED
  BY <1>1, <1>2 DEF Proceeds
LEMMA RunsOn ==
  ASSUME NEW l, AreLocal(l), NEW i \in 1 .. Len(l), NEW t \in LocalStatus, NEW k \in Nat,
         NEW m, m = [l EXCEPT ![i].status = t, ![i].runners = k]
  PROVE  Proceeds(m, l, i, t, k)
<1>0. IsLocal(l[i]) /\ l[i].of \in HostedRuns /\ l[i].runners \in Nat /\ i \in DOMAIN l
  BY LocalsRead, LocalTyped
<1>1. PICK d : d = [of |-> l[i].of, status |-> t, runners |-> l[i].runners]
  BY Zenon
<1>2. PICK e : e = [of |-> l[i].of, status |-> t, runners |-> k]
  BY Zenon
<1>3. /\ IsLocal(d) /\ d.of = l[i].of /\ d.status = t /\ d.runners = l[i].runners
      /\ IsLocal(e) /\ e.of = l[i].of /\ e.status = t /\ e.runners = k
  BY <1>0, <1>1, <1>2, LocalMade
<1>4. PICK u : u = Replace(l, i, d)
  OBVIOUS
<1>5. IsLocal(u[i]) /\ u[i] = d /\ i \in DOMAIN u
  BY <1>0, <1>3, <1>4, RunReplaced DEF Replaced
<1>6. u = [l EXCEPT ![i].status = t]
  <2>1. [l[i] EXCEPT !.status = t] = d
    BY Zenon, <1>0, <1>1, LocalWith
  <2>2. [l EXCEPT ![i].status = t] = [l EXCEPT ![i] = [l[i] EXCEPT !.status = t]]
    BY <1>0
  <2> QED
    BY Zenon, <1>4, <2>1, <2>2 DEF Replace
<1>7. m = [u EXCEPT ![i].runners = k]
  BY <1>6
<1>8. m = Replace(u, i, e)
  <2>2. [u[i] EXCEPT !.runners = k] = e
    <3>1. [d EXCEPT !.runners = k] = [of |-> d.of, status |-> d.status, runners |-> k]
      BY Zenon, <1>3, LocalWith
    <3> QED
      BY <1>2, <1>3, <1>5, <3>1
  <2>3. [u EXCEPT ![i].runners = k] = [u EXCEPT ![i] = [u[i] EXCEPT !.runners = k]]
    BY <1>5
  <2> QED
    BY Zenon, <1>7, <2>2, <2>3 DEF Replace
<1>9. Replaced(m, l, i, e)
  BY Zenon, <1>3, <1>4, <1>8, ReplacedTwice
<1>10. Proceeds(m, l, i, e.status, e.runners)
  BY <1>3, <1>9, ProceedsOn
<1> QED
  BY <1>3, <1>10

(* A lease that begins or ends leaves what the platform knows of a run. *)
LEMMA LeaseIs ==
  ASSUME WorkerShapes, NEW r \in HostedRuns, NEW b, hosted' = [hosted EXCEPT ![r].leased = b]
  PROVE  /\ hosted' = [s \in HostedRuns |-> hosted'[s]]
         /\ \A s \in HostedRuns : IsHosted(hosted'[s]) /\ hosted'[s].status = hosted[s].status
<1>1. DOMAIN hosted = HostedRuns /\ \A s \in HostedRuns : IsHosted(hosted[s])
  BY DEF WorkerShapes
<1>2. PICK e : e = [hosted[r] EXCEPT !.leased = b]
  BY Zenon
<1>3. IsHosted(e) /\ e.status = hosted[r].status
  BY <1>1, <1>2 DEF IsHosted
<1>4. hosted' = [hosted EXCEPT ![r] = e]
  BY <1>2
<1>5. hosted' = [s \in HostedRuns |-> hosted'[s]]
  BY Zenon, <1>1, <1>4
<1>6. \A s \in HostedRuns : hosted'[s] = IF s = r THEN e ELSE hosted[s]
  BY <1>1, <1>4
<1> QED
  BY <1>1, <1>3, <1>5, <1>6

(* What the platform is told becomes the status of the run. *)
LEMMA ToldIs ==
  ASSUME WorkerShapes, claim.run \in HostedRuns, hosted' = Told(claim.run)
  PROVE  /\ hosted' = [s \in HostedRuns |-> hosted'[s]]
         /\ \A s \in HostedRuns :
              /\ IsHosted(hosted'[s])
              /\ hosted'[s].status = IF s = claim.run THEN claim.report ELSE hosted[s].status
<1>1. DOMAIN hosted = HostedRuns /\ \A s \in HostedRuns : IsHosted(hosted[s])
  BY DEF WorkerShapes
<1>2. PICK e : e = [status |-> claim.report, leased |-> claim.report = "blocked",
                    knows |-> claim.local]
  BY Zenon
<1>3. IsHosted(e) /\ e.status = claim.report
  BY <1>2 DEF IsHosted
<1>4. hosted' = [hosted EXCEPT ![claim.run] = e]
  BY <1>2 DEF Told
<1>5. hosted' = [s \in HostedRuns |-> hosted'[s]]
  BY Zenon, <1>1, <1>4
<1>6. \A s \in HostedRuns : hosted'[s] = IF s = claim.run THEN e ELSE hosted[s]
  BY <1>1, <1>4
<1> QED
  BY <1>1, <1>3, <1>5, <1>6

(* What a claim is made of. *)
LEMMA ClaimIs ==
  ASSUME NEW r, NEW n, NEW t, claim' = [run |-> r, local |-> n, report |-> t]
  PROVE  IsClaim(claim') /\ claim'.run = r /\ claim'.local = n /\ claim'.report = t
  BY DEF IsClaim
LEMMA NoClaimIs == IsClaim(NoClaim)
  BY DEF IsClaim, NoClaim

(* The local runs are typed, and read by position. *)
LEMMA LocalsKnown ==
  ASSUME WorkerInv
  PROVE  /\ AreLocal(localRuns) /\ Len(localRuns) \in Nat /\ DOMAIN localRuns = 1 .. Len(localRuns)
         /\ \A i \in 1 .. Len(localRuns) :
              /\ localRuns[i].of \in HostedRuns /\ localRuns[i].status \in LocalStatus
              /\ localRuns[i].runners \in Nat
<1>1. AreLocal(localRuns)
  BY DEF WorkerInv, WorkerShapes
<1>2. Len(localRuns) \in Nat /\ DOMAIN localRuns = 1 .. Len(localRuns)
      /\ \A i \in 1 .. Len(localRuns) : IsLocal(localRuns[i])
  BY <1>1, LocalsRead
<1> QED
  BY <1>1, <1>2, LocalTyped

LEMMA WorkerBegins == WorkerInit => WorkerInv
<1> SUFFICES ASSUME WorkerInit PROVE WorkerInv
  OBVIOUS
<1>1. AreLocal(localRuns) /\ Len(localRuns) = 0 /\ DOMAIN localRuns = {}
  BY DEF WorkerInit, AreLocal, IsList
<1>2. \A r \in HostedRuns : IsHosted(hosted[r]) /\ hosted[r].status = "queued"
  BY DEF WorkerInit, IsHosted
<1>3. hosted = [r \in HostedRuns |-> hosted[r]] /\ doubted = {} /\ workerPc = "down"
  BY DEF WorkerInit
<1>4. IsClaim(claim)
  BY NoClaimIs DEF WorkerInit
<1> QED
  BY <1>1, <1>2, <1>3, <1>4 DEF WorkerInv, WorkerShapes, OneLocalRun, ToldTruth, ClaimIsOpen

(* With its process all runners of a worker end. *)
LEMMA RunnersEnd ==
  ASSUME WorkerInv, localRuns' = Killed(localRuns), UNCHANGED doubted
  PROVE  /\ AreLocal(localRuns') /\ OneLocalRun'
         /\ DOMAIN localRuns' = DOMAIN localRuns
         /\ \A i \in DOMAIN localRuns :
              localRuns'[i].of = localRuns[i].of /\ localRuns'[i].status = localRuns[i].status
<1>1. /\ AreLocal(localRuns') /\ DOMAIN localRuns' = 1 .. Len(localRuns)
      /\ \A i \in 1 .. Len(localRuns) :
           /\ localRuns'[i].of = localRuns[i].of /\ localRuns'[i].status = localRuns[i].status
           /\ localRuns'[i].runners = 0
  BY LocalsKnown, KilledIs
<1>2. OneLocalRun'
  BY <1>1, LocalsKnown DEF OneLocalRun, WorkerInv
<1> QED
  BY <1>1, <1>2, LocalsKnown

(* What is told of a run holds of the same runs with the same statuses. *)
LEMMA TruthStays ==
  ASSUME WorkerInv, doubted \subseteq doubted', DOMAIN localRuns' = DOMAIN localRuns,
         \A i \in DOMAIN localRuns :
           localRuns'[i].of = localRuns[i].of /\ localRuns'[i].status = localRuns[i].status,
         \A r \in HostedRuns : hosted'[r].status = hosted[r].status
  PROVE  ToldTruth'
  BY DEF WorkerInv, ToldTruth

LEMMA BootStep == ASSUME WorkerInv, BootWorker PROVE WorkerInv'
  BY DEF WorkerInv, WorkerShapes, OneLocalRun, ToldTruth, ClaimIsOpen, BootWorker
LEMMA DiesStep == ASSUME WorkerInv, WorkerDies PROVE WorkerInv'
<1>1. /\ AreLocal(localRuns') /\ OneLocalRun' /\ DOMAIN localRuns' = DOMAIN localRuns
      /\ \A i \in DOMAIN localRuns :
           localRuns'[i].of = localRuns[i].of /\ localRuns'[i].status = localRuns[i].status
  BY RunnersEnd DEF WorkerDies
<1>2. workerPc' = "down" /\ claim' = NoClaim /\ UNCHANGED <<hosted, doubted>>
  BY DEF WorkerDies
<1>3. ToldTruth'
  BY <1>1, <1>2, TruthStays
<1>4. WorkerShapes'
  BY <1>1, <1>2, NoClaimIs DEF WorkerInv, WorkerShapes
<1>5. ClaimIsOpen'
  BY <1>2 DEF ClaimIsOpen
<1> QED
  BY <1>1, <1>3, <1>4, <1>5 DEF WorkerInv
LEMMA PollEndsStep == ASSUME WorkerInv, PollEnds PROVE WorkerInv'
<1>1. workerPc' = "idle" /\ claim' = NoClaim /\ UNCHANGED <<localRuns, hosted, doubted>>
  BY DEF PollEnds
<1>2. WorkerShapes'
  BY <1>1, NoClaimIs DEF WorkerInv, WorkerShapes
<1> QED
  BY <1>1, <1>2 DEF WorkerInv, OneLocalRun, ToldTruth, ClaimIsOpen
LEMMA ExpiresStep == ASSUME WorkerInv, NEW r \in HostedRuns, LeaseExpires(r) PROVE WorkerInv'
<1>1. UNCHANGED <<workerPc, claim, localRuns, doubted>>
  BY DEF LeaseExpires
<1>2. /\ hosted' = [s \in HostedRuns |-> hosted'[s]]
      /\ \A s \in HostedRuns : IsHosted(hosted'[s]) /\ hosted'[s].status = hosted[s].status
  BY Zenon, LeaseIs DEF LeaseExpires, WorkerInv
<1>3. WorkerShapes'
  BY <1>1, <1>2 DEF WorkerInv, WorkerShapes
<1>4. ClaimIsOpen'
  BY <1>1, <1>2 DEF WorkerInv, ClaimIsOpen, LocalIsOwn, ReportIsTrue
<1> QED
  BY <1>1, <1>2, <1>3, <1>4 DEF WorkerInv, OneLocalRun, ToldTruth

(* The wait is over: what is reported is what became of the run. *)
LEMMA WaitDoneStep == ASSUME WorkerInv, WaitDone PROVE WorkerInv'
<1>1. /\ workerPc \in {"waiting", "rewaiting"} /\ workerPc' = "syncing"
      /\ localRuns[claim.local].status \in Ended /\ UNCHANGED <<localRuns, hosted, doubted>>
      /\ claim' = [claim EXCEPT !.report = localRuns[claim.local].status]
  BY DEF WaitDone, Report
<1>2. /\ IsClaim(claim') /\ claim'.run = claim.run /\ claim'.local = claim.local
      /\ claim'.report = localRuns[claim.local].status
  BY <1>1 DEF WorkerInv, WorkerShapes, IsClaim
<1>3. WorkerShapes'
  BY <1>1, <1>2 DEF WorkerInv, WorkerShapes
<1>4. LocalIsOwn /\ claim.local # 0
  BY <1>1, LocalsKnown DEF WorkerInv, ClaimIsOpen, LocalIsOwn
<1>5. ClaimIsOpen'
  BY <1>1, <1>2, <1>4 DEF WorkerInv, ClaimIsOpen, LocalIsOwn, ReportIsTrue
<1> QED
  BY <1>1, <1>3, <1>5 DEF WorkerInv, OneLocalRun, ToldTruth
LEMMA GivesUpStep == ASSUME WorkerInv, WaitGivesUp PROVE WorkerInv'
<1>1. /\ workerPc = "waiting" /\ workerPc' = "syncing" /\ UNCHANGED <<localRuns, hosted>>
      /\ doubted' = doubted \cup {claim.run}
      /\ claim' = [claim EXCEPT !.local = 0, !.report = "failed"]
  BY DEF WaitGivesUp
<1>2. /\ IsClaim(claim') /\ claim'.run = claim.run /\ claim'.local = 0 /\ claim'.report = "failed"
  <2>1. PICK a, b, c : claim = [run |-> a, local |-> b, report |-> c]
    BY DEF WorkerInv, WorkerShapes, IsClaim
  <2>2. claim' = [run |-> a, local |-> 0, report |-> "failed"] /\ claim.run = a
    BY Zenon, <1>1, <2>1
  <2> QED
    BY <2>2 DEF IsClaim
<1>3. claim.run \in HostedRuns
  BY <1>1 DEF WorkerInv, ClaimIsOpen
<1>4. WorkerShapes'
  BY <1>1, <1>2, <1>3 DEF WorkerInv, WorkerShapes
<1>5. ClaimIsOpen'
  BY <1>1, <1>2 DEF WorkerInv, ClaimIsOpen, Ended
<1> QED
  BY <1>1, <1>4, <1>5 DEF WorkerInv, OneLocalRun, ToldTruth

(* What the platform is told of a run that is not doubted became of it. *)
LEMMA TellsTruth ==
  ASSUME WorkerInv, workerPc = "syncing", hosted' = Told(claim.run),
         DOMAIN localRuns' = DOMAIN localRuns, UNCHANGED doubted,
         \A i \in DOMAIN localRuns :
           localRuns'[i].of = localRuns[i].of /\ localRuns'[i].status = localRuns[i].status
  PROVE  /\ ToldTruth' /\ hosted' = [s \in HostedRuns |-> hosted'[s]]
         /\ \A s \in HostedRuns : IsHosted(hosted'[s])
         /\ hosted'[claim.run].status = claim.report
<1>1. claim.run \in HostedRuns /\ claim.report \in Ended
  BY DEF WorkerInv, ClaimIsOpen
<1>2. /\ hosted' = [s \in HostedRuns |-> hosted'[s]]
      /\ \A s \in HostedRuns :
           /\ IsHosted(hosted'[s])
           /\ hosted'[s].status = IF s = claim.run THEN claim.report ELSE hosted[s].status
  BY <1>1, ToldIs DEF WorkerInv
<1>3. ASSUME claim.run \notin doubted
      PROVE  /\ claim.report = "completed" =>
                  \E i \in DOMAIN localRuns :
                    localRuns[i].of = claim.run /\ localRuns[i].status = "completed"
             /\ claim.report = "failed" =>
                  \A i \in DOMAIN localRuns :
                    localRuns[i].of = claim.run => localRuns[i].status \notin {"running", "completed"}
  <2>1. ReportIsTrue
    BY <1>3 DEF WorkerInv, ClaimIsOpen
  <2>2. CASE claim.local # 0
    <3>1. /\ claim.local \in DOMAIN localRuns /\ localRuns[claim.local].of = claim.run
          /\ localRuns[claim.local].status = claim.report
      BY <2>1, <2>2 DEF WorkerInv, ClaimIsOpen, LocalIsOwn, ReportIsTrue
    <3>2. \A j \in DOMAIN localRuns : localRuns[j].of = claim.run => j = claim.local
      BY <1>3, <3>1 DEF WorkerInv, OneLocalRun
    <3> QED
      BY <3>1, <3>2
  <2>3. CASE claim.local = 0
    BY <2>1, <2>3 DEF ReportIsTrue
  <2> QED
    BY <2>2, <2>3
<1>4. ToldTruth'
  BY <1>2, <1>3 DEF WorkerInv, ToldTruth
<1> QED
  BY <1>1, <1>2, <1>4
LEMMA TakenStep == ASSUME WorkerInv, SyncTaken PROVE WorkerInv'
<1>1. /\ workerPc = "syncing" /\ hosted' = Told(claim.run) /\ UNCHANGED <<localRuns, doubted>>
      /\ IF claim.report = "blocked" /\ claim.local # 0
         THEN workerPc' = "polling" /\ UNCHANGED claim
         ELSE workerPc' = "idle" /\ claim' = NoClaim
  BY DEF SyncTaken
<1>2. /\ ToldTruth' /\ hosted' = [s \in HostedRuns |-> hosted'[s]]
      /\ \A s \in HostedRuns : IsHosted(hosted'[s])
      /\ hosted'[claim.run].status = claim.report
  BY <1>1, TellsTruth
<1>3. IsClaim(claim')
  BY <1>1, NoClaimIs DEF WorkerInv, WorkerShapes
<1>4. WorkerShapes'
  BY <1>1, <1>2, <1>3 DEF WorkerInv, WorkerShapes
<1>5. ClaimIsOpen'
  BY <1>1, <1>2 DEF WorkerInv, ClaimIsOpen, LocalIsOwn, ReportIsTrue
<1> QED
  BY <1>1, <1>2, <1>4, <1>5 DEF WorkerInv, OneLocalRun
LEMMA LostStep == ASSUME WorkerInv, SyncAnswerLost PROVE WorkerInv'
<1>1. /\ workerPc = "syncing" /\ hosted' = Told(claim.run) /\ UNCHANGED doubted
      /\ workerPc' = "down" /\ claim' = NoClaim /\ localRuns' = Killed(localRuns)
  BY DEF SyncAnswerLost
<1>2. /\ AreLocal(localRuns') /\ OneLocalRun' /\ DOMAIN localRuns' = DOMAIN localRuns
      /\ \A i \in DOMAIN localRuns :
           localRuns'[i].of = localRuns[i].of /\ localRuns'[i].status = localRuns[i].status
  BY <1>1, RunnersEnd
<1>3. /\ ToldTruth' /\ hosted' = [s \in HostedRuns |-> hosted'[s]]
      /\ \A s \in HostedRuns : IsHosted(hosted'[s])
  BY <1>1, <1>2, TellsTruth
<1>4. WorkerShapes'
  BY <1>1, <1>2, <1>3, NoClaimIs DEF WorkerInv, WorkerShapes
<1>5. ClaimIsOpen'
  BY <1>1 DEF ClaimIsOpen
<1> QED
  BY <1>2, <1>3, <1>4, <1>5 DEF WorkerInv

(* A run that is blocked at a gate goes on with one runner. *)
LEMMA AppliesStep == ASSUME WorkerInv, PollApplies PROVE WorkerInv'
<1>0. PICK i : i = claim.local
  OBVIOUS
<1>1. /\ workerPc = "polling" /\ workerPc' = "rewaiting" /\ UNCHANGED <<claim, hosted, doubted>>
      /\ claim.run \in HostedRuns /\ hosted[claim.run].status \in {"queued", "blocked"}
      /\ i \in 1 .. Len(localRuns) /\ localRuns[i].of = claim.run
      /\ claim.run \notin doubted => localRuns[i].status = "blocked"
  BY <1>0, LocalsKnown DEF PollApplies, WorkerInv, ClaimIsOpen, LocalIsOwn, ReportIsTrue
<1>2. localRuns[i].runners + 1 \in Nat /\ "running" \in LocalStatus
  BY <1>1, LocalsKnown DEF LocalStatus
<1>3. localRuns' = [localRuns EXCEPT ![i].status = "running", ![i].runners = localRuns[i].runners + 1]
  BY <1>0, <1>1, LocalsKnown DEF PollApplies
<1>4. Proceeds(localRuns', localRuns, i, "running", localRuns[i].runners + 1)
  BY Zenon, <1>1, <1>2, <1>3, LocalsKnown, RunsOn
<1>5. /\ AreLocal(localRuns') /\ DOMAIN localRuns' = DOMAIN localRuns
      /\ \A j \in DOMAIN localRuns :
           /\ localRuns'[j].of = localRuns[j].of
           /\ localRuns'[j].status = IF j = i THEN "running" ELSE localRuns[j].status
           /\ localRuns'[j].runners = IF j = i THEN localRuns[i].runners + 1 ELSE localRuns[j].runners
  BY <1>4, LocalsKnown DEF Proceeds
<1>6. WorkerShapes'
  BY <1>1, <1>5 DEF WorkerInv, WorkerShapes
<1>7. OneLocalRun'
  BY <1>1, <1>5, LocalsKnown DEF WorkerInv, OneLocalRun
<1>8. ToldTruth'
  BY <1>1, <1>5, LocalsKnown DEF WorkerInv, ToldTruth
<1>9. ClaimIsOpen'
  BY <1>0, <1>1, <1>5, LocalsKnown DEF WorkerInv, ClaimIsOpen, LocalIsOwn
<1> QED
  BY <1>6, <1>7, <1>8, <1>9 DEF WorkerInv

(* A runner ends: its run is not doubted only if it was running. *)
LEMMA EndsStep == ASSUME WorkerInv, NEW i \in DOMAIN localRuns, RunnerEnds(i) PROVE WorkerInv'
<1>1. PICK t \in Ended :
        localRuns' = [localRuns EXCEPT ![i].status = t, ![i].runners = @ - 1]
  BY Zenon DEF RunnerEnds
<1>2. /\ localRuns[i].runners > 0 /\ UNCHANGED <<workerPc, claim, hosted, doubted>>
      /\ i \in 1 .. Len(localRuns) /\ localRuns[i].runners \in Nat
  BY LocalsKnown DEF RunnerEnds
<1>3. localRuns[i].runners - 1 \in Nat /\ t \in LocalStatus /\ t # "running"
  BY <1>2 DEF LocalStatus, Ended
<1>4. localRuns' = [localRuns EXCEPT ![i].status = t, ![i].runners = localRuns[i].runners - 1]
  BY <1>1, <1>2, LocalsKnown
<1>5. Proceeds(localRuns', localRuns, i, t, localRuns[i].runners - 1)
  BY Zenon, <1>2, <1>3, <1>4, LocalsKnown, RunsOn
<1>6. /\ AreLocal(localRuns') /\ DOMAIN localRuns' = DOMAIN localRuns
      /\ \A j \in DOMAIN localRuns :
           /\ localRuns'[j].of = localRuns[j].of
           /\ localRuns'[j].status = IF j = i THEN t ELSE localRuns[j].status
           /\ localRuns'[j].runners = IF j = i THEN localRuns[i].runners - 1 ELSE localRuns[j].runners
  BY <1>5, LocalsKnown DEF Proceeds
<1>7. localRuns[i].of \notin doubted =>
        /\ localRuns[i].status = "running" /\ localRuns[i].runners = 1
        /\ \A j \in DOMAIN localRuns : localRuns[j].of = localRuns[i].of => j = i
  BY <1>2, LocalsKnown DEF WorkerInv, OneLocalRun
<1>8. WorkerShapes'
  BY <1>2, <1>6 DEF WorkerInv, WorkerShapes
<1>9. OneLocalRun'
  BY <1>2, <1>3, <1>6, <1>7, LocalsKnown DEF WorkerInv, OneLocalRun
<1>10. ToldTruth'
  BY <1>2, <1>6, <1>7 DEF WorkerInv, ToldTruth
<1>11. ClaimIsOpen'
  <2>1. ASSUME workerPc \in {"syncing", "polling"}, claim.run \notin doubted PROVE ReportIsTrue'
    <3>1. ReportIsTrue /\ claim.report \in Ended
      BY <2>1 DEF WorkerInv, ClaimIsOpen, Ended
    <3>2. localRuns[i].of # claim.run \/ claim.local # 0
      BY <1>7, <2>1, <3>1 DEF ReportIsTrue
    <3>3. claim.local # 0 => LocalIsOwn
      BY <2>1 DEF WorkerInv, ClaimIsOpen
    <3>4. claim.local # i
      BY <1>7, <2>1, <3>1, <3>3, LocalsKnown DEF ReportIsTrue, LocalIsOwn, Ended
    <3>5. CASE claim.local # 0
      BY <1>2, <1>6, <3>1, <3>3, <3>4, <3>5 DEF ReportIsTrue, LocalIsOwn
    <3>6. CASE claim.local = 0
      BY <1>2, <1>6, <3>1, <3>2, <3>6 DEF ReportIsTrue
    <3> QED
      BY <3>5, <3>6
  <2> QED
    BY <1>2, <1>6, <2>1 DEF WorkerInv, ClaimIsOpen, LocalIsOwn
<1> QED
  BY <1>8, <1>9, <1>10, <1>11 DEF WorkerInv

(* A claim resumes what is taken for running, and doubts what is run twice. *)
LEMMA ClaimResumes ==
  ASSUME WorkerInv, NEW r \in HostedRuns, Claims(r), doubted \cup RunTwice \subseteq doubted'
  PROVE  LET R == Resumed(localRuns) IN
         /\ AreLocal(R) /\ Len(R) = Len(localRuns) /\ DOMAIN R = 1 .. Len(localRuns)
         /\ \A i \in 1 .. Len(localRuns) :
              /\ R[i].of = localRuns[i].of /\ R[i].status = localRuns[i].status
              /\ R[i].runners \in Nat
              /\ localRuns[i].of \notin doubted' =>
                   /\ R[i].runners <= 1 /\ (R[i].status # "running" => R[i].runners = 0)
                   /\ \A j \in 1 .. Len(localRuns) : R[j].of = R[i].of => j = i
         /\ hosted' = [s \in HostedRuns |-> hosted'[s]]
         /\ \A s \in HostedRuns : IsHosted(hosted'[s]) /\ hosted'[s].status = hosted[s].status
         /\ hosted[r].status \in {"queued", "blocked"} /\ workerPc = "idle"
<1> DEFINE R == Resumed(localRuns)
<1>1. /\ AreLocal(R) /\ Len(R) = Len(localRuns) /\ DOMAIN R = 1 .. Len(localRuns)
      /\ \A i \in 1 .. Len(localRuns) :
           /\ R[i].of = localRuns[i].of /\ R[i].status = localRuns[i].status
           /\ R[i].runners =
                IF localRuns[i].status = "running" THEN localRuns[i].runners + 1 ELSE localRuns[i].runners
  BY LocalsKnown, ResumedIs
<1> HIDE DEF R
<1>2. ASSUME NEW i \in 1 .. Len(localRuns), localRuns[i].of \notin doubted'
      PROVE  /\ R[i].runners <= 1 /\ (R[i].status # "running" => R[i].runners = 0)
             /\ \A j \in 1 .. Len(localRuns) : R[j].of = R[i].of => j = i
  <2>1. localRuns[i].of \notin doubted /\ localRuns[i].of \notin RunTwice
    BY <1>2
  <2>2. ~(localRuns[i].status = "running" /\ localRuns[i].runners > 0)
    BY <2>1, LocalsKnown DEF RunTwice
  <2>3. /\ localRuns[i].status # "running" => localRuns[i].runners = 0
        /\ \A j \in 1 .. Len(localRuns) : localRuns[j].of = localRuns[i].of => j = i
    BY <2>1, LocalsKnown DEF WorkerInv, OneLocalRun
  <2>4. localRuns[i].runners = 0
    BY <2>2, <2>3, LocalsKnown
  <2> QED
    BY <1>1, <2>3, <2>4
<1>3. ASSUME NEW i \in 1 .. Len(localRuns) PROVE R[i].runners \in Nat
  BY <1>1, LocalsKnown
<1>4. /\ hosted' = [s \in HostedRuns |-> hosted'[s]]
      /\ \A s \in HostedRuns : IsHosted(hosted'[s]) /\ hosted'[s].status = hosted[s].status
  BY Zenon, LeaseIs DEF Claims, WorkerInv
<1>5. hosted[r].status \in {"queued", "blocked"} /\ workerPc = "idle"
  BY DEF Claims
<1> QED
  BY <1>1, <1>2, <1>3, <1>4, <1>5 DEF R

LEMMA ClaimFailsStep == ASSUME WorkerInv, NEW r \in HostedRuns, ClaimFails(r) PROVE WorkerInv'
<1>1. /\ Claims(r) /\ \A i \in Existing(r) : localRuns[i].status = "blocked"
      /\ localRuns' = Resumed(localRuns) /\ workerPc' = "syncing"
      /\ claim' = [run |-> r, local |-> 0, report |-> "failed"]
      /\ doubted' = doubted \cup RunTwice
                  \cup (IF \E i \in DOMAIN localRuns : localRuns[i].of = r /\ i \notin Existing(r)
                        THEN {r} ELSE {})
  BY DEF ClaimFails, Reporting
<1>2. doubted \cup RunTwice \subseteq doubted'
  BY <1>1
<1>3. /\ AreLocal(localRuns') /\ DOMAIN localRuns' = 1 .. Len(localRuns)
      /\ \A i \in 1 .. Len(localRuns) :
           /\ localRuns'[i].of = localRuns[i].of /\ localRuns'[i].status = localRuns[i].status
           /\ localRuns[i].of \notin doubted' =>
                /\ localRuns'[i].runners <= 1
                /\ localRuns'[i].status # "running" => localRuns'[i].runners = 0
                /\ \A j \in 1 .. Len(localRuns) : localRuns'[j].of = localRuns'[i].of => j = i
      /\ hosted' = [s \in HostedRuns |-> hosted'[s]]
      /\ \A s \in HostedRuns : IsHosted(hosted'[s]) /\ hosted'[s].status = hosted[s].status
      /\ hosted[r].status \in {"queued", "blocked"}
  BY <1>1, <1>2, ClaimResumes
<1>4. IsClaim(claim') /\ claim'.run = r /\ claim'.local = 0 /\ claim'.report = "failed"
  BY <1>1 DEF IsClaim
<1>5. doubted' \subseteq HostedRuns
  <2>1. RunTwice \subseteq HostedRuns
    BY LocalsKnown DEF RunTwice
  <2> QED
    BY <1>1, <2>1 DEF WorkerInv, WorkerShapes
<1>6. WorkerShapes'
  BY <1>3, <1>4, <1>5 DEF WorkerShapes
<1>7. OneLocalRun'
  BY <1>3 DEF OneLocalRun
<1>8. ToldTruth'
  BY <1>2, <1>3, TruthStays, LocalsKnown
<1>9. r \notin doubted' => \A i \in DOMAIN localRuns : localRuns[i].of = r => localRuns[i].status = "blocked"
  BY <1>1
<1>10. ClaimIsOpen'
  BY <1>1, <1>3, <1>4, <1>9, LocalsKnown DEF ClaimIsOpen, ReportIsTrue, Ended
<1> QED
  BY <1>6, <1>7, <1>8, <1>10 DEF WorkerInv

LEMMA ClaimReportsStep == ASSUME WorkerInv, NEW r \in HostedRuns, ClaimReports(r) PROVE WorkerInv'
<1>1. PICK i \in Existing(r) :
      /\ Claims(r) /\ localRuns' = Resumed(localRuns) /\ workerPc' = "syncing"
      /\ claim' = [run |-> r, local |-> i, report |-> Normalized(localRuns[i].status)]
      /\ doubted' = doubted \cup RunTwice \cup (IF localRuns[i].status \in Ended THEN {} ELSE {r})
  BY DEF ClaimReports, Reporting
<1>2. doubted \cup RunTwice \subseteq doubted'
  BY <1>1
<1>3. /\ AreLocal(localRuns') /\ DOMAIN localRuns' = 1 .. Len(localRuns)
      /\ \A j \in 1 .. Len(localRuns) :
           /\ localRuns'[j].of = localRuns[j].of /\ localRuns'[j].status = localRuns[j].status
           /\ localRuns[j].of \notin doubted' =>
                /\ localRuns'[j].runners <= 1
                /\ localRuns'[j].status # "running" => localRuns'[j].runners = 0
                /\ \A k \in 1 .. Len(localRuns) : localRuns'[k].of = localRuns'[j].of => k = j
      /\ hosted' = [s \in HostedRuns |-> hosted'[s]]
      /\ \A s \in HostedRuns : IsHosted(hosted'[s]) /\ hosted'[s].status = hosted[s].status
      /\ hosted[r].status \in {"queued", "blocked"}
  BY <1>1, <1>2, ClaimResumes
<1>4. /\ IsClaim(claim') /\ claim'.run = r /\ claim'.local = i
      /\ claim'.report = Normalized(localRuns[i].status)
  BY <1>1 DEF IsClaim
<1>5. doubted' \subseteq HostedRuns
  <2>1. RunTwice \subseteq HostedRuns
    BY LocalsKnown DEF RunTwice
  <2> QED
    BY <1>1, <2>1 DEF WorkerInv, WorkerShapes
<1>6. WorkerShapes'
  BY <1>3, <1>4, <1>5 DEF WorkerShapes
<1>7. OneLocalRun'
  BY <1>3 DEF OneLocalRun
<1>8. ToldTruth'
  BY <1>2, <1>3, TruthStays, LocalsKnown
<1>9. i \in 1 .. Len(localRuns) /\ i # 0 /\ localRuns[i].of = r
  BY LocalsKnown DEF Existing
<1>10. /\ Normalized(localRuns[i].status) \in Ended
       /\ r \notin doubted' => Normalized(localRuns[i].status) = localRuns[i].status
  BY <1>1 DEF Normalized, Ended
<1>11. ClaimIsOpen'
  BY <1>1, <1>3, <1>4, <1>9, <1>10 DEF ClaimIsOpen, ReportIsTrue, LocalIsOwn
<1> QED
  BY <1>6, <1>7, <1>8, <1>11 DEF WorkerInv

(* The run that is continued was blocked, so nothing ran it. *)
LEMMA ContinuesStep == ASSUME WorkerInv, NEW r \in HostedRuns, ClaimContinues(r) PROVE WorkerInv'
<1>1. PICK i \in Existing(r) :
      /\ Claims(r) /\ localRuns[i].status = "blocked"
      /\ localRuns' = [Resumed(localRuns) EXCEPT ![i].status = "running", ![i].runners = @ + 1]
      /\ workerPc' = "waiting" /\ claim' = [run |-> r, local |-> i, report |-> "none"]
      /\ doubted' = doubted \cup RunTwice
  BY Zenon DEF ClaimContinues, Awaiting
<1>2. PICK R : R = Resumed(localRuns)
  OBVIOUS
<1>3. /\ AreLocal(R) /\ Len(R) = Len(localRuns) /\ DOMAIN R = 1 .. Len(localRuns)
      /\ \A j \in 1 .. Len(localRuns) :
           /\ R[j].of = localRuns[j].of /\ R[j].status = localRuns[j].status
           /\ R[j].runners \in Nat
           /\ localRuns[j].of \notin doubted' =>
                /\ R[j].runners <= 1 /\ (R[j].status # "running" => R[j].runners = 0)
                /\ \A k \in 1 .. Len(localRuns) : R[k].of = R[j].of => k = j
      /\ hosted' = [s \in HostedRuns |-> hosted'[s]]
      /\ \A s \in HostedRuns : IsHosted(hosted'[s]) /\ hosted'[s].status = hosted[s].status
      /\ hosted[r].status \in {"queued", "blocked"}
  <2>1. doubted \cup RunTwice \subseteq doubted'
    BY <1>1
  <2> QED
    BY <1>1, <1>2, <2>1, ClaimResumes
<1>4. i \in 1 .. Len(R) /\ i # 0 /\ localRuns[i].of = r
  BY <1>3, LocalsKnown DEF Existing
<1>5. R[i].runners + 1 \in Nat /\ "running" \in LocalStatus
  BY <1>3, <1>4 DEF LocalStatus
<1>6. localRuns' = [R EXCEPT ![i].status = "running", ![i].runners = R[i].runners + 1]
  BY <1>1, <1>2, <1>3, <1>4
<1>7. Proceeds(localRuns', R, i, "running", R[i].runners + 1)
  BY Zenon, <1>3, <1>4, <1>5, <1>6, RunsOn
<1>8. /\ AreLocal(localRuns') /\ DOMAIN localRuns' = 1 .. Len(localRuns)
      /\ \A j \in 1 .. Len(localRuns) :
           /\ localRuns'[j].of = localRuns[j].of
           /\ localRuns'[j].status = IF j = i THEN "running" ELSE localRuns[j].status
           /\ localRuns'[j].runners = IF j = i THEN R[i].runners + 1 ELSE R[j].runners
  BY <1>3, <1>7 DEF Proceeds
<1>9. IsClaim(claim') /\ claim'.run = r /\ claim'.local = i
  BY <1>1 DEF IsClaim
<1>10. doubted' \subseteq HostedRuns /\ doubted \subseteq doubted'
  <2>1. RunTwice \subseteq HostedRuns
    BY LocalsKnown DEF RunTwice
  <2> QED
    BY <1>1, <2>1 DEF WorkerInv, WorkerShapes
<1>11. WorkerShapes'
  BY <1>3, <1>8, <1>9, <1>10 DEF WorkerShapes
<1>12. OneLocalRun'
  <2>1. r \notin doubted' => R[i].runners = 0
    BY <1>1, <1>3, <1>4
  <2> QED
    BY <1>3, <1>4, <1>8, <2>1 DEF OneLocalRun
<1>13. ToldTruth'
  <2>1. DOMAIN localRuns = 1 .. Len(localRuns) /\ DOMAIN localRuns' = DOMAIN localRuns
    BY <1>8, LocalsKnown
  <2>2. \A j \in DOMAIN localRuns :
          /\ localRuns'[j].of = localRuns[j].of
          /\ localRuns[j].of # r => localRuns'[j].status = localRuns[j].status
    BY <1>4, <1>8, <2>1
  <2>3. \A s \in HostedRuns \ doubted' : s \in HostedRuns \ doubted
    BY <1>10
  <2>4. \A s \in HostedRuns : hosted'[s].status \in {"completed", "failed"} => s # r
    BY <1>3
  <2> QED
    BY <1>3, <2>1, <2>2, <2>3, <2>4 DEF WorkerInv, ToldTruth
<1>14. ClaimIsOpen'
  BY <1>1, <1>3, <1>4, <1>8, <1>9 DEF ClaimIsOpen, LocalIsOwn
<1> QED
  BY <1>11, <1>12, <1>13, <1>14 DEF WorkerInv

(* A run that is started is new: one that was run before is doubted. *)
LEMMA StartsStep == ASSUME WorkerInv, NEW r \in HostedRuns, ClaimStarts(r) PROVE WorkerInv'
<1>0. PICK n \in Nat : n = Len(localRuns) /\ DOMAIN localRuns = 1 .. n
  BY Zenon, LocalsKnown
<1>1. /\ Claims(r) /\ workerPc' = "waiting"
      /\ localRuns' = Append(Resumed(localRuns), [of |-> r, status |-> "running", runners |-> 1])
      /\ claim' = [run |-> r, local |-> n + 1, report |-> "none"]
      /\ doubted' = doubted \cup RunTwice
                  \cup (IF \E i \in DOMAIN localRuns : localRuns[i].of = r THEN {r} ELSE {})
  BY <1>0 DEF ClaimStarts, Awaiting
<1>2. PICK R : R = Resumed(localRuns)
  OBVIOUS
<1>3. /\ AreLocal(R) /\ Len(R) = n /\ DOMAIN R = 1 .. n
      /\ \A j \in 1 .. n :
           /\ R[j].of = localRuns[j].of /\ R[j].status = localRuns[j].status
           /\ R[j].runners \in Nat
           /\ localRuns[j].of \notin doubted' =>
                /\ R[j].runners <= 1 /\ (R[j].status # "running" => R[j].runners = 0)
                /\ \A k \in 1 .. n : R[k].of = R[j].of => k = j
      /\ hosted' = [s \in HostedRuns |-> hosted'[s]]
      /\ \A s \in HostedRuns : IsHosted(hosted'[s]) /\ hosted'[s].status = hosted[s].status
      /\ hosted[r].status \in {"queued", "blocked"}
  <2>1. doubted \cup RunTwice \subseteq doubted'
    BY <1>1
  <2> QED
    BY <1>0, <1>1, <1>2, <2>1, ClaimResumes
<1>4. PICK e : e = [of |-> r, status |-> "running", runners |-> 1]
  BY Zenon
<1>5. IsLocal(e) /\ e.of = r /\ e.status = "running" /\ e.runners = 1
  <2>1. "running" \in LocalStatus /\ 1 \in Nat
    BY DEF LocalStatus
  <2> QED
    BY <1>4, <2>1, LocalMade
<1>6. /\ IsList(localRuns') /\ Len(localRuns') = n + 1
      /\ \A i \in 1 .. n + 1 : localRuns'[i] = IF i = n + 1 THEN e ELSE R[i]
  BY <1>1, <1>2, <1>3, <1>4, Longer DEF AreLocal
<1>7. /\ AreLocal(localRuns') /\ DOMAIN localRuns' = 1 .. n + 1
      /\ \A i \in 1 .. n : localRuns'[i] = R[i]
      /\ localRuns'[n + 1] = e
  <2>1. \A i \in 1 .. n : IsLocal(R[i]) /\ i \in 1 .. n + 1 /\ i # n + 1
    BY <1>3 DEF AreLocal
  <2>2. \A i \in 1 .. n + 1 : i = n + 1 \/ i \in 1 .. n
    OBVIOUS
  <2>3. n + 1 \in 1 .. n + 1
    OBVIOUS
  <2>4. \A i \in 1 .. n : localRuns'[i] = R[i]
    BY <1>6, <2>1
  <2>5. localRuns'[n + 1] = e
    BY <1>6, <2>3
  <2>6. \A i \in 1 .. n + 1 : IsLocal(localRuns'[i])
    BY <1>5, <2>1, <2>2, <2>4, <2>5
  <2>7. DOMAIN localRuns' = 1 .. n + 1
    BY <1>6 DEF IsList
  <2> QED
    BY <1>6, <2>4, <2>5, <2>6, <2>7 DEF AreLocal
<1> HIDE <1>6
<1>8. IsClaim(claim') /\ claim'.run = r /\ claim'.local = n + 1
  BY <1>1 DEF IsClaim
<1>9. doubted' \subseteq HostedRuns /\ doubted \subseteq doubted'
  <2>1. RunTwice \subseteq HostedRuns
    BY LocalsKnown DEF RunTwice
  <2> QED
    BY <1>1, <2>1 DEF WorkerInv, WorkerShapes
<1>10. \A i \in 1 .. n + 1 : i = n + 1 \/ i \in 1 .. n
  OBVIOUS
<1>11. r \notin doubted' => \A j \in 1 .. n : R[j].of # r
  BY <1>0, <1>1, <1>3
<1>12. WorkerShapes'
  BY <1>3, <1>7, <1>8, <1>9 DEF WorkerShapes
<1>13. OneLocalRun'
  BY <1>3, <1>5, <1>7, <1>10, <1>11 DEF OneLocalRun
<1>14. ToldTruth'
  <2>1. ASSUME NEW s \in HostedRuns \ doubted', hosted[s].status = "completed"
        PROVE  \E i \in DOMAIN localRuns' : localRuns'[i].of = s /\ localRuns'[i].status = "completed"
    <3>1. PICK i \in 1 .. n : localRuns[i].of = s /\ localRuns[i].status = "completed"
      BY <1>0, <1>9, <2>1 DEF WorkerInv, ToldTruth
    <3>2. i \in 1 .. n + 1
      OBVIOUS
    <3> QED
      BY <1>3, <1>7, <3>1, <3>2
  <2>2. ASSUME NEW s \in HostedRuns \ doubted', hosted[s].status = "failed",
               NEW i \in 1 .. n + 1, localRuns'[i].of = s
        PROVE  localRuns'[i].status \notin {"running", "completed"}
    <3>1. i # n + 1
      BY <1>3, <1>5, <1>7, <2>2
    <3>2. i \in 1 .. n
      BY <1>10, <3>1
    <3> QED
      BY <1>0, <1>3, <1>7, <1>9, <2>2, <3>2 DEF WorkerInv, ToldTruth
  <2> QED
    BY <1>3, <1>7, <2>1, <2>2 DEF ToldTruth
<1>15. ClaimIsOpen'
  <2>1. n + 1 \in 1 .. n + 1
    OBVIOUS
  <2> QED
    BY <1>1, <1>3, <1>5, <1>7, <1>8, <2>1 DEF ClaimIsOpen, LocalIsOwn
<1> QED
  BY <1>12, <1>13, <1>14, <1>15 DEF WorkerInv

LEMMA WorkerStep == ASSUME WorkerInv, [WorkerNext]_workerVars PROVE WorkerInv'
<1>1. CASE UNCHANGED workerVars
  BY <1>1 DEF workerVars, WorkerInv, WorkerShapes, OneLocalRun, ToldTruth, ClaimIsOpen, LocalIsOwn,
     ReportIsTrue
<1> QED
  BY <1>1, BootStep, DiesStep, WaitDoneStep, GivesUpStep, TakenStep, LostStep, AppliesStep,
     PollEndsStep, EndsStep, StartsStep, ClaimFailsStep, ContinuesStep, ClaimReportsStep, ExpiresStep
  DEF WorkerNext

(* The invariant says what is reported, and that there is one run and runner. *)
LEMMA WorkerKept == WorkerInv => WorkerReportsTruth
<1> SUFFICES ASSUME WorkerInv, NEW r \in HostedRuns \ doubted
             PROVE  LET mine == {localRuns[i] : i \in {j \in DOMAIN localRuns : localRuns[j].of = r}}
                    IN /\ hosted[r].status = "completed" => \E l \in mine : l.status = "completed"
                       /\ hosted[r].status = "failed" =>
                            \A l \in mine : l.status \notin {"running", "completed"}
                       /\ Cardinality({j \in DOMAIN localRuns : localRuns[j].of = r}) <= 1
                       /\ \A l \in mine : l.runners <= 1
  BY DEF WorkerReportsTruth
<1> DEFINE J == {j \in DOMAIN localRuns : localRuns[j].of = r}
           mine == {localRuns[i] : i \in J}
<1>1. hosted[r].status = "completed" => \E l \in mine : l.status = "completed"
  BY DEF WorkerInv, ToldTruth
<1>2. hosted[r].status = "failed" => \A l \in mine : l.status \notin {"running", "completed"}
  BY DEF WorkerInv, ToldTruth
<1>3. \A l \in mine : l.runners <= 1
  BY DEF WorkerInv, OneLocalRun
<1>4. Cardinality(J) <= 1
  <2>1. CASE J = {}
    <3>1. Cardinality({}) = 0
      BY FS_EmptySet
    <3> QED
      BY <2>1, <3>1
  <2>2. CASE J # {}
    <3>1. PICK i \in J : TRUE
      BY <2>2
    <3>2. \A j \in J : j = i
      BY <3>1 DEF WorkerInv, OneLocalRun
    <3>3. J = {i}
      BY <3>1, <3>2
    <3>4. Cardinality({i}) = 1
      BY Zenon, FS_Singleton
    <3> QED
      BY <3>3, <3>4
  <2> QED
    BY <2>1, <2>2
<1> QED
  BY <1>1, <1>2, <1>3, <1>4

(* The reports of a worker are true (WorkerReportsTruth): of a run that is not
   doubted the platform is told what became of its one local run, which has one
   runner, for any number of hosted runs, claims and local runs. *)
THEOREM ReportsAreTrue == WorkerInit /\ [][WorkerNext]_workerVars => []WorkerReportsTruth
  BY WorkerBegins, WorkerStep, WorkerKept, PTL

-----------------------------------------------------------------------------
(* The commands and the daemon *)

IsSup(s) == s = [at |-> s.at, worker |-> s.worker, group |-> s.group, ends |-> s.ends]
IsCommand(c) ==
  c = [kind |-> c.kind, at |-> c.at, seen |-> c.seen, down |-> c.down, live |-> c.live]
DaemonShapes ==
  /\ sups = [s \in Sups |-> sups[s]] /\ \A s \in Sups : IsSup(sups[s])
  /\ typed = [t \in Terminals |-> typed[t]] /\ \A t \in Terminals : IsCommand(typed[t])

(* A supervisor that waits to launch a worker has none; the file names one that
   was launched; the stranger has the id of one that is gone. *)
SupsMade ==
  /\ \A s \in Sups : /\ sups[s].at \in {"none", "boot", "writing", "up", "delay", "gone"}
                     /\ sups[s].at \in {"none", "boot", "delay"} => sups[s].worker = "none"
  /\ stateFile \in Sups \cup {0, -1}
  /\ stateFile \in Sups => sups[stateFile].at # "none"
  /\ stranger # 0 => stranger \in Sups /\ sups[stranger].at = "gone"

(* A command other than a restart goes on with a process that was the daemon's
   when it looked, and whose id is not given away meanwhile. *)
Looking == {"probe", "ask", "signal", "wait", "wait signal"}
LooksAtDaemon ==
  /\ \A t \in Terminals :
       /\ typed[t].at \in {"none", "read", "start", "clear", "spawn"} \cup Looking
       /\ typed[t].at \in Looking /\ typed[t].kind # "restart" =>
            typed[t].seen # 0 /\ typed[t].seen # stranger
  /\ struck \subseteq {"restart"}

(* While the commands come one after the other and nobody reads half a file,
   there is one supervisor, which the file names; a command knows the one
   there is, or that there is none. *)
FileNamesOne ==
  /\ \A s, n \in LiveSups : s = n
  /\ \A s \in LiveSups : /\ sups[s].at \in {"up", "delay"} => stateFile = s
                         /\ sups[s].at = "writing" => stateFile = -1
Knows(c, running) ==
  /\ c.at \in {"start", "clear", "spawn"} => running = {}
  /\ c.at \in Looking => running \subseteq {c.seen}
  /\ c.down => c.live = {}
CommandsKnow ==
  /\ \A t, u \in InFlight : t = u
  /\ InFlight # {} => \A s \in Sups : sups[s].at # "boot"
  /\ \A t \in Terminals : Knows(typed[t], LiveSups)

DaemonInv ==
  /\ DaemonShapes /\ SupsMade /\ LooksAtDaemon
  /\ together \/ halfRead \/ (FileNamesOne /\ CommandsKnow)

(* One supervisor changes, and one command. *)
SupMoves(s, a, w) ==
  /\ sups' = [n \in Sups |-> sups'[n]] /\ \A n \in Sups : IsSup(sups'[n])
  /\ \A n \in Sups : n # s => sups'[n] = sups[n]
  /\ sups'[s].at = a /\ sups'[s].worker = w
CommandMoves(t, c) ==
  /\ typed' = [u \in Terminals |-> typed'[u]] /\ \A u \in Terminals : IsCommand(typed'[u])
  /\ \A u \in Terminals : u # t => typed'[u] = typed[u]
  /\ typed'[t] = c

LEMMA SupReplaced ==
  ASSUME DaemonShapes, NEW s \in Sups, NEW e, IsSup(e), sups' = [sups EXCEPT ![s] = e]
  PROVE  SupMoves(s, e.at, e.worker)
<1>1. DOMAIN sups = Sups /\ \A n \in Sups : IsSup(sups[n])
  BY DEF DaemonShapes
<1>2. sups' = [n \in Sups |-> sups'[n]]
  BY Zenon, <1>1
<1>3. \A n \in Sups : sups'[n] = IF n = s THEN e ELSE sups[n]
  BY <1>1
<1> QED
  BY <1>1, <1>2, <1>3 DEF SupMoves

(* What a step makes of a supervisor, one field after the other. *)
LEMMA SupWith ==
  ASSUME NEW s, IsSup(s), NEW x
  PROVE  /\ IsSup([s EXCEPT !.at = x]) /\ [s EXCEPT !.at = x].at = x
         /\ [s EXCEPT !.at = x].worker = s.worker
         /\ IsSup([s EXCEPT !.worker = x]) /\ [s EXCEPT !.worker = x].worker = x
         /\ [s EXCEPT !.worker = x].at = s.at
         /\ IsSup([s EXCEPT !.ends = x]) /\ [s EXCEPT !.ends = x].at = s.at
         /\ [s EXCEPT !.ends = x].worker = s.worker
<1>1. PICK a, b, c, d : s = [at |-> a, worker |-> b, group |-> c, ends |-> d]
  BY DEF IsSup
<1>2. s.at = a /\ s.worker = b
  BY <1>1
<1>3. [s EXCEPT !.at = x] = [at |-> x, worker |-> b, group |-> c, ends |-> d]
  BY <1>1
<1>4. [s EXCEPT !.worker = x] = [at |-> a, worker |-> x, group |-> c, ends |-> d]
  BY <1>1
<1>5. [s EXCEPT !.ends = x] = [at |-> a, worker |-> b, group |-> c, ends |-> x]
  BY <1>1
<1>6. \A f, g, h, k : LET r == [at |-> f, worker |-> g, group |-> h, ends |-> k]
                      IN IsSup(r) /\ r.at = f /\ r.worker = g
  BY DEF IsSup
<1> QED
  BY <1>2, <1>3, <1>4, <1>5, <1>6

LEMMA AtMoves ==
  ASSUME DaemonShapes, NEW s \in Sups, NEW a, sups' = [sups EXCEPT ![s].at = a]
  PROVE  SupMoves(s, a, sups[s].worker)
<1>1. DOMAIN sups = Sups /\ IsSup(sups[s])
  BY DEF DaemonShapes
<1>2. PICK e : e = [sups[s] EXCEPT !.at = a]
  BY Zenon
<1>3. sups' = [sups EXCEPT ![s] = e]
  BY <1>1, <1>2
<1>4. IsSup(e) /\ e.at = a /\ e.worker = sups[s].worker
  BY ZenonT(30), <1>1, <1>2, SupWith
<1> QED
  BY Zenon, <1>3, <1>4, SupReplaced
LEMMA WorkerMoves ==
  ASSUME DaemonShapes, NEW s \in Sups, NEW w, sups' = [sups EXCEPT ![s].worker = w]
  PROVE  SupMoves(s, sups[s].at, w)
<1>1. DOMAIN sups = Sups /\ IsSup(sups[s])
  BY DEF DaemonShapes
<1>2. PICK e : e = [sups[s] EXCEPT !.worker = w]
  BY Zenon
<1>3. sups' = [sups EXCEPT ![s] = e]
  BY <1>1, <1>2
<1>4. IsSup(e) /\ e.at = sups[s].at /\ e.worker = w
  BY ZenonT(30), <1>1, <1>2, SupWith
<1> QED
  BY Zenon, <1>3, <1>4, SupReplaced
LEMMA BothMove ==
  ASSUME DaemonShapes, NEW s \in Sups, NEW a, NEW w,
         sups' = [sups EXCEPT ![s].at = a, ![s].worker = w]
  PROVE  SupMoves(s, a, w)
<1>1. DOMAIN sups = Sups /\ IsSup(sups[s])
  BY DEF DaemonShapes
<1>2. PICK d : d = [sups[s] EXCEPT !.at = a]
  BY Zenon
<1>3. PICK e : e = [d EXCEPT !.worker = w]
  BY Zenon
<1>4. IsSup(d) /\ d.at = a
  BY ZenonT(30), <1>1, <1>2, SupWith
<1>5. IsSup(e) /\ e.at = a /\ e.worker = w
  BY Zenon, <1>3, <1>4, SupWith
<1>6. PICK u : u = [sups EXCEPT ![s] = d]
  BY Zenon
<1>7. u = [sups EXCEPT ![s].at = a] /\ DOMAIN u = Sups /\ u[s] = d
  BY <1>1, <1>2, <1>6
<1>8. sups' = [u EXCEPT ![s].worker = w]
  BY <1>7
<1>9. sups' = [u EXCEPT ![s] = e]
  BY Zenon, <1>3, <1>7, <1>8
<1>10. sups' = [sups EXCEPT ![s] = e]
  BY Zenon, <1>1, <1>6, <1>9
<1> QED
  BY Zenon, <1>5, <1>10, SupReplaced
LEMMA EndsMoves ==
  ASSUME DaemonShapes, NEW s \in Sups, NEW w,
         sups' = [sups EXCEPT ![s].ends = TRUE, ![s].worker = w]
  PROVE  SupMoves(s, sups[s].at, w)
<1>1. DOMAIN sups = Sups /\ IsSup(sups[s])
  BY DEF DaemonShapes
<1>2. PICK d : d = [sups[s] EXCEPT !.ends = TRUE]
  BY Zenon
<1>3. PICK e : e = [d EXCEPT !.worker = w]
  BY Zenon
<1>4. IsSup(d) /\ d.at = sups[s].at
  BY Zenon, <1>1, <1>2, SupWith
<1>5. IsSup(e) /\ e.at = sups[s].at /\ e.worker = w
  BY Zenon, <1>3, <1>4, SupWith
<1>6. PICK u : u = [sups EXCEPT ![s] = d]
  BY Zenon
<1>7. u = [sups EXCEPT ![s].ends = TRUE] /\ DOMAIN u = Sups /\ u[s] = d
  BY <1>1, <1>2, <1>6
<1>8. sups' = [u EXCEPT ![s].worker = w]
  BY <1>7
<1>9. sups' = [u EXCEPT ![s] = e]
  BY Zenon, <1>3, <1>7, <1>8
<1>10. sups' = [sups EXCEPT ![s] = e]
  BY Zenon, <1>1, <1>6, <1>9
<1> QED
  BY Zenon, <1>5, <1>10, SupReplaced

(* What a step makes of a command. *)
LEMMA CommandReplaced ==
  ASSUME DaemonShapes, NEW t \in Terminals, NEW c, IsCommand(c), typed' = [typed EXCEPT ![t] = c]
  PROVE  CommandMoves(t, c)
<1>1. DOMAIN typed = Terminals /\ \A n \in Terminals : IsCommand(typed[n])
  BY DEF DaemonShapes
<1>2. typed' = [n \in Terminals |-> typed'[n]]
  BY Zenon, <1>1
<1>3. \A n \in Terminals : typed'[n] = IF n = t THEN c ELSE typed[n]
  BY <1>1
<1> QED
  BY <1>1, <1>2, <1>3 DEF CommandMoves

LEMMA CommandGoes ==
  ASSUME DaemonShapes, NEW t \in Terminals, NEW a, Goes(t, a)
  PROVE  \E c : /\ CommandMoves(t, c) /\ c.at = a /\ c.kind = typed[t].kind /\ c.seen = typed[t].seen
                /\ c.down = typed[t].down /\ c.live = typed[t].live
<1>1. DOMAIN typed = Terminals /\ IsCommand(typed[t])
  BY DEF DaemonShapes
<1>2. PICK k, b, p, d, l : typed[t] = [kind |-> k, at |-> b, seen |-> p, down |-> d, live |-> l]
  BY <1>1 DEF IsCommand
<1>3. PICK c : c = [kind |-> k, at |-> a, seen |-> p, down |-> d, live |-> l]
  BY Zenon
<1>4. /\ IsCommand(c) /\ c.at = a /\ c.kind = k /\ c.seen = p /\ c.down = d /\ c.live = l
  BY <1>3 DEF IsCommand
<1>5. [typed[t] EXCEPT !.at = a] = c
  BY <1>2, <1>3
<1>6. typed' = [typed EXCEPT ![t] = c]
  BY Zenon, <1>1, <1>5 DEF Goes
<1>7. CommandMoves(t, c)
  BY Zenon, <1>4, <1>6, CommandReplaced
<1>8. typed[t].kind = k /\ typed[t].seen = p /\ typed[t].down = d /\ typed[t].live = l
  BY <1>2
<1> QED
  BY <1>4, <1>7, <1>8

LEMMA CommandOver ==
  /\ IsCommand(NoCommand) /\ NoCommand.at = "none" /\ NoCommand.down = FALSE
  /\ IsCommand(ToldDown) /\ ToldDown.at = "none" /\ ToldDown.down = TRUE /\ ToldDown.live = LiveSups
<1>1. PICK c : c = [NoCommand EXCEPT !.down = TRUE]
  BY Zenon
<1>2. c = [kind |-> "none", at |-> "none", seen |-> 0, down |-> TRUE, live |-> {}]
  BY Zenon, <1>1 DEF NoCommand
<1>3. ToldDown = [c EXCEPT !.live = LiveSups]
  BY <1>1 DEF ToldDown
<1>4. ToldDown = [kind |-> "none", at |-> "none", seen |-> 0, down |-> TRUE, live |-> LiveSups]
  BY Zenon, <1>2, <1>3
<1>5. ToldDown.at = "none" /\ ToldDown.down = TRUE /\ ToldDown.live = LiveSups
  BY <1>4
<1>6. IsCommand(ToldDown)
  BY <1>4 DEF IsCommand
<1> QED
  BY <1>5, <1>6 DEF IsCommand, NoCommand

(* A supervisor that goes on, or ends, is the one the file names. *)
SupsStay ==
  /\ sups' = [n \in Sups |-> sups'[n]] /\ \A n \in Sups : IsSup(sups'[n])
  /\ SupsMade' /\ LiveSups' \subseteq LiveSups
  /\ \A n \in Sups : sups'[n].at = "boot" => sups[n].at = "boot"
  /\ FileNamesOne /\ CommandsKnow => FileNamesOne'
LEMMA SupGoesOn ==
  ASSUME DaemonInv, NEW s \in Sups, NEW a, NEW w, SupMoves(s, a, w),
         s \in LiveSups \/ (sups[s].at = "gone" /\ a = "gone" /\ stateFile' = stateFile),
         \/ a \in {"writing", "up", "gone"}
         \/ a \in {"boot", "delay"} /\ w = "none" /\ (a = "boot" => sups[s].at = "boot"),
         stateFile' \in {stateFile, 0, -1, s}, UNCHANGED stranger,
         FileNamesOne => /\ a \in {"up", "delay"} => stateFile' = s
                         /\ a = "writing" => stateFile' = -1
  PROVE  SupsStay
<1>1. /\ \A n \in Sups : sups[n].at \in {"none", "boot", "writing", "up", "delay", "gone"}
      /\ \A n \in Sups : sups[n].at \in {"none", "boot", "delay"} => sups[n].worker = "none"
      /\ stateFile \in Sups \cup {0, -1} /\ (stateFile \in Sups => sups[stateFile].at # "none")
      /\ stranger # 0 => stranger \in Sups /\ sups[stranger].at = "gone"
  BY DEF DaemonInv, SupsMade
<1>2. /\ \A n \in Sups : n # s => sups'[n] = sups[n]
      /\ sups'[s].at = a /\ sups'[s].worker = w
  BY DEF SupMoves
<1>3. SupsMade'
  <2>1. ASSUME NEW n \in Sups
        PROVE  /\ sups'[n].at \in {"none", "boot", "writing", "up", "delay", "gone"}
               /\ sups'[n].at \in {"none", "boot", "delay"} => sups'[n].worker = "none"
               /\ sups[n].at # "none" => sups'[n].at # "none"
    BY <1>1, <1>2
  <2>2. stateFile' \in Sups \cup {0, -1}
    BY <1>1
  <2>3. s \in LiveSups => sups[s].at # "gone"
    BY DEF LiveSups
  <2>4. stranger # 0 => sups'[stranger].at = "gone"
    BY <1>1, <1>2, <2>3
  <2>5. stateFile' \in Sups => sups'[stateFile'].at # "none"
    BY <1>1, <1>2, <2>1, CommandBounds
  <2> QED
    BY <1>1, <2>1, <2>2, <2>4, <2>5 DEF SupsMade
<1>4. LiveSups' \subseteq LiveSups
  BY <1>2 DEF LiveSups
<1>5. \A n \in Sups : sups'[n].at = "boot" => sups[n].at = "boot"
  BY <1>2
<1>6. ASSUME FileNamesOne PROVE FileNamesOne'
  <2>1. \A m, n \in LiveSups' : m = n
    BY <1>4, <1>6 DEF FileNamesOne
  <2>2. ASSUME NEW n \in LiveSups'
        PROVE  /\ sups'[n].at \in {"up", "delay"} => stateFile' = n
               /\ sups'[n].at = "writing" => stateFile' = -1
    <3>1. CASE n = s
      BY <1>2, <1>6, <3>1
    <3>2. CASE n # s
      <4>1. n \in Sups /\ n \in LiveSups
        BY <1>4 DEF LiveSups
      <4>2. s \notin LiveSups
        BY <1>6, <3>2, <4>1 DEF FileNamesOne
      <4>3. stateFile' = stateFile /\ sups'[n] = sups[n]
        BY <1>2, <3>2, <4>1, <4>2
      <4> QED
        BY <1>6, <4>1, <4>3 DEF FileNamesOne
    <3> QED
      BY <3>1, <3>2
  <2> QED
    BY <2>1, <2>2 DEF FileNamesOne
<1> QED
  BY <1>3, <1>4, <1>5, <1>6 DEF SupsStay, SupMoves
LEMMA SupsAsTheyAre ==
  ASSUME DaemonInv, UNCHANGED <<sups, stateFile>>, stranger' \in {stranger, 0}
  PROVE  SupsStay
  BY DEF DaemonInv, DaemonShapes, SupsStay, SupsMade, FileNamesOne, LiveSups

(* While it does, the commands that do not step know what they knew. *)
LEMMA NobodyTypes ==
  ASSUME DaemonInv, SupsStay, UNCHANGED <<typed, stranger, struck, together, halfRead>>
  PROVE  DaemonInv'
<1>1. DaemonShapes'
  BY DEF DaemonInv, DaemonShapes, SupsStay
<1>2. LooksAtDaemon'
  BY DEF DaemonInv, LooksAtDaemon
<1>3. CommandsKnow => CommandsKnow'
  BY DEF CommandsKnow, Knows, SupsStay, InFlight
<1> QED
  BY <1>1, <1>2, <1>3 DEF DaemonInv, SupsStay

(* A command goes on, knowing what there is. *)
LEMMA CommandGoesOn ==
  ASSUME DaemonInv, SupsStay, NEW t \in Terminals, NEW c, CommandMoves(t, c),
         typed[t].at # "none", UNCHANGED together, halfRead => halfRead',
         stranger' \in {stranger, 0}, struck' \subseteq {"restart"},
         c.at \in {"none", "read", "start", "clear", "spawn"} \cup Looking,
         c.at \in Looking /\ c.kind # "restart" => c.seen # 0 /\ c.seen # stranger,
         ~halfRead' /\ FileNamesOne /\ CommandsKnow => Knows(c, LiveSups')
  PROVE  DaemonInv'
<1>1. /\ \A u \in Terminals : u # t => typed'[u] = typed[u]
      /\ typed'[t] = c
  BY DEF CommandMoves
<1>2. DaemonShapes'
  BY DEF DaemonShapes, SupsStay, CommandMoves
<1>3. LooksAtDaemon'
  <2>1. ASSUME NEW u \in Terminals
        PROVE  /\ typed'[u].at \in {"none", "read", "start", "clear", "spawn"} \cup Looking
               /\ typed'[u].at \in Looking /\ typed'[u].kind # "restart" =>
                    typed'[u].seen # 0 /\ typed'[u].seen # stranger'
    BY <1>1 DEF DaemonInv, LooksAtDaemon
  <2> QED
    BY <2>1 DEF LooksAtDaemon
<1>4. ASSUME ~halfRead', FileNamesOne, CommandsKnow PROVE CommandsKnow'
  <2>1. InFlight' \subseteq InFlight
    BY <1>1 DEF InFlight
  <2>2. \A s \in Sups : sups'[s].at # "boot"
    <3>1. InFlight # {}
      BY DEF InFlight
    <3> QED
      BY <1>4, <3>1 DEF CommandsKnow, SupsStay
  <2>3. ASSUME NEW u \in Terminals PROVE Knows(typed'[u], LiveSups')
    <3>1. CASE u = t
      BY <1>1, <1>4, <3>1
    <3>2. CASE u # t
      BY <1>1, <1>4, <3>2 DEF CommandsKnow, Knows, SupsStay
    <3> QED
      BY <3>1, <3>2
  <2>4. \A u, v \in InFlight' : u = v
    BY <1>4, <2>1 DEF CommandsKnow
  <2> QED
    BY <2>2, <2>3, <2>4 DEF CommandsKnow
<1> QED
  BY <1>2, <1>3, <1>4 DEF DaemonInv, SupsStay

-----------------------------------------------------------------------------
LEMMA ExitStep ==
  ASSUME DaemonInv, NEW s \in LiveSups, sups[s].at \in {"writing", "up"}, NEW asked,
         WorkerExited(s, asked), UNCHANGED stranger
  PROVE  SupsStay
<1>1. s \in Sups
  BY DEF LiveSups
<1>2. CASE asked \/ sups[s].ends
  <2>1. sups' = [sups EXCEPT ![s].at = "gone", ![s].worker = "none"] /\ stateFile' = 0
    BY <1>2 DEF WorkerExited, SupBecomes
  <2>2. SupMoves(s, "gone", "none")
    BY Zenon, <1>1, <2>1, BothMove DEF DaemonInv
  <2> QED
    BY <1>1, <2>1, <2>2, SupGoesOn
<1>3. CASE ~(asked \/ sups[s].ends)
  <2>1. /\ sups' = [sups EXCEPT ![s].at = "delay", ![s].worker = "none"]
        /\ stateFile' = IF sups[s].at = "writing" THEN s ELSE stateFile
    BY <1>3 DEF WorkerExited, SupBecomes
  <2>2. SupMoves(s, "delay", "none")
    BY Zenon, <1>1, <2>1, BothMove DEF DaemonInv
  <2>3. FileNamesOne => stateFile' = s
    BY <2>1 DEF FileNamesOne
  <2>4. stateFile' \in {stateFile, 0, -1, s}
    BY <2>1
  <2> QED
    BY <1>1, <2>2, <2>3, <2>4, SupGoesOn
<1> QED
  BY <1>2, <1>3

(* A supervisor that has a worker is launching it or up. *)
LEMMA HasWorker ==
  ASSUME DaemonInv, NEW s \in LiveSups, sups[s].worker # "none"
  PROVE  sups[s].at \in {"writing", "up"}
  BY DEF DaemonInv, SupsMade, LiveSups

LEMMA LaunchStep == ASSUME DaemonInv, NEW s \in Sups, SupLaunches(s) PROVE DaemonInv'
<1>1. /\ s \in LiveSups /\ sups' = [sups EXCEPT ![s].at = "writing", ![s].worker = "starting"]
      /\ stateFile' = -1
  BY DEF SupLaunches, SupBecomes, LiveSups
<1>2. SupMoves(s, "writing", "starting")
  BY Zenon, <1>1, BothMove DEF DaemonInv
<1>3. UNCHANGED <<typed, stranger, struck, together, halfRead>>
  BY DEF SupLaunches
<1>4. SupsStay
  BY <1>1, <1>2, <1>3, SupGoesOn
<1> QED
  BY <1>3, <1>4, NobodyTypes
LEMMA WriteStep == ASSUME DaemonInv, NEW s \in Sups, SupWrites(s) PROVE DaemonInv'
<1>1. s \in LiveSups /\ sups' = [sups EXCEPT ![s].at = "up"] /\ stateFile' = s
  BY DEF SupWrites, LiveSups
<1>2. SupMoves(s, "up", sups[s].worker)
  BY Zenon, <1>1, AtMoves DEF DaemonInv
<1>3. UNCHANGED <<typed, stranger, struck, together, halfRead>>
  BY DEF SupWrites
<1>4. SupsStay
  BY <1>1, <1>2, <1>3, SupGoesOn
<1> QED
  BY <1>3, <1>4, NobodyTypes
LEMMA ListenStep == ASSUME DaemonInv, NEW s \in Sups, DaemonListens(s) PROVE DaemonInv'
<1>1. s \in LiveSups /\ sups[s].at \in {"writing", "up"}
  BY HasWorker DEF DaemonListens
<1>2. UNCHANGED <<typed, stranger, struck, together, halfRead>>
  BY DEF DaemonListens
<1>3. CASE HoldsPort = {}
  <2>1. sups' = [sups EXCEPT ![s].at = sups[s].at, ![s].worker = "serving"] /\ UNCHANGED stateFile
    BY <1>3 DEF DaemonListens, SupBecomes
  <2>2. SupMoves(s, sups[s].at, "serving")
    BY Zenon, <2>1, BothMove DEF DaemonInv
  <2>3. FileNamesOne => /\ sups[s].at \in {"up", "delay"} => stateFile' = s
                        /\ sups[s].at = "writing" => stateFile' = -1
    BY <1>1, <2>1 DEF FileNamesOne
  <2>4. SupsStay
    BY <1>1, <1>2, <2>1, <2>2, <2>3, SupGoesOn
  <2> QED
    BY <1>2, <2>4, NobodyTypes
<1>4. CASE HoldsPort # {}
  <2>1. WorkerExited(s, FALSE)
    BY Zenon, <1>4 DEF DaemonListens
  <2>2. SupsStay
    BY Zenon, <1>1, <1>2, <2>1, ExitStep
  <2> QED
    BY <1>2, <2>2, NobodyTypes
<1> QED
  BY <1>3, <1>4
LEMMA LeaveStep == ASSUME DaemonInv, NEW s \in Sups, DaemonLeaves(s) PROVE DaemonInv'
<1>1. UNCHANGED <<typed, stranger, struck, together, halfRead>> /\ sups[s].worker = "leaving"
  BY DEF DaemonLeaves
<1>2. CASE s \in LiveSups
  <2>1. WorkerExited(s, TRUE) /\ sups[s].at \in {"writing", "up"}
    BY Zenon, <1>1, <1>2, HasWorker DEF DaemonLeaves
  <2>2. SupsStay
    BY Zenon, <1>1, <1>2, <2>1, ExitStep
  <2> QED
    BY <1>1, <2>2, NobodyTypes
<1>3. CASE s \notin LiveSups
  <2>1. sups' = [sups EXCEPT ![s].at = "gone", ![s].worker = "none"] /\ UNCHANGED stateFile
    BY <1>3 DEF DaemonLeaves, SupBecomes
  <2>2. sups[s].at = "gone"
    BY <1>1, <1>3 DEF DaemonInv, SupsMade, LiveSups
  <2>3. SupMoves(s, "gone", "none")
    BY Zenon, <2>1, BothMove DEF DaemonInv
  <2>4. SupsStay
    BY <1>1, <2>1, <2>2, <2>3, SupGoesOn
  <2> QED
    BY <1>1, <2>4, NobodyTypes
<1> QED
  BY <1>2, <1>3
LEMMA CrashStep == ASSUME DaemonInv, NEW s \in Sups, DaemonCrashes(s) PROVE DaemonInv'
<1>1. s \in LiveSups /\ sups[s].at \in {"writing", "up"} /\ WorkerExited(s, FALSE)
  BY Zenon, HasWorker DEF DaemonCrashes
<1>2. UNCHANGED <<typed, stranger, struck, together, halfRead>>
  BY DEF DaemonCrashes
<1>3. SupsStay
  BY Zenon, <1>1, <1>2, ExitStep
<1> QED
  BY <1>2, <1>3, NobodyTypes
LEMMA SupDiesStep == ASSUME DaemonInv, NEW s \in Sups, SupDies(s) PROVE DaemonInv'
<1>1. s \in LiveSups /\ sups' = [sups EXCEPT ![s].at = "gone"] /\ UNCHANGED stateFile
  BY DEF SupDies
<1>2. SupMoves(s, "gone", sups[s].worker)
  BY Zenon, <1>1, AtMoves DEF DaemonInv
<1>3. UNCHANGED <<typed, stranger, struck, together, halfRead>>
  BY DEF SupDies
<1>4. SupsStay
  BY <1>1, <1>2, <1>3, SupGoesOn
<1> QED
  BY <1>3, <1>4, NobodyTypes

(* An id is given away while nobody types. *)
LEMMA ReuseStep == ASSUME DaemonInv, PidReused PROVE DaemonInv'
<1>1. /\ stateFile \in Sups /\ stateFile \notin LiveSups /\ InFlight = {} /\ stranger' = stateFile
      /\ UNCHANGED <<sups, stateFile, typed, struck, together, halfRead>>
  BY DEF PidReused
<1>2. sups[stateFile].at = "gone"
  BY <1>1 DEF DaemonInv, SupsMade, LiveSups
<1>3. SupsMade'
  BY <1>1, <1>2 DEF DaemonInv, SupsMade
<1>4. LooksAtDaemon'
  <2>1. \A t \in Terminals : typed[t].at = "none"
    BY <1>1 DEF InFlight
  <2>2. "none" \notin Looking
    BY DEF Looking
  <2> QED
    BY <1>1, <2>1, <2>2 DEF DaemonInv, LooksAtDaemon
<1>5. DaemonShapes'
  BY <1>1 DEF DaemonInv, DaemonShapes
<1>6. FileNamesOne /\ CommandsKnow => (FileNamesOne /\ CommandsKnow)'
  BY <1>1 DEF FileNamesOne, CommandsKnow, Knows, LiveSups, InFlight
<1> QED
  BY <1>1, <1>3, <1>4, <1>5, <1>6 DEF DaemonInv

(* A command begins where none is under way. *)
LEMMA TypeStep == ASSUME DaemonInv, NEW t \in Terminals, NEW k, TypeCommand(t, k) PROVE DaemonInv'
<1>1. /\ typed[t].at = "none" /\ UNCHANGED <<sups, stateFile, stranger, struck, halfRead>>
      /\ typed' = [typed EXCEPT ![t] = [NoCommand EXCEPT !.kind = k, !.at = "read"]]
      /\ together' = (together \/ InFlight # {} \/ \E s \in Sups : sups[s].at = "boot")
  BY DEF TypeCommand
<1>2. PICK c : c = [kind |-> k, at |-> "read", seen |-> 0, down |-> FALSE, live |-> {}]
  BY Zenon
<1>3. IsCommand(c) /\ c.at = "read" /\ c.down = FALSE
  BY <1>2 DEF IsCommand
<1>4. [NoCommand EXCEPT !.kind = k, !.at = "read"] = c
  <2>1. PICK d : d = [NoCommand EXCEPT !.kind = k]
    BY Zenon
  <2>2. d = [kind |-> k, at |-> "none", seen |-> 0, down |-> FALSE, live |-> {}]
    BY Zenon, <2>1 DEF NoCommand
  <2>3. PICK o, n, f, l : d = [kind |-> k, at |-> o, seen |-> n, down |-> f, live |-> l]
    BY Zenon, <2>2
  <2>4. [d EXCEPT !.at = "read"] = [kind |-> k, at |-> "read", seen |-> n, down |-> f, live |-> l]
    BY <2>3
  <2>5. n = 0 /\ f = FALSE /\ l = {}
    BY <2>2, <2>3
  <2> QED
    BY Zenon, <1>2, <2>1, <2>4, <2>5
<1>5. CommandMoves(t, c)
  BY Zenon, <1>1, <1>3, <1>4, CommandReplaced DEF DaemonInv
<1>6. SupsMade' /\ DaemonShapes'
  BY <1>1, <1>5 DEF DaemonInv, SupsMade, DaemonShapes, CommandMoves
<1>7. LooksAtDaemon'
  <2>1. "read" \notin Looking
    BY DEF Looking
  <2>2. ASSUME NEW u \in Terminals
        PROVE  /\ typed'[u].at \in {"none", "read", "start", "clear", "spawn"} \cup Looking
               /\ typed'[u].at \in Looking /\ typed'[u].kind # "restart" =>
                    typed'[u].seen # 0 /\ typed'[u].seen # stranger'
    BY <1>1, <1>3, <1>5, <2>1 DEF DaemonInv, LooksAtDaemon, CommandMoves
  <2> QED
    BY <1>1, <2>2 DEF DaemonInv, LooksAtDaemon
<1>8. ASSUME FileNamesOne, CommandsKnow, ~together' PROVE FileNamesOne' /\ CommandsKnow'
  <2>1. InFlight = {} /\ \A s \in Sups : sups[s].at # "boot"
    BY Zenon, <1>1, <1>8
  <2>2. FileNamesOne' /\ LiveSups' = LiveSups /\ \A s \in Sups : sups'[s].at # "boot"
    BY <1>1, <1>8, <2>1 DEF FileNamesOne, LiveSups
  <2>3. InFlight' \subseteq {t}
    BY <1>5, <2>1 DEF InFlight, CommandMoves
  <2>4. ASSUME NEW u \in Terminals PROVE Knows(typed'[u], LiveSups')
    <3>1. CASE u = t
      BY Zenon, <1>3, <1>5, <3>1 DEF CommandMoves, Knows, Looking
    <3>2. CASE u # t
      BY <1>5, <1>8, <2>2, <3>2 DEF CommandMoves, CommandsKnow
    <3> QED
      BY <3>1, <3>2
  <2> QED
    BY <2>2, <2>3, <2>4 DEF CommandsKnow
<1> QED
  BY Zenon, <1>1, <1>6, <1>7, <1>8 DEF DaemonInv

(* What a command reads is the one supervisor there is, or that there is none. *)
LEMMA ReadsWell ==
  ASSUME DaemonInv, NEW t \in Terminals, typed[t].at # "none", FileNamesOne, CommandsKnow,
         ~(stateFile = -1 /\ LiveSups # {}),
         NEW p, p = IF stateFile \in Sups THEN stateFile ELSE 0
  PROVE  /\ LiveSups \subseteq {p} /\ (p = 0 => LiveSups = {})
         /\ (p \notin LiveSups => LiveSups = {})
<1>1. ASSUME NEW s \in LiveSups PROVE s = p /\ p # 0
  <2>1. t \in InFlight
    BY DEF InFlight
  <2>2. sups[s].at # "boot"
    BY <2>1 DEF CommandsKnow, LiveSups
  <2>3. sups[s].at \in {"writing", "up", "delay"} /\ s \in Sups
    BY <2>2 DEF DaemonInv, SupsMade, LiveSups
  <2>4. stateFile = s
    BY <2>3 DEF FileNamesOne
  <2> QED
    BY <2>3, <2>4, CommandBounds
<1> QED
  BY <1>1

(* A live supervisor is nobody else's id, and neither is no supervisor. *)
LEMMA LiveIsOwn ==
  ASSUME DaemonInv, NEW p \in LiveSups
  PROVE  p # 0 /\ p # stranger /\ p \in Sups
  BY CommandBounds DEF DaemonInv, SupsMade, LiveSups

Reads(t, a, p) == typed' = [typed EXCEPT ![t] = [@ EXCEPT !.at = a, !.seen = p]]
LEMMA CommandReads ==
  ASSUME DaemonShapes, NEW t \in Terminals, NEW a, NEW p, Reads(t, a, p)
  PROVE  \E c : /\ CommandMoves(t, c) /\ c.at = a /\ c.kind = typed[t].kind /\ c.seen = p
                /\ c.down = typed[t].down /\ c.live = typed[t].live
<1>1. DOMAIN typed = Terminals /\ IsCommand(typed[t])
  BY DEF DaemonShapes
<1>2. PICK k, b, n, d, l : typed[t] = [kind |-> k, at |-> b, seen |-> n, down |-> d, live |-> l]
  BY <1>1 DEF IsCommand
<1>3. PICK c : c = [kind |-> k, at |-> a, seen |-> p, down |-> d, live |-> l]
  BY Zenon
<1>4. /\ IsCommand(c) /\ c.at = a /\ c.kind = k /\ c.seen = p /\ c.down = d /\ c.live = l
  BY <1>3 DEF IsCommand
<1>5. [typed[t] EXCEPT !.at = a, !.seen = p] = c
  <2>1. PICK e : e = [typed[t] EXCEPT !.at = a]
    BY Zenon
  <2>2. e = [kind |-> k, at |-> a, seen |-> n, down |-> d, live |-> l]
    BY <1>2, <2>1
  <2>3. [e EXCEPT !.seen = p] = [kind |-> k, at |-> a, seen |-> p, down |-> d, live |-> l]
    BY <2>2
  <2> QED
    BY <1>3, <2>1, <2>3
<1>6. typed' = [typed EXCEPT ![t] = c]
  BY Zenon, <1>1, <1>5 DEF Reads
<1>7. CommandMoves(t, c)
  BY Zenon, <1>4, <1>6, CommandReplaced
<1>8. typed[t].kind = k /\ typed[t].down = d /\ typed[t].live = l
  BY <1>2
<1> QED
  BY <1>4, <1>7, <1>8

LEMMA ReadStep == ASSUME DaemonInv, NEW t \in Terminals, ReadState(t) PROVE DaemonInv'
<1>0. PICK p : p = IF stateFile \in Sups THEN stateFile ELSE 0
  OBVIOUS
<1>1. /\ typed[t].at = "read" /\ UNCHANGED <<sups, stateFile, stranger, struck, together>>
      /\ halfRead' = (halfRead \/ (stateFile = -1 /\ LiveSups # {}))
      /\ typed' = [typed EXCEPT ![t] =
           IF ~Starts(t) /\ (p = 0 \/ (IsPidRunning(p) /\ ~IsOwnershipMatch(p)))
           THEN IF p = 0 THEN ToldDown ELSE NoCommand
           ELSE [@ EXCEPT !.at = AfterRead(t, p), !.seen = p]]
  BY <1>0 DEF ReadState
<1>2. SupsStay /\ LiveSups' = LiveSups
  BY <1>1, SupsAsTheyAre DEF LiveSups
<1>3. ASSUME ~halfRead', FileNamesOne, CommandsKnow
      PROVE  /\ LiveSups \subseteq {p} /\ (p = 0 => LiveSups = {})
             /\ (p \notin LiveSups => LiveSups = {})
  BY Zenon, <1>0, <1>1, <1>3, ReadsWell
<1>4. struck' \subseteq {"restart"}
  BY <1>1 DEF DaemonInv, LooksAtDaemon
<1>5. CASE ~Starts(t) /\ (p = 0 \/ (IsPidRunning(p) /\ ~IsOwnershipMatch(p)))
  <2>1. PICK c : c = IF p = 0 THEN ToldDown ELSE NoCommand
    OBVIOUS
  <2>2. typed' = [typed EXCEPT ![t] = c]
    BY Zenon, <1>1, <1>5, <2>1
  <2>3. IsCommand(c) /\ c.at = "none" /\ (c.down => p = 0 /\ c.live = LiveSups)
    BY <2>1, CommandOver
  <2>4. CommandMoves(t, c)
    BY Zenon, <2>2, <2>3, CommandReplaced DEF DaemonInv
  <2>5. "none" \notin Looking
    BY DEF Looking
  <2>6. ~halfRead' /\ FileNamesOne /\ CommandsKnow => Knows(c, LiveSups')
    BY <1>3, <2>3, <2>5 DEF Knows
  <2> QED
    BY Zenon, <1>1, <1>2, <1>4, <2>3, <2>4, <2>5, <2>6, CommandGoesOn
<1>6. CASE ~(~Starts(t) /\ (p = 0 \/ (IsPidRunning(p) /\ ~IsOwnershipMatch(p))))
  <2>1. PICK a : a = AfterRead(t, p)
    OBVIOUS
  <2>2. Reads(t, a, p)
    BY Zenon, <1>1, <1>6, <2>1 DEF Reads
  <2>3. PICK c : /\ CommandMoves(t, c) /\ c.at = a /\ c.kind = typed[t].kind /\ c.seen = p
                 /\ c.down = typed[t].down /\ c.live = typed[t].live
    BY <2>2, CommandReads DEF DaemonInv
  <2>4. /\ a \in {"start", "spawn"} => p = 0
        /\ a \in {"start", "spawn", "clear", "signal", "probe", "ask"}
        /\ a = "clear" => p \notin LiveSups
        /\ a \in {"probe", "ask"} => p \in LiveSups
        /\ a = "signal" => typed[t].kind = "restart"
    BY <1>6, <2>1 DEF AfterRead, IsOwnershipMatch, IsPidRunning, Starts
  <2>5. c.at \in Looking /\ c.kind # "restart" => c.seen # 0 /\ c.seen # stranger
    BY Zenon, <2>3, <2>4, LiveIsOwn DEF Looking
  <2>6. ~halfRead' /\ FileNamesOne /\ CommandsKnow => Knows(c, LiveSups')
    BY Zenon, <1>2, <1>3, <2>3, <2>4 DEF Knows, Looking, CommandsKnow
  <2>7. c.at \in {"none", "read", "start", "clear", "spawn"} \cup Looking
    BY Zenon, <2>3, <2>4 DEF Looking
  <2> QED
    BY Zenon, <1>1, <1>2, <1>4, <2>3, <2>5, <2>6, <2>7, CommandGoesOn
<1> QED
  BY <1>5, <1>6

(* The start inside a restart reads the state when the daemon is down. *)
LEMMA ReadAgainStep == ASSUME DaemonInv, NEW t \in Terminals, ReadAgain(t) PROVE DaemonInv'
<1>0. PICK p : p = IF stateFile \in Sups THEN stateFile ELSE 0
  OBVIOUS
<1>1. PICK a : a = IF p = 0 THEN "spawn" ELSE IF IsOwnershipMatch(p) THEN "probe" ELSE "clear"
  OBVIOUS
<1>2. /\ typed[t].at = "start" /\ UNCHANGED <<sups, stateFile, stranger, struck, together>>
      /\ halfRead' = (halfRead \/ (stateFile = -1 /\ LiveSups # {}))
      /\ typed' = [typed EXCEPT ![t].kind = "start", ![t].seen = p, ![t].at = a]
  BY <1>0, <1>1 DEF ReadAgain
<1>3. SupsStay /\ LiveSups' = LiveSups
  BY <1>2, SupsAsTheyAre DEF LiveSups
<1>4. struck' \subseteq {"restart"}
  BY <1>2 DEF DaemonInv, LooksAtDaemon
<1>5. DOMAIN typed = Terminals /\ IsCommand(typed[t])
  BY DEF DaemonInv, DaemonShapes
<1>6. PICK k, b, n, d, l : typed[t] = [kind |-> k, at |-> b, seen |-> n, down |-> d, live |-> l]
  BY <1>5 DEF IsCommand
<1>7. PICK c : c = [kind |-> "start", at |-> a, seen |-> p, down |-> d, live |-> l]
  BY Zenon
<1>8. /\ IsCommand(c) /\ c.at = a /\ c.kind = "start" /\ c.seen = p /\ c.down = typed[t].down
      /\ c.live = typed[t].live
  BY <1>6, <1>7 DEF IsCommand
<1>9. typed' = [typed EXCEPT ![t] = c]
  <2>0. PICK g : g = "start"
    OBVIOUS
  <2>1. PICK e, f : e = [typed[t] EXCEPT !.kind = g] /\ f = [e EXCEPT !.seen = p]
    BY Zenon
  <2>2. e = [kind |-> g, at |-> b, seen |-> n, down |-> d, live |-> l]
    BY <1>6, <2>1
  <2>3. f = [kind |-> g, at |-> b, seen |-> p, down |-> d, live |-> l]
    <3>1. [e EXCEPT !.seen = p] = [kind |-> g, at |-> b, seen |-> p, down |-> d, live |-> l]
      BY <2>2
    <3> QED
      BY <2>1, <3>1
  <2>4. [f EXCEPT !.at = a] = c
    <3>1. [f EXCEPT !.at = a] = [kind |-> g, at |-> a, seen |-> p, down |-> d, live |-> l]
      BY <2>3
    <3> QED
      BY <1>7, <2>0, <3>1
  <2>5. PICK u, v : u = [typed EXCEPT ![t] = e] /\ v = [u EXCEPT ![t] = f]
    BY Zenon
  <2>6. u = [typed EXCEPT ![t].kind = "start"] /\ DOMAIN u = Terminals /\ u[t] = e
    BY <1>5, <2>0, <2>1, <2>5
  <2>7. v = [u EXCEPT ![t].seen = p] /\ DOMAIN v = Terminals /\ v[t] = f
    BY <2>1, <2>5, <2>6
  <2>8. typed' = [v EXCEPT ![t].at = a]
    BY Zenon, <1>2, <2>6, <2>7
  <2>9. typed' = [v EXCEPT ![t] = c]
    BY Zenon, <2>4, <2>7, <2>8
  <2>10. v = [typed EXCEPT ![t] = f]
    BY Zenon, <1>5, <2>5
  <2> QED
    BY Zenon, <1>5, <2>9, <2>10
<1>10. CommandMoves(t, c)
  BY Zenon, <1>8, <1>9, CommandReplaced DEF DaemonInv
<1>11. /\ a \in {"spawn", "probe", "clear"} /\ (a = "probe" => p \in LiveSups)
  BY <1>1 DEF IsOwnershipMatch
<1>12. c.at \in Looking /\ c.kind # "restart" => c.seen # 0 /\ c.seen # stranger
  BY Zenon, <1>8, <1>11, LiveIsOwn DEF Looking
<1>13. ~halfRead' /\ FileNamesOne /\ CommandsKnow => Knows(c, LiveSups')
  BY Zenon, <1>2, <1>3, <1>8 DEF Knows, Looking, CommandsKnow
<1>14. c.at \in {"none", "read", "start", "clear", "spawn"} \cup Looking
  BY Zenon, <1>8, <1>11 DEF Looking
<1> QED
  BY Zenon, <1>2, <1>3, <1>4, <1>10, <1>12, <1>13, <1>14, CommandGoesOn

(* A command that only goes on, and one that is over. *)
LEMMA GoesStep ==
  ASSUME DaemonInv, SupsStay, NEW t \in Terminals, NEW a, Goes(t, a),
         typed[t].at # "none", UNCHANGED <<together, halfRead>>,
         stranger' \in {stranger, 0}, struck' \subseteq {"restart"},
         \/ a \in Looking /\ typed[t].at \in Looking
         \/ a \in {"start", "clear", "spawn"} /\ (FileNamesOne /\ CommandsKnow => LiveSups' = {})
  PROVE  DaemonInv'
<1>1. PICK c : /\ CommandMoves(t, c) /\ c.at = a /\ c.kind = typed[t].kind /\ c.seen = typed[t].seen
               /\ c.down = typed[t].down /\ c.live = typed[t].live
  BY CommandGoes DEF DaemonInv
<1>2. c.at \in Looking /\ c.kind # "restart" => c.seen # 0 /\ c.seen # stranger
  BY Zenon, <1>1 DEF DaemonInv, LooksAtDaemon, Looking
<1>3. ASSUME FileNamesOne, CommandsKnow PROVE Knows(c, LiveSups')
  <2>1. Knows(typed[t], LiveSups) /\ LiveSups' \subseteq LiveSups
    BY <1>3 DEF CommandsKnow, SupsStay
  <2> QED
    BY Zenon, <1>1, <1>3, <2>1 DEF Knows, Looking
<1>4. c.at \in {"none", "read", "start", "clear", "spawn"} \cup Looking
  BY <1>1
<1> QED
  BY <1>1, <1>2, <1>3, <1>4, CommandGoesOn
LEMMA OverStep ==
  ASSUME DaemonInv, SupsStay, NEW t \in Terminals, typed[t].at # "none",
         UNCHANGED <<together, halfRead>>, stranger' \in {stranger, 0}, struck' \subseteq {"restart"},
         \/ Over(t)
         \/ /\ typed' = [typed EXCEPT ![t] = ToldDown]
            /\ FileNamesOne /\ CommandsKnow => LiveSups = {}
  PROVE  DaemonInv'
<1>1. PICK c \in {NoCommand, ToldDown} :
        /\ typed' = [typed EXCEPT ![t] = c]
        /\ c = ToldDown /\ c # NoCommand /\ FileNamesOne /\ CommandsKnow => LiveSups = {}
  BY DEF Over
<1>2. IsCommand(c) /\ c.at = "none" /\ (c.down => c = ToldDown /\ c # NoCommand /\ c.live = LiveSups)
  BY CommandOver
<1>3. CommandMoves(t, c)
  BY Zenon, <1>1, <1>2, CommandReplaced DEF DaemonInv
<1>4. "none" \notin Looking
  BY DEF Looking
<1>5. FileNamesOne /\ CommandsKnow => Knows(c, LiveSups')
  BY <1>1, <1>2, <1>4 DEF Knows
<1> QED
  BY <1>2, <1>3, <1>4, <1>5, CommandGoesOn

LEMMA ProbeStep == ASSUME DaemonInv, NEW t \in Terminals, Probe(t) PROVE DaemonInv'
<1>1. /\ typed[t].at = "probe"
      /\ Over(t) \/ Goes(t, "signal")
      /\ UNCHANGED <<sups, stateFile, stranger, struck, together, halfRead>>
  BY DEF Probe
<1>2. SupsStay /\ struck' \subseteq {"restart"} /\ stranger' \in {stranger, 0}
  BY <1>1, SupsAsTheyAre DEF DaemonInv, LooksAtDaemon
<1>3. {"probe", "signal"} \subseteq Looking
  BY DEF Looking
<1>4. CASE Over(t)
  BY <1>1, <1>2, <1>4, OverStep
<1>5. CASE Goes(t, "signal")
  BY <1>1, <1>2, <1>3, <1>5, GoesStep
<1> QED
  BY <1>1, <1>4, <1>5

LEMMA AskStep == ASSUME DaemonInv, NEW t \in Terminals, Ask(t) PROVE DaemonInv'
<1>1. typed[t].at = "ask" /\ UNCHANGED <<stateFile, stranger, struck, together, halfRead>>
  BY DEF Ask
<1>2. struck' \subseteq {"restart"} /\ stranger' \in {stranger, 0}
  BY <1>1 DEF DaemonInv, LooksAtDaemon
<1>3. {"ask", "wait", "signal"} \subseteq Looking
  BY DEF Looking
<1>4. SupsStay
  <2>1. CASE UNCHANGED sups
    BY <1>1, <2>1, SupsAsTheyAre
  <2>2. ASSUME NEW s \in Serving, sups' = [sups EXCEPT ![s].worker = "leaving"]
        PROVE  SupsStay
    <3>1. s \in Sups /\ sups[s].worker # "none"
      BY DEF Serving
    <3>2. SupMoves(s, sups[s].at, "leaving")
      BY Zenon, <2>2, <3>1, WorkerMoves DEF DaemonInv
    <3>3. CASE s \in LiveSups
      <4>1. sups[s].at \in {"writing", "up"}
        BY <3>1, <3>3, HasWorker
      <4>2. FileNamesOne => /\ sups[s].at \in {"up", "delay"} => stateFile' = s
                            /\ sups[s].at = "writing" => stateFile' = -1
        BY <1>1, <3>3 DEF FileNamesOne
      <4> QED
        BY <1>1, <3>1, <3>2, <3>3, <4>1, <4>2, SupGoesOn
    <3>4. CASE s \notin LiveSups
      <4>1. sups[s].at = "gone"
        BY <3>1, <3>4 DEF DaemonInv, SupsMade, LiveSups
      <4> QED
        BY <1>1, <3>1, <3>2, <4>1, SupGoesOn
    <3> QED
      BY <3>3, <3>4
  <2> QED
    BY <2>1, <2>2 DEF Ask
<1>5. PICK a \in {"wait", "signal"} : Goes(t, a)
  BY DEF Ask
<1> QED
  BY <1>1, <1>2, <1>3, <1>4, <1>5, GoesStep

(* Once the one supervisor that a command knows is gone, none is left. *)
LEMMA NoneLeft ==
  ASSUME NEW t \in Terminals, typed[t].at \in Looking, typed[t].seen \notin LiveSups, CommandsKnow
  PROVE  LiveSups = {}
  BY DEF CommandsKnow, Knows

(* Only a restart signals a stranger. *)
LEMMA StrangerStruck ==
  ASSUME DaemonInv, NEW t \in Terminals, typed[t].at \in Looking, typed[t].seen = stranger, stranger # 0
  PROVE  typed[t].kind = "restart"
  BY DEF DaemonInv, LooksAtDaemon

LEMMA SignalStep == ASSUME DaemonInv, NEW t \in Terminals, Signal(t) PROVE DaemonInv'
<1>0. PICK p : p = typed[t].seen
  OBVIOUS
<1>1. /\ typed[t].at = "signal" /\ Goes(t, IF IsPidRunning(p) THEN "wait signal" ELSE "clear")
      /\ struck' = IF p \notin LiveSups /\ stranger = p /\ p # 0
                   THEN struck \cup {typed[t].kind} ELSE struck
      /\ sups' = IF p \notin LiveSups THEN sups
                 ELSE IF sups[p].worker = "none" THEN [sups EXCEPT ![p].at = "gone"]
                 ELSE [sups EXCEPT ![p].ends = TRUE, ![p].worker = "leaving"]
      /\ UNCHANGED <<stateFile, stranger, together, halfRead>>
  BY Zenon, <1>0 DEF Signal
<1>2. {"signal", "wait signal"} \subseteq Looking
  BY DEF Looking
<1>3. struck' \subseteq {"restart"}
  <2>1. struck \subseteq {"restart"}
    BY DEF DaemonInv, LooksAtDaemon
  <2> QED
    BY Zenon, <1>0, <1>1, <1>2, <2>1, StrangerStruck
<1>4. SupsStay
  <2>1. CASE p \notin LiveSups
    BY Zenon, <1>1, <2>1, SupsAsTheyAre
  <2>2. CASE p \in LiveSups /\ sups[p].worker = "none"
    <3>1. p \in Sups /\ sups' = [sups EXCEPT ![p].at = "gone"]
      BY Zenon, <1>1, <2>2 DEF LiveSups
    <3>2. SupMoves(p, "gone", sups[p].worker)
      BY Zenon, <3>1, AtMoves DEF DaemonInv
    <3> QED
      BY Zenon, <1>1, <2>2, <3>1, <3>2, SupGoesOn
  <2>3. CASE p \in LiveSups /\ sups[p].worker # "none"
    <3>1. p \in Sups /\ sups' = [sups EXCEPT ![p].ends = TRUE, ![p].worker = "leaving"]
      BY Zenon, <1>1, <2>3 DEF LiveSups
    <3>2. SupMoves(p, sups[p].at, "leaving")
      BY Zenon, <3>1, EndsMoves DEF DaemonInv
    <3>3. sups[p].at \in {"writing", "up"}
      BY <2>3, HasWorker
    <3>4. FileNamesOne => /\ sups[p].at \in {"up", "delay"} => stateFile' = p
                          /\ sups[p].at = "writing" => stateFile' = -1
      BY Zenon, <1>1, <2>3 DEF FileNamesOne
    <3> QED
      BY Zenon, <1>1, <2>3, <3>1, <3>2, <3>3, <3>4, SupGoesOn
  <2> QED
    BY <2>1, <2>2, <2>3
<1>5. CASE IsPidRunning(p)
  BY Zenon, <1>1, <1>2, <1>3, <1>4, <1>5, GoesStep
<1>6. CASE ~IsPidRunning(p)
  <2>1. FileNamesOne /\ CommandsKnow => LiveSups' = {}
    BY Zenon, <1>0, <1>1, <1>2, <1>4, <1>6, NoneLeft DEF IsPidRunning, SupsStay
  <2> QED
    BY <1>1, <1>3, <1>4, <1>6, <2>1, GoesStep
<1> QED
  BY <1>5, <1>6
LEMMA ExitSeenStep == ASSUME DaemonInv, NEW t \in Terminals, SeesExit(t) PROVE DaemonInv'
<1>1. /\ typed[t].at \in {"wait", "wait signal"} /\ typed[t].seen \notin LiveSups /\ Goes(t, "clear")
      /\ UNCHANGED <<sups, stateFile, stranger, struck, together, halfRead>>
  BY Zenon DEF SeesExit, IsPidRunning
<1>2. SupsStay /\ struck' \subseteq {"restart"} /\ stranger' \in {stranger, 0}
  BY Zenon, <1>1, SupsAsTheyAre DEF DaemonInv, LooksAtDaemon
<1>3. typed[t].at \in Looking /\ typed[t].at # "none"
  BY Zenon, <1>1 DEF Looking
<1>4. FileNamesOne /\ CommandsKnow => LiveSups' = {}
  BY Zenon, <1>1, <1>2, <1>3, NoneLeft DEF SupsStay
<1> QED
  BY Zenon, <1>1, <1>2, <1>3, <1>4, GoesStep
LEMMA TimeoutStep == ASSUME DaemonInv, NEW t \in Terminals, WaitTimesOut(t) PROVE DaemonInv'
<1>0. PICK p : p = typed[t].seen
  OBVIOUS
<1>1. /\ typed[t].at \in {"wait", "wait signal"} /\ IsPidRunning(p)
      /\ UNCHANGED <<stateFile, together, halfRead>>
  BY Zenon, <1>0 DEF WaitTimesOut
<1>2. typed[t].at \in Looking /\ typed[t].at # "none" /\ "signal" \in Looking
  BY Zenon, <1>1 DEF Looking
<1>3. CASE UNCHANGED <<sups, stranger, struck>> /\ (Over(t) \/ Goes(t, "signal"))
  <2>1. SupsStay /\ struck' \subseteq {"restart"} /\ stranger' \in {stranger, 0}
    BY Zenon, <1>1, <1>3, SupsAsTheyAre DEF DaemonInv, LooksAtDaemon
  <2> QED
    BY Zenon, <1>1, <1>2, <1>3, <2>1, OverStep, GoesStep
<1>4. CASE /\ Goes(t, "clear")
           /\ sups' = IF p \notin LiveSups THEN sups
                      ELSE [sups EXCEPT ![p].at = "gone",
                                        ![p].worker = IF sups[p].group THEN "none" ELSE @]
           /\ stranger' = IF p \in LiveSups THEN stranger ELSE 0
           /\ struck' = IF p \in LiveSups THEN struck ELSE struck \cup {typed[t].kind}
  <2>1. struck \subseteq {"restart"}
    BY DEF DaemonInv, LooksAtDaemon
  <2>2. p \notin LiveSups => p = stranger /\ p # 0
    BY Zenon, <1>1 DEF IsPidRunning
  <2>3. struck' \subseteq {"restart"} /\ stranger' \in {stranger, 0}
    BY <1>0, <1>2, <1>4, <2>1, <2>2, StrangerStruck
  <2>4. CASE p \notin LiveSups
    <3>1. SupsStay
      BY Zenon, <1>1, <1>4, <2>3, <2>4, SupsAsTheyAre
    <3>2. FileNamesOne /\ CommandsKnow => LiveSups' = {}
      BY <1>0, <1>2, <2>4, <3>1, NoneLeft DEF SupsStay
    <3> QED
      BY Zenon, <1>1, <1>2, <1>4, <2>3, <3>1, <3>2, GoesStep
  <2>5. CASE p \in LiveSups
    <3>1. PICK w : w = IF sups[p].group THEN "none" ELSE sups[p].worker
      OBVIOUS
    <3>2. p \in Sups
      BY <2>5 DEF LiveSups
    <3>3. sups' = [sups EXCEPT ![p].at = "gone", ![p].worker = w]
      BY <1>4, <2>5, <3>1
    <3>4. SupMoves(p, "gone", w)
      BY Zenon, <3>2, <3>3, BothMove DEF DaemonInv
    <3>5. SupsStay
      BY Zenon, <1>1, <1>4, <2>5, <3>2, <3>4, SupGoesOn
    <3>6. FileNamesOne /\ CommandsKnow => LiveSups' = {}
      <4>1. p \notin LiveSups'
        BY <3>4 DEF SupMoves, LiveSups
      <4>2. CommandsKnow => LiveSups \subseteq {p}
        BY <1>0, <1>2 DEF CommandsKnow, Knows
      <4> QED
        BY <3>5, <4>1, <4>2 DEF SupsStay
    <3> QED
      BY Zenon, <1>1, <1>2, <1>4, <2>3, <3>5, <3>6, GoesStep
  <2> QED
    BY <2>4, <2>5
<1> QED
  BY Zenon, <1>0, <1>3, <1>4 DEF WaitTimesOut
LEMMA ClearStep == ASSUME DaemonInv, NEW t \in Terminals, ClearState(t) PROVE DaemonInv'
<1>1. /\ typed[t].at = "clear" /\ stateFile' = 0
      /\ UNCHANGED <<sups, stranger, struck, together, halfRead>>
  BY DEF ClearState
<1>2. CommandsKnow => LiveSups = {}
  BY <1>1 DEF CommandsKnow, Knows
<1>3. SupsStay /\ LiveSups' = LiveSups
  <2>1. SupsMade' /\ LiveSups' = LiveSups
    BY <1>1, CommandBounds DEF DaemonInv, SupsMade, LiveSups
  <2>2. CommandsKnow => FileNamesOne'
    BY <1>2, <2>1 DEF FileNamesOne
  <2> QED
    BY <1>1, <2>1, <2>2 DEF SupsStay, DaemonInv, DaemonShapes
<1>4. struck' \subseteq {"restart"} /\ stranger' \in {stranger, 0}
  BY <1>1 DEF DaemonInv, LooksAtDaemon
<1>5. CASE Starts(t)
  <2>1. PICK a \in {"start", "spawn"} : Goes(t, a)
    BY <1>5 DEF ClearState
  <2> QED
    BY <1>1, <1>2, <1>3, <1>4, <2>1, GoesStep
<1>6. CASE ~Starts(t)
  <2>1. typed' = [typed EXCEPT ![t] = ToldDown]
    BY <1>6 DEF ClearState
  <2> QED
    BY Zenon, <1>1, <1>2, <1>3, <1>4, <2>1, OverStep
<1> QED
  BY <1>5, <1>6

(* The new supervisor is the only one, and nobody types until it begins. *)
LEMMA SpawnStep == ASSUME DaemonInv, NEW t \in Terminals, SpawnSupervisor(t) PROVE DaemonInv'
<1>1. PICK s \in Sups : /\ sups[s] = NoSup
                        /\ sups' = [sups EXCEPT ![s] = [NoSup EXCEPT !.at = "boot",
                             !.group = typed[t].kind # "foreground"]]
  <2>1. PICK F : F = {n \in Sups : sups[n] = NoSup}
    BY Zenon
  <2>2. F \in SUBSET Nat /\ F # {}
    BY <2>1, CommandBounds DEF SpawnSupervisor
  <2>3. \E n \in Sups : sups[n] = NoSup /\ \A m \in Sups : sups[m] = NoSup => n <= m
    BY <2>1, <2>2, LeastNumber
  <2> QED
    BY Zenon, <2>3 DEF SpawnSupervisor
<1>2. /\ typed[t].at = "spawn" /\ Over(t)
      /\ UNCHANGED <<stateFile, stranger, struck, together, halfRead>>
  BY DEF SpawnSupervisor
<1>3. PICK e : e = [NoSup EXCEPT !.at = "boot", !.group = typed[t].kind # "foreground"]
  OBVIOUS
<1>4. IsSup(e) /\ e.at = "boot" /\ e.worker = "none"
  BY Zenon, <1>3 DEF NoSup, IsSup
<1>5. SupMoves(s, "boot", "none")
  <2>1. sups' = [sups EXCEPT ![s] = e]
    BY <1>1, <1>3
  <2> QED
    BY Zenon, <1>4, <2>1, SupReplaced DEF DaemonInv
<1>6. CommandMoves(t, NoCommand)
  BY Zenon, <1>2, CommandOver, CommandReplaced DEF DaemonInv, Over
<1>7. sups[s].at = "none"
  BY <1>1 DEF NoSup
<1>8. DaemonShapes'
  BY <1>5, <1>6 DEF DaemonShapes, SupMoves, CommandMoves
<1>9. SupsMade'
  <2>1. ASSUME NEW n \in Sups
        PROVE  /\ sups'[n].at \in {"none", "boot", "writing", "up", "delay", "gone"}
               /\ sups'[n].at \in {"none", "boot", "delay"} => sups'[n].worker = "none"
               /\ sups[n].at # "none" => sups'[n].at = sups[n].at
    BY <1>5, <1>7 DEF DaemonInv, SupsMade, SupMoves
  <2> QED
    BY <1>2, <2>1 DEF DaemonInv, SupsMade
<1>10. LooksAtDaemon'
  <2>1. "none" \notin Looking
    BY DEF Looking
  <2>2. ASSUME NEW u \in Terminals
        PROVE  /\ typed'[u].at \in {"none", "read", "start", "clear", "spawn"} \cup Looking
               /\ typed'[u].at \in Looking /\ typed'[u].kind # "restart" =>
                    typed'[u].seen # 0 /\ typed'[u].seen # stranger'
    BY <1>2, <1>6, <2>1, CommandOver DEF DaemonInv, LooksAtDaemon, CommandMoves
  <2> QED
    BY <1>2, <2>2 DEF DaemonInv, LooksAtDaemon
<1>11. ASSUME FileNamesOne, CommandsKnow PROVE FileNamesOne' /\ CommandsKnow'
  <2>1. LiveSups = {} /\ t \in InFlight
    BY <1>2, <1>11 DEF CommandsKnow, Knows, InFlight
  <2>2. LiveSups' \subseteq {s}
    BY <1>5, <2>1 DEF SupMoves, LiveSups
  <2>3. FileNamesOne'
    BY <1>5, <2>2 DEF FileNamesOne, SupMoves
  <2>4. InFlight' = {}
    BY <1>6, <1>11, <2>1, CommandOver DEF InFlight, CommandMoves, CommandsKnow
  <2>5. ASSUME NEW u \in Terminals PROVE Knows(typed'[u], LiveSups')
    <3>1. typed'[u].at = "none" /\ (typed'[u].down => typed'[u].live = {})
      BY <1>6, <1>11, <2>4, CommandOver DEF InFlight, CommandMoves, CommandsKnow, Knows
    <3> QED
      BY <3>1 DEF Knows, Looking
  <2> QED
    BY <2>3, <2>4, <2>5 DEF CommandsKnow
<1> QED
  BY <1>2, <1>8, <1>9, <1>10, <1>11 DEF DaemonInv

LEMMA DaemonBegins == DaemonCommandsInit => DaemonInv
<1> SUFFICES ASSUME DaemonCommandsInit PROVE DaemonInv
  OBVIOUS
<1>1. /\ sups = [s \in Sups |-> NoSup] /\ typed = [t \in Terminals |-> NoCommand]
      /\ stateFile = 0 /\ stranger = 0 /\ struck = {}
  BY DEF DaemonCommandsInit
<1>2. IsSup(NoSup) /\ NoSup.at = "none" /\ NoSup.worker = "none"
  BY DEF IsSup, NoSup
<1>3. \A s \in Sups : sups[s].at = "none" /\ sups[s].worker = "none" /\ IsSup(sups[s])
  BY <1>1, <1>2
<1>4. \A t \in Terminals : typed[t].at = "none" /\ typed[t].down = FALSE /\ IsCommand(typed[t])
  BY <1>1, CommandOver
<1>5. LiveSups = {} /\ InFlight = {}
  BY <1>3, <1>4 DEF LiveSups, InFlight
<1>6. DaemonShapes /\ SupsMade
  BY <1>1, <1>3, <1>4, CommandBounds DEF DaemonShapes, SupsMade
<1> QED
  BY Zenon, <1>1, <1>3, <1>4, <1>5, <1>6 DEF DaemonInv, LooksAtDaemon, FileNamesOne, CommandsKnow, Knows, Looking

LEMMA DaemonStep == ASSUME DaemonInv, [DaemonCommandsNext]_commandVars PROVE DaemonInv'
<1>1. CASE UNCHANGED commandVars
  BY ZenonT(30), <1>1 DEF commandVars, DaemonInv, DaemonShapes, SupsMade, LooksAtDaemon, FileNamesOne, CommandsKnow,
     LiveSups, InFlight
<1> QED
  BY <1>1, LaunchStep, WriteStep, ListenStep, LeaveStep, CrashStep, SupDiesStep, ReuseStep, TypeStep,
     ReadStep, ReadAgainStep, ProbeStep, AskStep, SignalStep, ExitSeenStep, TimeoutStep, ClearStep, SpawnStep
  DEF DaemonCommandsNext

LEMMA DaemonKept == DaemonInv => DaemonCommandsHold
<1> SUFFICES ASSUME DaemonInv PROVE DaemonCommandsHold
  OBVIOUS
<1>1. ASSUME FileNamesOne PROVE Cardinality(LiveSups) <= 1
  <2>1. CASE LiveSups = {}
    <3>1. Cardinality({}) = 0
      BY FS_EmptySet
    <3> QED
      BY <2>1, <3>1
  <2>2. CASE LiveSups # {}
    <3>1. PICK s \in LiveSups : TRUE
      BY <2>2
    <3>2. LiveSups = {s}
      BY <1>1, <3>1 DEF FileNamesOne
    <3>3. Cardinality({s}) = 1
      BY FS_Singleton
    <3> QED
      BY <3>2, <3>3
  <2> QED
    BY <2>1, <2>2
<1>2. OneSupervisor
  BY <1>1 DEF DaemonInv, OneSupervisor, FileNamesOne
<1>3. StopTells
  BY DEF DaemonInv, StopTells, CommandsKnow, Knows
<1>4. StrangersSpared
  BY DEF DaemonInv, StrangersSpared, LooksAtDaemon
<1> QED
  BY <1>2, <1>3, <1>4 DEF DaemonCommandsHold

(* There is one supervisor, which its file names, stop says so when there is
   none, and a stranger is spared (DaemonCommandsHold), for any number of
   supervisors, terminals, commands and crashes. *)
THEOREM CommandsHoldTheDaemon == DaemonCommandsSpec => []DaemonCommandsHold
  BY DaemonBegins, DaemonStep, DaemonKept, PTL DEF DaemonCommandsSpec

-----------------------------------------------------------------------------
(* The processes of a node *)

IsProcess(p) == p = [alive |-> p.alive, aborted |-> p.aborted, timer |-> p.timer,
                     late |-> p.late, settled |-> p.settled]
IsUnit(u) == u = [status |-> u.status, process |-> u.process]
ProcessShapes ==
  /\ IsList(processes) /\ \A p \in 1 .. Current : IsProcess(processes[p])
  /\ IsList(units) /\ \A i \in 1 .. Len(units) : IsUnit(units[i])

(* A promise settles before its process closes by a timeout only, which aborts
   it; only the process that is waited for has a promise left to settle. *)
Settling ==
  \A p \in 1 .. Current :
    /\ processes[p].alive => processes[p].settled \in {"no", "timeout"}
    /\ processes[p].settled = "timeout" => processes[p].aborted
    /\ processes[p].settled = "no" => processes[p].alive /\ p = Current /\ at = "waiting"

(* Where the executor is, and what can be aborted there. *)
Executing ==
  /\ at \in {"idle", "next", "gap", "waiting", "done"}
  /\ at = "waiting" => Current >= 1 /\ aborts \subseteq {Current}
  /\ at = "waiting" /\ ~canceled => aborts = {Current}
  /\ at # "waiting" => aborts = {}
  /\ nodeEnds \in {"no", "completed", "failed"} /\ (nodeEnds # "no" => at = "done")
  /\ at \in {"gap", "waiting"} => Len(units) >= 1 /\ Status(Len(units)) = "running"

(* A cancellation that found a process waited for, where the retry policy does
   not try an interruption again, is what that process ends of. *)
Interruptible == "retry" \in {ClassifyRetry("canceled"), ClassifyRetry("timeout")}
CancelReaches ==
  /\ between => canceled
  /\ \A p \in 1 .. Current : /\ processes[p].late => canceled
                             /\ canceled /\ processes[p].alive =>
                                  processes[p].aborted \/ processes[p].late
  /\ canceled /\ ~between /\ ~Interruptible =>
       /\ \A p \in 1 .. Current : ~processes[p].late
       /\ \/ at = "done"
          \/ /\ at = "waiting" /\ processes[Current].settled \in {"no", "canceled", "timeout"}
             /\ processes[Current].settled = "no" => processes[Current].aborted

(* Every unit but the last is over, and the last is as far as the executor. *)
UnitRight(i) ==
  \/ Status(i) = "skipped" /\ units[i].process = 0
  \/ /\ Status(i) = "completed" /\ units[i].process \in 1 .. Current
     /\ processes[units[i].process].settled = "ok"
  \/ /\ i = Len(units) /\ Status(i) = "running" /\ units[i].process = 0
     /\ at = "gap" \/ nodeEnds = "failed"
  \/ /\ i = Len(units) /\ Status(i) = "running" /\ units[i].process = Current
     /\ at = "waiting"
  \/ /\ i = Len(units) /\ Status(i) = "failed" /\ units[i].process \in 1 .. Current
     /\ processes[units[i].process].settled # "ok" /\ nodeEnds = "failed"
UnitsRight == \A i \in 1 .. Len(units) : UnitRight(i)

(* A unit of a subflow that was not skipped comes after the ones it needs. *)
NeedsMet ==
  kind = "subflow" => \A i \in 1 .. Len(units) : Status(i) # "skipped" =>
    \A need \in childNeeds[Child(i)] :
      \E j \in 1 .. (i - 1) : Child(j) = need /\ Status(j) = "completed"

ProcessInv ==
  ProcessShapes /\ Settling /\ Executing /\ CancelReaches /\ UnitsRight /\ NeedsMet

-----------------------------------------------------------------------------
(* A list with another entry at one place. *)
Put(l, i, e) == [l EXCEPT ![i] = e]
LEMMA EntryPut ==
  ASSUME NEW l, IsList(l), NEW i \in 1 .. Len(l), NEW e
  PROVE  /\ IsList(Put(l, i, e)) /\ Len(Put(l, i, e)) = Len(l)
         /\ \A j \in 1 .. Len(l) : Put(l, i, e)[j] = IF j = i THEN e ELSE l[j]
<1>1. DOMAIN l = 1 .. Len(l) /\ Len(l) \in Nat
  BY DEF IsList
<1>2. PICK m : m = Put(l, i, e)
  OBVIOUS
<1>3. DOMAIN m = 1 .. Len(l) /\ m = [j \in 1 .. Len(l) |-> m[j]]
  BY Zenon, <1>1, <1>2 DEF Put
<1>4. Len(m) = Len(l)
  BY <1>1, <1>3
<1>5. \A j \in 1 .. Len(l) : m[j] = IF j = i THEN e ELSE l[j]
  BY <1>1, <1>2 DEF Put
<1> QED
  BY <1>1, <1>2, <1>3, <1>4, <1>5 DEF IsList

(* What is planned for a node stays. *)
LEMMA PlanStays ==
  ASSUME UNCHANGED plan
  PROVE  /\ \A i : Child(i)' = Child(i)
         /\ Interruptible' = Interruptible
         /\ kind' = kind /\ childNeeds' = childNeeds
<1>1. kind' = kind /\ childNeeds' = childNeeds /\ policy' = policy
  BY DEF plan
<1>2. \A i : Child(i)' = Child(i)
  BY <1>1 DEF Child
<1>3. \A m : ClassifyRetry(m)' = ClassifyRetry(m)
  BY <1>1 DEF ClassifyRetry
<1>4. Interruptible' = Interruptible
  BY <1>1, <1>3 DEF Interruptible, ClassifyRetry
<1> QED
  BY <1>1, <1>2, <1>4

(* What closing and a timeout make of a process. *)
Closed(x, f, t) == [x EXCEPT !.alive = f, !.timer = f, !.settled = t]
Overdue(x, a, f, t) == [x EXCEPT !.aborted = a, !.timer = f, !.settled = t]
LEMMA FieldChanged ==
  ASSUME NEW x, IsProcess(x)
  PROVE  /\ \A v : LET e == [x EXCEPT !.alive = v]
                   IN  IsProcess(e) /\ e.alive = v /\ e.aborted = x.aborted /\ e.late = x.late /\ e.settled = x.settled
         /\ \A v : LET e == [x EXCEPT !.timer = v]
                   IN  IsProcess(e) /\ e.timer = v /\ e.alive = x.alive /\ e.aborted = x.aborted /\ e.late = x.late /\ e.settled = x.settled
         /\ \A v : LET e == [x EXCEPT !.settled = v]
                   IN  IsProcess(e) /\ e.settled = v /\ e.alive = x.alive /\ e.aborted = x.aborted /\ e.late = x.late
         /\ \A v : LET e == [x EXCEPT !.aborted = v]
                   IN  IsProcess(e) /\ e.aborted = v /\ e.alive = x.alive /\ e.late = x.late /\ e.settled = x.settled
<1>1. ASSUME NEW v
      PROVE  LET e == [x EXCEPT !.alive = v]
             IN  IsProcess(e) /\ e.alive = v /\ e.aborted = x.aborted /\ e.late = x.late /\ e.settled = x.settled
  BY DEF IsProcess
<1>2. ASSUME NEW v
      PROVE  LET e == [x EXCEPT !.timer = v]
             IN  IsProcess(e) /\ e.timer = v /\ e.alive = x.alive /\ e.aborted = x.aborted /\ e.late = x.late /\ e.settled = x.settled
  BY DEF IsProcess
<1>3. ASSUME NEW v
      PROVE  LET e == [x EXCEPT !.settled = v]
             IN  IsProcess(e) /\ e.settled = v /\ e.alive = x.alive /\ e.aborted = x.aborted /\ e.late = x.late
  BY DEF IsProcess
<1>4. ASSUME NEW v
      PROVE  LET e == [x EXCEPT !.aborted = v]
             IN  IsProcess(e) /\ e.aborted = v /\ e.alive = x.alive /\ e.late = x.late /\ e.settled = x.settled
  BY DEF IsProcess
<1> QED
  BY <1>1, <1>2, <1>3, <1>4
LEMMA ProcessClosedIs ==
  ASSUME NEW x, IsProcess(x), NEW f, NEW t, NEW e, e = Closed(x, f, t)
  PROVE  IsProcess(e) /\ e.alive = f /\ e.settled = t /\ e.aborted = x.aborted /\ e.late = x.late
<1>1. PICK y : y = [x EXCEPT !.alive = f]
  BY Zenon
<1>2. PICK z : z = [y EXCEPT !.timer = f]
  BY Zenon
<1>3. PICK w : w = [z EXCEPT !.settled = t]
  BY Zenon
<1>4. e = w
  BY <1>1, <1>2, <1>3 DEF Closed
<1>5. IsProcess(y) /\ y.alive = f /\ y.aborted = x.aborted /\ y.late = x.late
  BY <1>1, FieldChanged
<1>6. IsProcess(z) /\ z.alive = f /\ z.aborted = x.aborted /\ z.late = x.late
  BY <1>2, <1>5, FieldChanged
<1>7. /\ IsProcess(w) /\ w.alive = f /\ w.settled = t /\ w.aborted = x.aborted
      /\ w.late = x.late
  BY <1>3, <1>6, FieldChanged
<1> QED
  BY <1>4, <1>7
LEMMA ProcessTimedOutIs ==
  ASSUME NEW x, IsProcess(x), NEW a, NEW f, NEW t, NEW e, e = Overdue(x, a, f, t)
  PROVE  IsProcess(e) /\ e.alive = x.alive /\ e.settled = t /\ e.aborted = a /\ e.late = x.late
<1>1. PICK y : y = [x EXCEPT !.aborted = a]
  BY Zenon
<1>2. PICK z : z = [y EXCEPT !.timer = f]
  BY Zenon
<1>3. PICK w : w = [z EXCEPT !.settled = t]
  BY Zenon
<1>4. e = w
  BY <1>1, <1>2, <1>3 DEF Overdue
<1>5. IsProcess(y) /\ y.alive = x.alive /\ y.aborted = a /\ y.late = x.late
  BY <1>1, FieldChanged
<1>6. IsProcess(z) /\ z.alive = x.alive /\ z.aborted = a /\ z.late = x.late
  BY <1>2, <1>5, FieldChanged
<1>7. /\ IsProcess(w) /\ w.alive = x.alive /\ w.settled = t /\ w.aborted = a
      /\ w.late = x.late
  BY <1>3, <1>6, FieldChanged
<1> QED
  BY <1>4, <1>7
LEMMA ProcessStarted ==
  \A a, b, t, l, s :
    LET e == [alive |-> a, aborted |-> b, timer |-> t, late |-> l, settled |-> s]
    IN  IsProcess(e) /\ e.alive = a /\ e.aborted = b /\ e.late = l /\ e.settled = s
  BY DEF IsProcess
LEMMA UnitsMadeOf ==
  /\ \A s, p : LET e == [status |-> s, process |-> p]
               IN  IsUnit(e) /\ e.status = s /\ e.process = p
  /\ \A u : IsUnit(u) =>
       /\ \A s : LET e == [u EXCEPT !.status = s]
                 IN  IsUnit(e) /\ e.status = s /\ e.process = u.process
       /\ \A p : LET e == [u EXCEPT !.process = p]
                 IN  IsUnit(e) /\ e.status = u.status /\ e.process = p
  BY DEF IsUnit

(* One process moves on. *)
LEMMA OneProcess ==
  ASSUME ProcessShapes, NEW p \in 1 .. Current, NEW e, IsProcess(e), processes' = Put(processes, p, e)
  PROVE  /\ IsList(processes') /\ Current' = Current
         /\ \A q \in 1 .. Current : IsProcess(processes'[q])
         /\ processes'[p] = e /\ \A q \in 1 .. Current : q # p => processes'[q] = processes[q]
  BY EntryPut DEF ProcessShapes, Current

(* The last unit moves on. *)
LEMMA LastUnit ==
  ASSUME ProcessShapes, Len(units) >= 1, NEW e, IsUnit(e), units' = Put(units, Len(units), e)
  PROVE  /\ IsList(units') /\ Len(units') = Len(units) /\ Len(units) \in Nat
         /\ \A i \in 1 .. Len(units) : IsUnit(units'[i])
         /\ units'[Len(units)] = e
         /\ \A i \in 1 .. Len(units) : i # Len(units) => units'[i] = units[i]
<1>1. IsList(units) /\ Len(units) \in Nat /\ Len(units) \in 1 .. Len(units)
  BY DEF ProcessShapes, IsList
<1> QED
  BY <1>1, EntryPut DEF ProcessShapes

-----------------------------------------------------------------------------
(* A step of processes alone: what settled stays settled. *)
LEMMA ProcessesMove ==
  ASSUME ProcessInv, UNCHANGED <<plan, at, units, nodeEnds>>,
         IsList(processes'), Current' = Current, \A q \in 1 .. Current : IsProcess(processes'[q]),
         \A q \in 1 .. Current : processes[q].settled # "no" =>
           processes'[q].settled = processes[q].settled
  PROVE  ProcessShapes' /\ UnitsRight' /\ NeedsMet'
<1>1. ProcessShapes'
  BY DEF ProcessInv, ProcessShapes
<1>2. UnitsRight'
  <2>1. ASSUME NEW i \in 1 .. Len(units) PROVE UnitRight(i)'
    <3>1. UnitRight(i)
      BY DEF ProcessInv, UnitsRight
    <3>2. /\ units[i].process \in 1 .. Current /\ processes[units[i].process].settled = "ok" =>
               processes'[units[i].process].settled = "ok"
          /\ units[i].process \in 1 .. Current /\ processes[units[i].process].settled # "ok"
               /\ nodeEnds = "failed" => processes'[units[i].process].settled # "ok"
      <4>1. nodeEnds = "failed" => at = "done"
        BY DEF ProcessInv, Executing
      <4>2. \A q \in 1 .. Current : processes[q].settled = "no" => at = "waiting"
        BY DEF ProcessInv, Settling
      <4> QED
        BY <4>1, <4>2
    <3> QED
      BY <3>1, <3>2 DEF UnitRight, Status
  <2> QED
    BY <2>1 DEF UnitsRight
<1>3. NeedsMet'
  BY PlanStays DEF ProcessInv, NeedsMet, Status
<1> QED
  BY <1>1, <1>2, <1>3

(* What an inner record is after a step of one process. *)
LEMMA ClosesStep ==
  ASSUME ProcessInv, NEW p, NEW ok, ProcessCloses(p, ok) PROVE ProcessInv'
<1>1. p \in 1 .. Current /\ processes[p].alive /\ IsProcess(processes[p]) /\ Current \in Nat
  BY DEF ProcessCloses, Living, ProcessInv, ProcessShapes, IsList, Current
<1> DEFINE t == Settlement(processes[p], ok)
<1>2. /\ processes[p].settled # "no" => t = processes[p].settled
      /\ processes[p].settled = "no" /\ processes[p].aborted => t = "canceled"
      /\ processes[p].settled = "no" => t \in {"canceled", "ok", "exit"}
  BY DEF Settlement
<1> HIDE DEF t
<1>3. PICK f : f = FALSE
  BY Zenon
<1>4. PICK e : e = Closed(processes[p], f, t)
  OBVIOUS
<1>5. processes' = Put(processes, p, e)
  BY Zenon, <1>3, <1>4 DEF ProcessCloses, Put, t, Closed
<1>6. IsProcess(e) /\ e.alive = f /\ e.settled = t /\ e.aborted = processes[p].aborted
      /\ e.late = processes[p].late
  BY <1>1, <1>4, ProcessClosedIs
<1>7. /\ IsList(processes') /\ Current' = Current /\ \A q \in 1 .. Current : IsProcess(processes'[q])
      /\ processes'[p] = e /\ \A q \in 1 .. Current : q # p => processes'[q] = processes[q]
  BY <1>1, <1>5, <1>6, OneProcess DEF ProcessInv
<1>8. UNCHANGED <<plan, at, units, attempt, aborts, canceled, between, nodeEnds>>
  BY DEF ProcessCloses
<1>9. ProcessShapes' /\ UnitsRight' /\ NeedsMet'
  BY <1>1, <1>2, <1>6, <1>7, <1>8, ProcessesMove
<1>10. Settling'
  BY <1>1, <1>2, <1>3, <1>6, <1>7, <1>8 DEF ProcessInv, Settling
<1>11. Executing'
  BY <1>7, <1>8 DEF ProcessInv, Executing, Status
<1>12. CancelReaches'
  BY <1>1, <1>2, <1>3, <1>6, <1>7, <1>8, PlanStays DEF ProcessInv, CancelReaches, Executing
<1> QED
  BY <1>9, <1>10, <1>11, <1>12 DEF ProcessInv

LEMMA TimesOutStep ==
  ASSUME ProcessInv, NEW p, ProcessTimesOut(p) PROVE ProcessInv'
<1>1. p \in 1 .. Current /\ processes[p].alive /\ IsProcess(processes[p]) /\ Current \in Nat
  BY DEF ProcessTimesOut, Living, ProcessInv, ProcessShapes, IsList, Current
<1> DEFINE t == IF processes[p].settled = "no" THEN "timeout" ELSE processes[p].settled
<1>2. t = "timeout"
  BY <1>1 DEF ProcessInv, Settling
<1> HIDE DEF t
<1>3. PICK f, a : f = FALSE /\ a = TRUE
  BY Zenon
<1>4. PICK e : e = Overdue(processes[p], a, f, t)
  OBVIOUS
<1>5. processes' = Put(processes, p, e)
  <2>1. processes' = Put(processes, p, TimedOut(processes[p]))
    BY DEF ProcessTimesOut, Put
  <2>2. TimedOut(processes[p]) = e
    BY Zenon, <1>3, <1>4 DEF TimedOut, Overdue, t
  <2> QED
    BY <2>1, <2>2
<1>6. IsProcess(e) /\ e.alive = processes[p].alive /\ e.settled = t /\ e.aborted = a
      /\ e.late = processes[p].late
  <2>1. IsProcess(processes[p])
    BY <1>1
  <2> QED
    BY <2>1, <1>4, ProcessTimedOutIs
<1>7. /\ IsList(processes') /\ Current' = Current /\ \A q \in 1 .. Current : IsProcess(processes'[q])
      /\ processes'[p] = e /\ \A q \in 1 .. Current : q # p => processes'[q] = processes[q]
  BY <1>1, <1>5, <1>6, OneProcess DEF ProcessInv
<1>8. UNCHANGED <<plan, at, units, attempt, aborts, canceled, between, nodeEnds>>
  BY DEF ProcessTimesOut
<1>9. ProcessShapes' /\ UnitsRight' /\ NeedsMet'
  <2>1. \A q \in 1 .. Current : processes[q].settled # "no" =>
           processes'[q].settled = processes[q].settled
    BY <1>1, <1>2, <1>6, <1>7 DEF ProcessInv, Settling
  <2> QED
    BY <2>1, <1>7, <1>8, ProcessesMove
<1>10. Settling'
  BY Zenon, <1>1, <1>2, <1>3, <1>6, <1>7, <1>8 DEF ProcessInv, Settling
<1>11. Executing'
  BY <1>7, <1>8 DEF ProcessInv, Executing, Status
<1>12. CancelReaches'
  <2>1. \A q \in 1 .. Current :
          /\ processes'[q].late = processes[q].late
          /\ processes'[q].alive => processes[q].alive
          /\ processes[q].aborted => processes'[q].aborted
          /\ processes'[q].settled = processes[q].settled \/ processes'[q].settled = "timeout"
    BY Zenon, <1>1, <1>2, <1>3, <1>6, <1>7
  <2>2. at = "waiting" => Current \in 1 .. Current
    BY <1>1 DEF ProcessInv, Executing
  <2> QED
    BY <2>1, <2>2, <1>7, <1>8, PlanStays DEF ProcessInv, CancelReaches
<1> QED
  BY <1>9, <1>10, <1>11, <1>12 DEF ProcessInv

LEMMA CancelStep == ASSUME ProcessInv, CancelProcesses PROVE ProcessInv'
<1>1. IsList(processes) /\ Current \in Nat /\ DOMAIN processes = 1 .. Current
  BY DEF ProcessInv, ProcessShapes, IsList, Current
<1> DEFINE next(p) == IF p \in aborts /\ processes[p].alive THEN Aborted(processes[p])
                                                         ELSE processes[p]
<1>2. processes' = [p \in 1 .. Current |-> next(p)]
  BY <1>1 DEF CancelProcesses
<1> HIDE DEF next
<1>3. DOMAIN processes' = 1 .. Current /\ \A p \in 1 .. Current : processes'[p] = next(p)
  BY <1>2
<1>4. Current' = Current
  BY <1>1, <1>3 DEF Current
<1>5. IsList(processes')
  <2>1. processes' = [p \in 1 .. Current |-> processes'[p]]
    BY <1>2, <1>3
  <2> QED
    BY <2>1, <1>4, <1>1 DEF IsList, Current
<1>6. ASSUME NEW p \in 1 .. Current
      PROVE  /\ IsProcess(processes'[p]) /\ processes'[p].settled = processes[p].settled
             /\ processes'[p].alive = processes[p].alive /\ processes'[p].late = processes[p].late
             /\ processes[p].aborted => processes'[p].aborted
             /\ p \in aborts /\ processes[p].alive => processes'[p].aborted
  <2>1. IsProcess(processes[p])
    BY DEF ProcessInv, ProcessShapes
  <2>2. PICK a : a = TRUE
    OBVIOUS
  <2>3. PICK e : e = [processes[p] EXCEPT !.aborted = a]
    BY Zenon
  <2>4. /\ IsProcess(e) /\ e.settled = processes[p].settled /\ e.alive = processes[p].alive
        /\ e.late = processes[p].late /\ e.aborted = a
    BY <2>1, <2>3, FieldChanged
  <2>5. Aborted(processes[p]) = e
    BY <2>2, <2>3 DEF Aborted
  <2> QED
    BY Zenon, <2>1, <2>2, <2>4, <2>5, <1>3 DEF next
<1>7. /\ ~canceled /\ at \notin {"idle", "done"} /\ canceled' = TRUE /\ aborts' = {}
      /\ between' = (at # "waiting" \/ processes[Current].settled # "no")
      /\ UNCHANGED <<plan, at, units, attempt, nodeEnds>>
  BY DEF CancelProcesses
<1>8. ProcessShapes' /\ UnitsRight' /\ NeedsMet'
  BY <1>4, <1>5, <1>6, <1>7, ProcessesMove
<1>9. Settling'
  BY <1>4, <1>6, <1>7 DEF ProcessInv, Settling
<1>10. Executing'
  BY <1>4, <1>7 DEF ProcessInv, Executing, Status
<1>11. CancelReaches'
  <2>1. ASSUME NEW p \in 1 .. Current, processes[p].alive PROVE processes'[p].aborted
    <3>1. CASE processes[p].settled = "no"
      BY <1>6, <1>7, <2>1, <3>1 DEF ProcessInv, Settling, Executing
    <3>2. CASE processes[p].settled = "timeout"
      BY <1>6, <2>1, <3>2 DEF ProcessInv, Settling
    <3> QED
      BY <2>1, <3>1, <3>2 DEF ProcessInv, Settling
  <2>2. \A p \in 1 .. Current : ~processes'[p].late
    BY <1>6, <1>7 DEF ProcessInv, CancelReaches
  <2>3. ~between' => /\ at = "waiting" /\ processes'[Current].settled = "no"
                     /\ processes'[Current].aborted
    <3>1. SUFFICES ASSUME ~between' PROVE /\ at = "waiting" /\ processes'[Current].settled = "no"
                                          /\ processes'[Current].aborted
      OBVIOUS
    <3>2. at = "waiting" /\ processes[Current].settled = "no"
      BY Zenon, <3>1, <1>7
    <3>3. Current \in 1 .. Current
      BY <3>2, <1>1 DEF ProcessInv, Executing
    <3> QED
      BY <3>2, <3>3, <2>1, <1>6 DEF ProcessInv, Settling
  <2>4. \A p \in 1 .. Current : processes'[p].alive => processes[p].alive
    BY <1>6
  <2>5. at = at' /\ canceled' = TRUE
    BY <1>7
  <2> QED
    BY <2>1, <2>2, <2>3, <2>4, <2>5, <1>4 DEF CancelReaches
<1> QED
  BY <1>8, <1>9, <1>10, <1>11 DEF ProcessInv

-----------------------------------------------------------------------------
(* Between processes every promise is settled, and a unit is over or the last. *)
LEMMA BetweenProcesses ==
  ASSUME ProcessInv, at # "waiting"
  PROVE  /\ \A p \in 1 .. Current : processes[p].settled # "no"
         /\ canceled /\ ~between /\ ~Interruptible => at = "done"
         /\ at \notin {"gap", "done"} => \A i \in 1 .. Len(units) :
              \/ Status(i) = "skipped" /\ units[i].process = 0
              \/ /\ Status(i) = "completed" /\ units[i].process \in 1 .. Current
                 /\ processes[units[i].process].settled = "ok"
<1>1. \A p \in 1 .. Current : processes[p].settled # "no"
  BY DEF ProcessInv, Settling
<1>2. canceled /\ ~between /\ ~Interruptible => at = "done"
  BY DEF ProcessInv, CancelReaches
<1>3. nodeEnds = "failed" => at = "done"
  BY DEF ProcessInv, Executing
<1>4. ASSUME at \notin {"gap", "done"}, NEW i \in 1 .. Len(units)
      PROVE  \/ Status(i) = "skipped" /\ units[i].process = 0
             \/ /\ Status(i) = "completed" /\ units[i].process \in 1 .. Current
                /\ processes[units[i].process].settled = "ok"
  <2>1. UnitRight(i)
    BY <1>4 DEF ProcessInv, UnitsRight
  <2> QED
    BY <1>3, <1>4, <2>1 DEF UnitRight
<1> QED
  BY <1>1, <1>2, <1>4

LEMMA ExecutesStep == ASSUME ProcessInv, NodeExecutes PROVE ProcessInv'
<1>1. /\ at = "idle" /\ at' = "next" /\ ~canceled
      /\ UNCHANGED <<plan, units, processes, aborts, canceled, between, nodeEnds>>
  BY DEF NodeExecutes
<1>2. ProcessShapes' /\ Settling' /\ Executing' /\ CancelReaches'
  BY <1>1, PlanStays DEF ProcessInv, ProcessShapes, Settling, Executing, CancelReaches, Current
<1>3. UnitsRight'
  BY <1>1, BetweenProcesses DEF UnitsRight, UnitRight, Status, Current
<1>4. NeedsMet'
  BY <1>1, PlanStays DEF ProcessInv, NeedsMet, Status
<1> QED
  BY <1>2, <1>3, <1>4 DEF ProcessInv

LEMMA CompletesStep == ASSUME ProcessInv, NodeCompletes PROVE ProcessInv'
<1>1. /\ at = "next" /\ at' = "done" /\ nodeEnds' = "completed"
      /\ UNCHANGED <<plan, units, processes, aborts, canceled, between>>
  BY DEF NodeCompletes
<1>2. ProcessShapes' /\ Settling' /\ Executing' /\ CancelReaches'
  BY <1>1, PlanStays DEF ProcessInv, ProcessShapes, Settling, Executing, CancelReaches, Current
<1>3. UnitsRight'
  BY <1>1, BetweenProcesses DEF UnitsRight, UnitRight, Status, Current
<1>4. NeedsMet'
  BY <1>1, PlanStays DEF ProcessInv, NeedsMet, Status
<1> QED
  BY <1>2, <1>3, <1>4 DEF ProcessInv

(* A unit is begun or skipped, and the ones before it are as they were. *)
LEMMA BeginsStep == ASSUME ProcessInv, UnitBegins PROVE ProcessInv'
<1>1. /\ at = "next" /\ UNCHANGED <<plan, processes, aborts, canceled, between, nodeEnds>>
  BY DEF UnitBegins
<1>2. PICK s : /\ units' = Append(units, [status |-> s, process |-> 0])
               /\ \/ s = "running" /\ ~MustSkip /\ at' = "gap"
                  \/ s = "skipped" /\ at' = "next"
  BY Zenon, <1>1 DEF UnitBegins
<1>3. PICK e : e = [status |-> s, process |-> 0]
  BY Zenon
<1>4. IsUnit(e) /\ e.status = s /\ e.process = 0
  BY <1>3, UnitsMadeOf
<1>5. IsList(units) /\ Len(units) \in Nat /\ \A i \in 1 .. Len(units) : IsUnit(units[i])
  BY DEF ProcessInv, ProcessShapes, IsList
<1>6. units' = Append(units, e)
  BY <1>2, <1>3
<1>7. /\ IsList(units') /\ Len(units') = Len(units) + 1 /\ units'[Len(units) + 1] = e
      /\ \A i \in 1 .. Len(units) : units'[i] = units[i]
  <2>1. \A i \in 1 .. Len(units) + 1 : units'[i] = IF i = Len(units) + 1 THEN e ELSE units[i]
    BY <1>5, <1>6, Longer
  <2>2. IsList(units') /\ Len(units') = Len(units) + 1
    BY <1>5, <1>6, Longer
  <2> QED
    BY <1>5, <2>1, <2>2
<1>8. \A i \in 1 .. Len(units') : i \in 1 .. Len(units) \/ i = Len(units) + 1
  BY <1>5, <1>7
<1>9. ProcessShapes'
  BY <1>1, <1>4, <1>5, <1>7, <1>8 DEF ProcessInv, ProcessShapes, Current
<1>10. Settling' /\ CancelReaches'
  <2>1. at' # "waiting" /\ at' # "done"
    BY <1>2
  <2> QED
    BY <1>1, <2>1, PlanStays DEF ProcessInv, Settling, CancelReaches, Current
<1>11. Executing'
  BY <1>1, <1>2, <1>4, <1>5, <1>7 DEF ProcessInv, Executing, Status
<1>12. UnitsRight'
  <2>1. ASSUME NEW i \in 1 .. Len(units') PROVE UnitRight(i)'
    <3>1. CASE i \in 1 .. Len(units)
      BY <1>1, <1>7, <3>1, BetweenProcesses DEF UnitRight, Status, Current
    <3>2. CASE i = Len(units) + 1
      BY <1>2, <1>4, <1>7, <3>2 DEF UnitRight, Status
    <3> QED
      BY <1>8, <3>1, <3>2
  <2> QED
    BY <2>1 DEF UnitsRight
<1>13. NeedsMet'
  <2>1. SUFFICES ASSUME kind = "subflow", NEW i \in 1 .. Len(units'), Status(i)' # "skipped",
                        NEW need \in childNeeds[Child(i)]
                 PROVE  \E j \in 1 .. (i - 1) : Child(j) = need /\ Status(j)' = "completed"
    BY <1>1, PlanStays DEF NeedsMet
  <2>2. \E j \in 1 .. (i - 1) : j \in 1 .. Len(units) /\ Child(j) = need /\ Status(j) = "completed"
    <3>1. CASE i \in 1 .. Len(units)
      <4>1. Status(i) # "skipped"
        BY <1>7, <2>1, <3>1 DEF Status
      <4>2. \E j \in 1 .. (i - 1) : Child(j) = need /\ Status(j) = "completed"
        BY <2>1, <3>1, <4>1 DEF ProcessInv, NeedsMet
      <4> QED
        BY <4>2, <3>1, <1>5
    <3>2. CASE i = Len(units) + 1
      <4>1. ~MustSkip
        BY <1>2, <1>4, <1>7, <2>1, <3>2 DEF Status
      <4>2. \E j \in DOMAIN units : Child(j) = need /\ Status(j) = "completed"
        BY <2>1, <3>2, <4>1 DEF MustSkip
      <4>3. DOMAIN units = 1 .. Len(units) /\ i - 1 = Len(units)
        BY <1>5, <3>2 DEF IsList
      <4> QED
        BY <4>2, <4>3
    <3> QED
      BY <1>8, <3>1, <3>2
  <2> QED
    BY <2>2, <1>7 DEF Status
<1> QED
  BY <1>9, <1>10, <1>11, <1>12, <1>13 DEF ProcessInv

-----------------------------------------------------------------------------
(* The last unit may be marked as failed when its executor throws: the rest is
   as it was. *)
SameButLast(us) ==
  /\ IsList(us) /\ Len(us) = Len(units) /\ \A i \in 1 .. Len(units) : IsUnit(us[i])
  /\ \A i \in 1 .. Len(units) :
       \/ us[i] = units[i]
       \/ /\ i = Len(units) /\ Status(i) = "running" /\ us[i].status = "failed"
          /\ us[i].process = Current /\ Current >= 1 /\ processes[Current].settled # "ok"

LEMMA ThrowsStep ==
  ASSUME ProcessInv, at \in {"next", "gap", "waiting"}, NEW m, NEW us, NodeThrows(m, us),
         UNCHANGED <<plan, processes, canceled, between>>, aborts' = {}, SameButLast(us),
         \A p \in 1 .. Current : processes[p].settled # "no",
         at = "waiting" => us # units /\ Len(units) >= 1 /\ us[Len(units)].status = "failed",
         canceled /\ ~between /\ ~Interruptible =>
           at = "waiting" /\ m \in {"canceled", "timeout"}
  PROVE  ProcessInv'
<1>1. CASE ClassifyRetry(m) = "retry" /\ at' = "next" /\ units' = <<>> /\ nodeEnds' = nodeEnds
  <2>1. IsList(units') /\ Len(units') = 0
    BY <1>1 DEF IsList
  <2>2. nodeEnds = "no"
    BY DEF ProcessInv, Executing
  <2>3. ~(canceled /\ ~between /\ ~Interruptible)
    BY <1>1 DEF Interruptible
  <2>4. ProcessShapes' /\ Settling' /\ Executing'
    BY <1>1, <2>1, <2>2 DEF ProcessInv, ProcessShapes, Settling, Executing, Current
  <2>5. CancelReaches'
    BY <2>3, PlanStays DEF ProcessInv, CancelReaches, Current
  <2>6. UnitsRight' /\ NeedsMet'
    BY <2>1 DEF UnitsRight, NeedsMet
  <2> QED
    BY <2>4, <2>5, <2>6 DEF ProcessInv
<1>2. CASE at' = "done" /\ nodeEnds' = "failed" /\ units' = us
  <2>1. ProcessShapes' /\ Settling' /\ Executing'
    BY <1>2 DEF ProcessInv, ProcessShapes, Settling, Executing, Current, SameButLast
  <2>2. CancelReaches'
    <3>1. canceled /\ ~between /\ ~Interruptible => \A p \in 1 .. Current : ~processes[p].late
      BY DEF ProcessInv, CancelReaches
    <3> QED
      BY <1>2, <3>1, PlanStays DEF ProcessInv, CancelReaches, Current
  <2>3. ASSUME NEW i \in 1 .. Len(units) PROVE UnitRight(i)'
    <3>1. UnitRight(i)
      BY DEF ProcessInv, UnitsRight
    <3>2. CASE us[i] # units[i]
      BY <1>2, <3>2 DEF SameButLast, UnitRight, Status, Current, ProcessInv, ProcessShapes, IsList
    <3>3. CASE us[i] = units[i] /\ ~(Status(i) = "running" /\ at = "waiting")
      <4>1. nodeEnds # "failed"
        BY DEF ProcessInv, Executing
      <4> QED
        BY <1>2, <3>1, <3>3, <4>1 DEF SameButLast, UnitRight, Status, Current
    <3>4. CASE us[i] = units[i] /\ Status(i) = "running" /\ at = "waiting"
      <4>1. i = Len(units)
        BY <3>1, <3>4 DEF UnitRight
      <4> QED
        BY <3>4, <4>1 DEF Status
    <3> QED
      BY <3>2, <3>3, <3>4
  <2>4. UnitsRight'
    BY <1>2, <2>3 DEF UnitsRight, SameButLast
  <2>5. NeedsMet'
    <3>1. Len(units') = Len(units) /\ Len(units) \in Nat
      BY <1>2 DEF SameButLast, ProcessInv, ProcessShapes, IsList
    <3>2. \A i \in 1 .. Len(units) : Status(i) # "skipped" \/ Status(i)' = "skipped"
      BY <1>2 DEF SameButLast, Status
    <3>3. \A i \in 1 .. Len(units) : Status(i) = "completed" => Status(i)' = "completed"
      BY <1>2 DEF SameButLast, Status
    <3>4. SUFFICES ASSUME kind = "subflow", NEW i \in 1 .. Len(units), Status(i)' # "skipped",
                          NEW need \in childNeeds[Child(i)]
                   PROVE  \E j \in 1 .. (i - 1) : Child(j) = need /\ Status(j)' = "completed"
      BY <3>1, PlanStays DEF NeedsMet
    <3>5. \E j \in 1 .. (i - 1) : Child(j) = need /\ Status(j) = "completed"
      BY <3>2, <3>4 DEF ProcessInv, NeedsMet
    <3>6. \A j \in 1 .. (i - 1) : j \in 1 .. Len(units)
      BY <3>1
    <3> QED
      BY <3>3, <3>5, <3>6
  <2> QED
    BY <2>1, <2>2, <2>4, <2>5 DEF ProcessInv
<1> QED
  BY <1>1, <1>2 DEF NodeThrows

LEMMA RefusedStep == ASSUME ProcessInv, UnitRefused PROVE ProcessInv'
<1>1. /\ at \in {"next", "gap"} /\ NodeThrows("denied", units)
      /\ UNCHANGED <<plan, processes, aborts, canceled, between>>
  BY DEF UnitRefused
<1>2. aborts' = {}
  BY <1>1 DEF ProcessInv, Executing
<1>3. SameButLast(units)
  BY DEF ProcessInv, ProcessShapes, SameButLast
<1> QED
  BY <1>1, <1>2, <1>3, BetweenProcesses, ThrowsStep

LEMMA ProcessStartsStep == ASSUME ProcessInv, ProcessStarts PROVE ProcessInv'
<1>1. /\ at = "gap" /\ at' = "waiting" /\ aborts' = aborts \cup {Current + 1}
      /\ UNCHANGED <<plan, canceled, between, nodeEnds>>
      /\ units' = [units EXCEPT ![Len(units)].process = Current + 1]
  BY DEF ProcessStarts
<1>2. PICK alive \in BOOLEAN :
        processes' = Append(processes, [alive |-> alive, aborted |-> FALSE, timer |-> TRUE,
                                        late |-> canceled,
                                        settled |-> IF alive THEN "no" ELSE "spawn"])
  BY Zenon DEF ProcessStarts
<1>3. PICK a, t, s : a = FALSE /\ t = TRUE /\ s = IF alive THEN "no" ELSE "spawn"
  BY Zenon
<1>4. PICK e : e = [alive |-> alive, aborted |-> a, timer |-> t, late |-> canceled, settled |-> s]
  BY Zenon
<1>5. IsProcess(e) /\ e.alive = alive /\ e.late = canceled /\ e.settled = s
  BY <1>4, ProcessStarted
<1>6. processes' = Append(processes, e)
  BY Zenon, <1>2, <1>3, <1>4
<1>7. IsList(processes) /\ Current \in Nat /\ \A p \in 1 .. Current : IsProcess(processes[p])
  BY DEF ProcessInv, ProcessShapes, IsList, Current
<1>8. /\ IsList(processes') /\ Current' = Current + 1 /\ processes'[Current + 1] = e
      /\ \A p \in 1 .. Current : processes'[p] = processes[p]
  <2>1. \A p \in 1 .. Current + 1 : processes'[p] = IF p = Current + 1 THEN e ELSE processes[p]
    BY <1>6, <1>7, Longer DEF Current
  <2>2. IsList(processes') /\ Current' = Current + 1
    BY <1>6, <1>7, Longer DEF Current
  <2> QED
    BY <1>7, <2>1, <2>2
<1>9. \A p \in 1 .. Current' : p \in 1 .. Current \/ p = Current + 1
  BY <1>7, <1>8
<1>10. Len(units) \in 1 .. Len(units) /\ Status(Len(units)) = "running"
       /\ \A i \in 1 .. Len(units) : IsUnit(units[i])
  BY <1>1 DEF ProcessInv, Executing, ProcessShapes, IsList
<1>11. PICK u : u = [units[Len(units)] EXCEPT !.process = Current + 1]
  BY Zenon
<1>12. IsUnit(u) /\ u.status = "running" /\ u.process = Current + 1
  BY <1>10, <1>11, UnitsMadeOf DEF Status
<1>13. units' = Put(units, Len(units), u)
  BY <1>1, <1>11 DEF Put
<1>14. /\ IsList(units') /\ Len(units') = Len(units) /\ Len(units) \in Nat
       /\ \A i \in 1 .. Len(units) : IsUnit(units'[i])
       /\ units'[Len(units)] = u
       /\ \A i \in 1 .. Len(units) : i # Len(units) => units'[i] = units[i]
  BY <1>10, <1>12, <1>13, LastUnit DEF ProcessInv
<1>15. ProcessShapes'
  BY <1>5, <1>7, <1>8, <1>9, <1>14 DEF ProcessShapes
<1>16. Settling'
  <2>1. s = "no" => alive
    BY <1>3
  <2>2. alive => s = "no"
    BY <1>3
  <2>3. \A p \in 1 .. Current : processes[p].settled # "no"
    BY <1>1, BetweenProcesses
  <2>4. s # "timeout"
    BY <1>3
  <2> QED
    BY <1>1, <1>5, <1>7, <1>8, <1>9, <2>1, <2>2, <2>3, <2>4 DEF ProcessInv, Settling
<1>17. Executing'
  BY <1>1, <1>7, <1>8, <1>10, <1>12, <1>14 DEF ProcessInv, Executing, Status
<1>18. CancelReaches'
  <2>1. ~(canceled /\ ~between /\ ~Interruptible)
    BY <1>1, BetweenProcesses
  <2> QED
    BY <1>1, <1>5, <1>7, <1>8, <1>9, <2>1, PlanStays DEF ProcessInv, CancelReaches
<1>19. UnitsRight'
  <2>1. ASSUME NEW i \in 1 .. Len(units) PROVE UnitRight(i)'
    <3>1. CASE i = Len(units)
      BY Zenon, <1>1, <1>8, <1>12, <1>14, <3>1 DEF UnitRight, Status
    <3>2. CASE i # Len(units)
      <4>1. UnitRight(i)
        BY DEF ProcessInv, UnitsRight
      <4>2. \A p \in 1 .. Current : p \in 1 .. Current' /\ processes'[p] = processes[p]
        BY <1>7, <1>8
      <4> QED
        BY <1>14, <3>2, <4>1, <4>2 DEF UnitRight, Status
    <3> QED
      BY <3>1, <3>2
  <2> QED
    BY <2>1, <1>14 DEF UnitsRight
<1>20. NeedsMet'
  <2>1. \A i \in 1 .. Len(units) : Status(i)' = Status(i)
    BY <1>10, <1>12, <1>14 DEF Status
  <2>2. \A i \in 1 .. Len(units) : \A j \in 1 .. (i - 1) : j \in 1 .. Len(units)
    BY <1>14
  <2> QED
    BY <1>1, <1>14, <2>1, <2>2, PlanStays DEF ProcessInv, NeedsMet
<1> QED
  BY <1>15, <1>16, <1>17, <1>18, <1>19, <1>20 DEF ProcessInv

(* The unit whose promise settled is the last, and its process the one that
   was waited for. *)
LastIsNow(s) == [units EXCEPT ![Len(units)].status = s]
LEMMA LastUnitEnds ==
  ASSUME ProcessInv, at = "waiting", processes[Current].settled # "no", NEW s, NEW us,
         us = LastIsNow(s)
  PROVE  /\ IsList(us) /\ Len(us) = Len(units) /\ Len(units) \in 1 .. Len(units)
         /\ \A i \in 1 .. Len(units) : IsUnit(us[i])
         /\ us[Len(units)].status = s /\ us[Len(units)].process = Current
         /\ Status(Len(units)) = "running" /\ Current \in 1 .. Current
         /\ \A i \in 1 .. Len(units) : i # Len(units) => us[i] = units[i]
         /\ \A p \in 1 .. Current : processes[p].settled # "no"
<1>1. Len(units) \in 1 .. Len(units) /\ Status(Len(units)) = "running" /\ Current \in 1 .. Current
      /\ IsList(units) /\ \A i \in 1 .. Len(units) : IsUnit(units[i])
  BY DEF ProcessInv, Executing, ProcessShapes, IsList, Current
<1>2. units[Len(units)].process = Current
  <2>1. UnitRight(Len(units))
    BY <1>1 DEF ProcessInv, UnitsRight
  <2>2. nodeEnds # "failed"
    BY DEF ProcessInv, Executing
  <2> QED
    BY <1>1, <2>1, <2>2 DEF UnitRight
<1>3. PICK e : e = [units[Len(units)] EXCEPT !.status = s]
  BY Zenon
<1>4. IsUnit(e) /\ e.status = s /\ e.process = Current
  BY Zenon, <1>1, <1>2, <1>3, UnitsMadeOf
<1>5. us = Put(units, Len(units), e)
  BY <1>3 DEF Put, LastIsNow
<1>6. /\ IsList(us) /\ Len(us) = Len(units)
      /\ \A i \in 1 .. Len(units) : us[i] = IF i = Len(units) THEN e ELSE units[i]
  BY <1>1, <1>5, EntryPut
<1>7. \A p \in 1 .. Current : processes[p].settled # "no"
  BY DEF ProcessInv, Settling
<1> QED
  BY <1>1, <1>4, <1>6, <1>7

LEMMA UnitEndsStep == ASSUME ProcessInv, UnitEnds PROVE ProcessInv'
<1> DEFINE settled == processes[Current].settled
<1>1. /\ at = "waiting" /\ settled # "no" /\ aborts' = aborts \ {Current}
      /\ UNCHANGED <<plan, processes, canceled, between>>
  BY DEF UnitEnds
<1>2. aborts' = {}
  BY <1>1 DEF ProcessInv, Executing
<1>3. canceled /\ ~between /\ ~Interruptible => settled \in {"canceled", "timeout"}
  BY <1>1 DEF ProcessInv, CancelReaches
<1>4. CASE settled = "ok"
  <2>1. at' = "next" /\ nodeEnds' = nodeEnds
        /\ units' = [units EXCEPT ![Len(units)].status = "completed"]
    BY <1>4 DEF UnitEnds
  <2>2. PICK us : us = LastIsNow("completed")
    OBVIOUS
  <2>3. /\ IsList(us) /\ Len(us) = Len(units) /\ Len(units) \in 1 .. Len(units)
        /\ \A i \in 1 .. Len(units) : IsUnit(us[i])
        /\ us[Len(units)].status = "completed" /\ us[Len(units)].process = Current
        /\ Status(Len(units)) = "running" /\ Current \in 1 .. Current
        /\ \A i \in 1 .. Len(units) : i # Len(units) => us[i] = units[i]
        /\ \A p \in 1 .. Current : processes[p].settled # "no"
    BY <1>1, <2>2, LastUnitEnds
  <2>4. units' = us
    BY <2>1, <2>2 DEF LastIsNow
  <2>5. nodeEnds = "no"
    BY <1>1 DEF ProcessInv, Executing
  <2>6. ProcessShapes' /\ Settling' /\ Executing'
    BY Zenon, <1>1, <1>2, <2>1, <2>3, <2>4, <2>5
      DEF ProcessInv, ProcessShapes, Settling, Executing, Current
  <2>7. CancelReaches'
    BY <1>1, <1>3, <1>4, PlanStays DEF ProcessInv, CancelReaches, Current
  <2>8. ASSUME NEW i \in 1 .. Len(units) PROVE UnitRight(i)'
    <3>1. CASE i = Len(units)
      BY <1>1, <1>4, <2>3, <2>4, <3>1 DEF UnitRight, Status, Current
    <3>2. CASE i # Len(units)
      <4>1. UnitRight(i)
        BY DEF ProcessInv, UnitsRight
      <4> QED
        BY <1>1, <2>3, <2>4, <2>5, <3>2, <4>1 DEF UnitRight, Status, Current
    <3> QED
      BY <3>1, <3>2
  <2>9. UnitsRight'
    BY <2>3, <2>4, <2>8 DEF UnitsRight
  <2>10. NeedsMet'
    <3>1. \A i \in 1 .. Len(units) : Status(i)' = Status(i) \/ i = Len(units)
      BY <2>3, <2>4 DEF Status
    <3>2. \A i \in 1 .. Len(units) : Status(i) = "completed" => Status(i)' = "completed"
      BY <2>3, <2>4, <3>1 DEF Status
    <3>3. \A i \in 1 .. Len(units) : Status(i)' # "skipped" => Status(i) # "skipped"
      BY <2>3, <3>1
    <3>4. \A i \in 1 .. Len(units) : \A j \in 1 .. (i - 1) : j \in 1 .. Len(units)
      BY <2>3
    <3> QED
      BY <1>1, <2>3, <2>4, <3>2, <3>3, <3>4, PlanStays DEF ProcessInv, NeedsMet
  <2> QED
    BY <2>6, <2>7, <2>9, <2>10 DEF ProcessInv
<1>5. CASE settled # "ok"
  <2>1. PICK us : us = LastIsNow("failed")
    OBVIOUS
  <2>2. NodeThrows(settled, us)
    BY <1>5, <2>1 DEF UnitEnds, LastIsNow
  <2>3. /\ IsList(us) /\ Len(us) = Len(units) /\ Len(units) \in 1 .. Len(units)
        /\ \A i \in 1 .. Len(units) : IsUnit(us[i])
        /\ us[Len(units)].status = "failed" /\ us[Len(units)].process = Current
        /\ Status(Len(units)) = "running" /\ Current \in 1 .. Current
        /\ \A i \in 1 .. Len(units) : i # Len(units) => us[i] = units[i]
        /\ \A p \in 1 .. Current : processes[p].settled # "no"
    BY <1>1, <2>1, LastUnitEnds
  <2>4. SameButLast(us)
    BY <1>5, <2>3 DEF SameButLast
  <2>5. us # units /\ Len(units) >= 1
    BY <2>3 DEF Status
  <2> HIDE DEF settled
  <2> QED
    BY <1>1, <1>2, <1>3, <2>2, <2>3, <2>4, <2>5, ThrowsStep
<1> QED
  BY <1>4, <1>5

-----------------------------------------------------------------------------
LEMMA ProcessBegins == ASSUME ProcessInit PROVE ProcessInv
<1>1. /\ at = "idle" /\ units = <<>> /\ processes = <<>> /\ aborts = {} /\ nodeEnds = "no"
      /\ canceled = FALSE /\ between = FALSE
  BY DEF ProcessInit
<1>2. IsList(units) /\ IsList(processes) /\ Len(units) = 0 /\ Current = 0
  BY <1>1 DEF IsList, Current
<1> QED
  BY <1>1, <1>2 DEF ProcessInv, ProcessShapes, Settling, Executing, CancelReaches, UnitsRight, NeedsMet

LEMMA ProcessStep == ProcessInv /\ [ProcessNext]_processVars => ProcessInv'
<1> SUFFICES ASSUME ProcessInv, [ProcessNext]_processVars PROVE ProcessInv'
  OBVIOUS
<1>1. CASE UNCHANGED processVars
  <2>1. UNCHANGED <<plan, at, units, processes, aborts, canceled, between, nodeEnds>>
    BY <1>1 DEF processVars, plan
  <2>2. ProcessShapes' /\ Settling' /\ Executing' /\ CancelReaches'
    BY <2>1, PlanStays
      DEF ProcessInv, ProcessShapes, Settling, Executing, CancelReaches, Current, Status
  <2>3. UnitsRight' /\ NeedsMet'
    BY <2>1, PlanStays DEF ProcessInv, UnitsRight, UnitRight, NeedsMet, Current, Status
  <2> QED
    BY <2>2, <2>3 DEF ProcessInv
<1>2. CASE ProcessNext
  BY <1>2, ClosesStep, TimesOutStep, CancelStep, ExecutesStep, CompletesStep, BeginsStep,
     RefusedStep, ProcessStartsStep, UnitEndsStep DEF ProcessNext
<1> QED
  BY <1>1, <1>2

LEMMA ProcessKept == ProcessInv => ProcessesUnderControl
<1> SUFFICES ASSUME ProcessInv PROVE ProcessesUnderControl
  OBVIOUS
<1>1. DOMAIN processes = 1 .. Current /\ DOMAIN units = 1 .. Len(units) /\ Current \in Nat
  BY DEF ProcessInv, ProcessShapes, IsList, Current
<1>2. \A p \in Living : p \in 1 .. Current /\ processes[p].alive
  BY <1>1 DEF Living
<1>3. \A p \in Living : p = Current \/ processes[p].settled = "timeout"
  BY <1>2 DEF ProcessInv, Settling
<1>4. canceled => \A p \in Living : processes[p].aborted \/ processes[p].late
  BY <1>2 DEF ProcessInv, CancelReaches
<1>5. (\E p \in DOMAIN processes : processes[p].late) =>
        between \/ "retry" \in {ClassifyRetry("canceled"), ClassifyRetry("timeout")}
  BY <1>1 DEF ProcessInv, CancelReaches, Interruptible
<1>6. ASSUME NEW i \in DOMAIN units
      PROVE  /\ (Status(i) = "completed") <=>
                  (units[i].process # 0 /\ processes[units[i].process].settled = "ok"
                     /\ (i < Len(units) \/ at # "waiting"))
             /\ nodeEnds = "completed" => Status(i) \in {"completed", "skipped"}
             /\ units[i].process # 0 => Status(i) # "skipped"
  <2>1. UnitRight(i) /\ i \in 1 .. Len(units) /\ Len(units) \in Nat
    BY <1>1 DEF ProcessInv, UnitsRight, ProcessShapes, IsList
  <2>2. /\ at \in {"gap", "waiting"} => Status(Len(units)) = "running"
        /\ nodeEnds # "no" => at = "done"
    BY DEF ProcessInv, Executing
  <2> QED
    BY <2>1, <2>2, <1>1 DEF UnitRight
<1>7. kind = "subflow" => \A i \in DOMAIN units : units[i].process # 0 =>
        \A need \in childNeeds[Child(i)] :
          \E j \in 1 .. (i - 1) : Child(j) = need /\ Status(j) = "completed"
  BY <1>1, <1>6 DEF ProcessInv, NeedsMet
<1>8. nodeEnds # "no" => aborts = {}
  BY DEF ProcessInv, Executing
<1> QED
  BY <1>3, <1>4, <1>5, <1>6, <1>7, <1>8 DEF ProcessesUnderControl

-----------------------------------------------------------------------------
(* The services together *)

(* Operators reach what runs in the run of all the services, where a service
   leaves the variables of the others alone: a live session is in the manager's
   map with the mode it shows, and a hook is held only for someone who supervises
   its session (OperatorsInControl of MCServices). *)
THEOREM OperatorsStayInControl == ServicesSpec => []OperatorsInControl
<1>1. ServicesInit => SessionsInit /\ HooksInit
  BY DEF ServicesInit
<1>2. [ServicesNext]_servicesVars => [SessionsNext]_sessionVars /\ [HooksNext]_hookVars
  <2>1. UNCHANGED servicesVars => UNCHANGED sessionVars /\ UNCHANGED hookVars
    BY DEF servicesVars
  <2>2. ASSUME NEW s, Only(s)
        PROVE (s # "sessions" => UNCHANGED sessionVars) /\ (s # "hooks" => UNCHANGED hookVars)
    BY <2>2 DEF Only, Rests
  <2> QED
    BY <2>1, <2>2 DEF ServicesNext
<1> QED
  BY <1>1, <1>2, SessionsAreManaged, HooksAreSupervised, PTL DEF ServicesSpec, OperatorsInControl

(* What the worker tells the platform is true, and what it asks over its
   transport is done as often as it was told (WorkerTruthful of MCServices), in
   the run of all the services. *)
THEOREM WorkerIsTruthful == ServicesSpec => []WorkerTruthful
<1>1. ServicesInit => WorkerInit /\ TransportInit
  BY DEF ServicesInit
<1>2. [ServicesNext]_servicesVars => [WorkerNext]_workerVars /\ [TransportNext]_transportVars
  <2>1. UNCHANGED servicesVars => UNCHANGED workerVars /\ UNCHANGED transportVars
    BY DEF servicesVars
  <2>2. ASSUME NEW s, Only(s)
        PROVE (s # "worker" => UNCHANGED workerVars) /\ (s # "transport" => UNCHANGED transportVars)
    BY <2>2 DEF Only, Rests
  <2> QED
    BY <2>1, <2>2 DEF ServicesNext
<1> QED
  BY <1>1, <1>2, ReportsAreTrue, TransportIsTrue, PTL DEF ServicesSpec, WorkerTruthful

(* The commands keep hold of the daemon (DaemonCommandsHold of Supervisor), in
   the run of all the services. *)
THEOREM DaemonStaysHeld == ServicesSpec => []DaemonCommandsHold
<1>1. ServicesInit => DaemonCommandsInit
  BY DEF ServicesInit
<1>2. [ServicesNext]_servicesVars => [DaemonCommandsNext]_commandVars
  <2>1. UNCHANGED servicesVars => UNCHANGED commandVars
    BY DEF servicesVars
  <2>2. ASSUME NEW s, Only(s) PROVE s # "commands" => UNCHANGED commandVars
    BY <2>2 DEF Only, Rests
  <2> QED
    BY <2>1, <2>2 DEF ServicesNext
<1> QED
  BY <1>1, <1>2, DaemonBegins, DaemonStep, DaemonKept, PTL DEF ServicesSpec

(* A node's processes are under control (ProcessesUnderControl of
   ProcessNodes), in the run of all the services: for any number of children,
   iterations and attempts, and whatever the retry policy. *)
THEOREM ProcessesStayUnderControl == ServicesSpec => []ProcessesUnderControl
<1>1. ServicesInit => ProcessInit
  BY DEF ServicesInit
<1>2. [ServicesNext]_servicesVars => [ProcessNext]_processVars
  <2>1. UNCHANGED servicesVars => UNCHANGED processVars
    BY DEF servicesVars
  <2>2. ASSUME NEW s, Only(s) PROVE s # "process" => UNCHANGED processVars
    BY <2>2 DEF Only, Rests
  <2> QED
    BY <2>1, <2>2 DEF ServicesNext
<1> QED
  BY <1>1, <1>2, ProcessBegins, ProcessStep, ProcessKept, PTL DEF ServicesSpec
=============================================================================
