------------------------------ MODULE PlanSaves ------------------------------
(***************************************************************************)
(* Plans an agent proposes (hooks/specific-events.ts), saved encrypted at  *)
(* the platform by the daemon (hooks/platform-plan-sync.ts), which keeps   *)
(* their keys in one file (hooks/trusted-edge-plan-artifacts.ts) and opens *)
(* them again for its clients.  Each upsert reads the whole file and       *)
(* writes it in place, with awaits between.                                *)
(***************************************************************************)
EXTENDS Integers, FiniteSets

CONSTANTS
  Saves,      \* the sends of PlatformPlanHookSync; each makes a key of its own
  Proposed,   \* what is proposed: a session's id and a body, the dedupe key
  Foreign,    \* the key of a plan another daemon saved and granted to us
  Opener,     \* a client's request to open a plan, one at a time
  PlanEvents, \* hook events: their kind, the plan in their text or tool, how it shows
  GrantRequests,   \* what a request names, and whether one of its grants opens
  MaxAsked    \* bound on the requests

ASSUME PlanNames ==
  /\ Foreign \notin Saves /\ Opener \notin Saves \cup {Foreign} /\ MaxAsked \in Nat
  /\ PlanEvents \subseteq [kind : {"tool", "stop", "proposed"}, plan : Proposed \cup {"none"},
                            marked : {"well", "badly", "no"}, planned : BOOLEAN]
  /\ GrantRequests \subseteq [by : SUBSET {"plan", "source"}, granted : BOOLEAN]

VARIABLES
  saves,      \* per send: its step, its proposal, the records it has read
  openingPlan,    \* the client's request: its step, what it names, its answer
  recent,     \* recentlyOpened
  file,       \* trusted-edge-keys.json: whether it parses, its records
  writers,    \* who is between truncating the file and closing it
  takenUp,      \* the keys of the plans the platform stores
  again,      \* history: proposals the daemon forgot although they were stored
  overlapped, \* history: upserts and reads that met another upsert
  torn        \* history: the daemon died in the middle of a write

planVars == <<saves, openingPlan, recent, file, writers, takenUp, again, overlapped, torn>>

Names == {"plan", "source"}     \* what a record or a request is known by
NoSave == [at |-> "none", of |-> "none", seen |-> {}]
NoOpening == [at |-> "none", key |-> Foreign, by |-> {}, granted |-> FALSE,
              seen |-> {}, answer |-> "none", asked |-> 0]

PlansInit ==
  /\ saves = [s \in Saves |-> NoSave] /\ openingPlan = NoOpening
  /\ recent = {} /\ file = [whole |-> TRUE, records |-> {}] /\ writers = {}
  /\ takenUp = {} /\ again = {} /\ overlapped = {} /\ torn = FALSE

Record(k, by) == [key |-> k, by |-> by]

\* findTrustedEdgePlanKey
Finds(records, k, by) == \E r \in records : r.key = k /\ r.by \cap by # {}

\* The record an upsert replaces: with a plan id the one of that plan, without
\* one the one of the same source.  A request that names neither is stored
\* under "grant:<key>", where a plan-only record is stored too.
Replaced(records, k, by) ==
  LET of(Test(_)) == {r \in records : r.key = k /\ Test(r.by)} IN
  IF "plan" \in by THEN of(LAMBDA b : "plan" \in b)
  ELSE IF by # {} THEN of(LAMBDA b : "source" \in b)
  ELSE IF Record(k, {}) \in records THEN {Record(k, {})}
  ELSE of(LAMBDA b : b = {"plan"})

\* upsertTrustedEdgePlanKey, on what was read
Upserted(records, k, by) == (records \ Replaced(records, k, by)) \cup {Record(k, by)}

Live(s) == saves[s].at \notin {"none", "done"}
\* Who has read the file for an upsert and not yet written it.
InUpsert == {s \in Saves : saves[s].at \in {"keep", "keeping", "name", "naming"}}
            \cup {o \in {Opener} : openingPlan.at \in {"store", "storing"}}
Meets(who) == IF InUpsert \ {who} = {} THEN {} ELSE (InUpsert \cup {who})

\* readTrustedEdgePlanKeyStore throws on a file that does not parse.
Reads(who) == overlapped' = overlapped \cup Meets(who)

Step(s, at) == saves' = [saves EXCEPT ![s].at = at, ![s].seen =
  IF at \in {"keeping", "naming"} THEN @ ELSE {}]
ReadAs(s, at) == saves' = [saves EXCEPT ![s].at = at, ![s].seen = file.records]

\* extractPlanProposalFromText: a marker counts only with the schema's name and
\* exactly one body.
MarkedPlan(e) == IF e.marked = "well" THEN e.plan ELSE "none"

\* emitSpecificHookEvent: leaving plan mode proposes the plan, before the tool
\* and again when permission is asked; a last message does when it marks one, or
\* else in plan mode when it reads like one; an explicit event always does.
Proposes(e) ==
  IF e.kind = "stop" /\ MarkedPlan(e) # "none" THEN MarkedPlan(e)
  ELSE IF e.kind = "proposed" \/ e.planned THEN e.plan
  ELSE "none"

\* Variant for mutation testing: the entry is made when the save has ended.
SendMarkedLate(s, p, old) ==
  /\ saves[s] = NoSave /\ old \subseteq {q \in recent : \A t \in Saves : Live(t) => saves[t].of # q}
  /\ p \notin recent \ old /\ recent' = recent \ old
  /\ again' = again \cup old
  /\ saves' = [saves EXCEPT ![s] = [NoSave EXCEPT !.at = "encrypted", !.of = p]]
  /\ UNCHANGED <<openingPlan, file, writers, takenUp, overlapped, torn>>

\* send: entries older than 30 s are dropped (a save takes at most two posts of
\* 5 s), a proposal still listed is a duplicate, any other is listed before the
\* first await.  Its body is encrypted under a new key.
Send(s, p, old) ==
  /\ saves[s] = NoSave /\ old \subseteq {q \in recent : \A t \in Saves : Live(t) => saves[t].of # q}
  /\ p \notin recent \ old /\ recent' = (recent \ old) \cup {p}
  /\ again' = again \cup old
  /\ saves' = [saves EXCEPT ![s] = [NoSave EXCEPT !.at = "encrypted", !.of = p]]
  /\ UNCHANGED <<openingPlan, file, writers, takenUp, overlapped, torn>>

\* The save or the browser throws: the proposal may come again.
SaveFails(s) ==
  /\ Step(s, "done") /\ recent' = recent \ {saves[s].of}
  /\ again' = IF s \in takenUp THEN again \cup {saves[s].of} ELSE again

\* saveTrustedEdgePlanDraft, each upsert's read: before the post the key is
\* kept under its source, after it under its plan too.
SaveReads(s) ==
  /\ saves[s].at \in {"encrypted", "posted"} /\ Reads(s)
  /\ IF file.whole
     THEN /\ ReadAs(s, IF saves[s].at = "encrypted" THEN "keep" ELSE "name")
          /\ UNCHANGED <<recent, again>>
     ELSE SaveFails(s)
  /\ UNCHANGED <<openingPlan, file, writers, takenUp, torn>>

\* writeTrustedEdgePlanKeyStore truncates the file ...
Truncates(who) ==
  /\ file' = [file EXCEPT !.whole = FALSE] /\ writers' = writers \cup {who}

\* ... and fills it.  Writes that overlap may leave one's tail behind the
\* other's end.
Fills(who, records) ==
  /\ writers' = writers \ {who}
  /\ \E whole \in (IF who \in overlapped THEN BOOLEAN ELSE {TRUE}) :
       file' = [whole |-> whole /\ writers = {who}, records |-> records]

SaveTruncates(s) ==
  /\ \/ saves[s].at = "keep" /\ Step(s, "keeping")
     \/ saves[s].at = "name" /\ Step(s, "naming")
  /\ Truncates(s)
  /\ UNCHANGED <<openingPlan, recent, takenUp, again, overlapped, torn>>

\* Variant for mutation testing: the key is kept only once the plan is named.
SaveFillsLate(s) ==
  /\ \/ saves[s].at = "keeping" /\ Step(s, "kept") /\ Fills(s, saves[s].seen)
     \/ saves[s].at = "naming" /\ Step(s, "named")
        /\ Fills(s, Upserted(saves[s].seen, s, Names))
  /\ UNCHANGED <<openingPlan, recent, takenUp, again, overlapped, torn>>

SaveFills(s) ==
  /\ \/ saves[s].at = "keeping" /\ Step(s, "kept")
        /\ Fills(s, Upserted(saves[s].seen, s, {"source"}))
     \/ saves[s].at = "naming" /\ Step(s, "named")
        /\ Fills(s, Upserted(saves[s].seen, s, Names))
  /\ UNCHANGED <<openingPlan, recent, takenUp, again, overlapped, torn>>

\* The platform stores the plan, and its answer may not arrive in time, or it
\* refuses.  The unlock session asked for next may fail without consequence.
Post(s) ==
  /\ saves[s].at = "kept"
  /\ \/ takenUp' = takenUp \cup {s} /\ Step(s, "posted") /\ UNCHANGED <<recent, again>>
     \/ /\ takenUp' = takenUp \cup {s} /\ Step(s, "done")
        /\ recent' = recent \ {saves[s].of} /\ again' = again \cup {saves[s].of}
     \/ SaveFails(s) /\ UNCHANGED takenUp
  /\ UNCHANGED <<openingPlan, file, writers, overlapped, torn>>

\* urlOpener
OpensBrowser(s) ==
  /\ saves[s].at = "named"
  /\ (Step(s, "done") /\ UNCHANGED <<recent, again>>) \/ SaveFails(s)
  /\ UNCHANGED <<openingPlan, file, writers, takenUp, overlapped, torn>>

\* A client asks to decrypt a plan or a comment, to encrypt a comment or to
\* wrap the key for others: resolveTrustedEdgePlanKey each time.  granted: one
\* of the grants it sends opens with an epoch key of this daemon.
Asks(k, q) ==
  /\ openingPlan.at = "none" /\ openingPlan.asked < MaxAsked
  /\ openingPlan' = [NoOpening EXCEPT !.at = "find", !.key = k, !.by = q.by,
                   !.granted = q.granted, !.asked = openingPlan.asked + 1]
  /\ UNCHANGED <<saves, recent, file, writers, takenUp, again, overlapped, torn>>

Answers(a) == openingPlan' = [openingPlan EXCEPT !.at = "none", !.answer = a]

\* The reads: look the key up, else unwrap a grant, store its key, look again.
OpenReads ==
  /\ openingPlan.at \in {"find", "upsert", "find again"} /\ Reads(Opener)
  /\ IF ~file.whole THEN Answers("error")
     ELSE IF openingPlan.at = "upsert"
     THEN openingPlan' = [openingPlan EXCEPT !.at = "store", !.seen = file.records]
     ELSE IF Finds(file.records, openingPlan.key, openingPlan.by) THEN Answers("opened")
     ELSE IF openingPlan.at = "find" /\ openingPlan.granted
     THEN openingPlan' = [openingPlan EXCEPT !.at = "upsert"]
     ELSE Answers("refused")
  /\ UNCHANGED <<saves, recent, file, writers, takenUp, again, torn>>

OpenTruncates ==
  /\ openingPlan.at = "store" /\ openingPlan' = [openingPlan EXCEPT !.at = "storing"]
  /\ Truncates(Opener)
  /\ UNCHANGED <<saves, recent, takenUp, again, overlapped, torn>>

OpenFills ==
  /\ openingPlan.at = "storing" /\ openingPlan' = [openingPlan EXCEPT !.at = "find again", !.seen = {}]
  /\ Fills(Opener, Upserted(openingPlan.seen, openingPlan.key, openingPlan.by))
  /\ UNCHANGED <<saves, recent, takenUp, again, overlapped, torn>>

\* The daemon dies and starts again: its sends, its requests and its memory of
\* what it sent are gone, the file is as it was.
PlanDaemonDies ==
  /\ \E s \in Saves : Live(s)
  /\ saves' = [s \in Saves |-> IF Live(s) THEN [saves[s] EXCEPT !.at = "done", !.seen = {}] ELSE saves[s]]
  /\ openingPlan' = [NoOpening EXCEPT !.asked = openingPlan.asked] /\ recent' = {} /\ writers' = {}
  /\ again' = again \cup {saves[s].of : s \in takenUp}
  /\ torn' = (torn \/ writers # {})
  /\ UNCHANGED <<file, takenUp, overlapped>>

PlansNext ==
  \/ \E s \in Saves :
       \/ \E e \in PlanEvents, old \in SUBSET recent :
            Proposes(e) # "none" /\ Send(s, Proposes(e), old)
       \/ SaveReads(s) \/ SaveTruncates(s) \/ SaveFills(s) \/ Post(s) \/ OpensBrowser(s)
  \/ \E k \in takenUp \cup {Foreign}, q \in GrantRequests : Asks(k, q)
  \/ OpenReads \/ OpenTruncates \/ OpenFills \/ PlanDaemonDies

PlansSpec == PlansInit /\ [][PlansNext]_planVars

PlansTypeOK ==
  /\ \A s \in Saves :
       /\ saves[s].at \in {"none", "encrypted", "keep", "keeping", "kept", "posted",
                           "name", "naming", "named", "done"}
       /\ saves[s].of \in Proposed \cup {"none"}
  /\ openingPlan.at \in {"none", "find", "upsert", "store", "storing", "find again"}
  /\ openingPlan.answer \in {"none", "opened", "refused", "error"}
  /\ file.whole \in BOOLEAN /\ writers \subseteq Saves \cup {Opener}
  /\ \A r \in file.records : r.key \in Saves \cup {Foreign} /\ r.by \subseteq Names
  /\ takenUp \subseteq Saves /\ recent \subseteq Proposed /\ again \subseteq Proposed
  /\ overlapped \subseteq Saves \cup {Opener} /\ torn \in BOOLEAN

(* The key of every plan the platform stores is in the daemon's file, whatever
   answer was lost, unless its own upsert met another's: the last to write
   then drops what the first one added. *)
KeysKept ==
  /\ \A k \in takenUp : ~file.whole \/ Finds(file.records, k, Names) \/ k \in overlapped
  /\ file.whole \/ writers # {} \/ torn \/ overlapped # {}

(* A proposal is stored a second time only when the daemon had to forget the
   first: it failed after the platform stored it, the browser did not open, it
   is older than the window, or the daemon was restarted. *)
StoredOnce ==
  \A p \in Proposed : p \in again \/ Cardinality({k \in takenUp : saves[k].of = p}) <= 1

(* A request with a grant this daemon can open is refused only when it names
   neither plan nor source, or when an overlapping upsert dropped the key it
   had just stored; it fails only on a file that does not parse. *)
GrantsOpen ==
  /\ openingPlan.answer = "refused" /\ openingPlan.granted =>
       openingPlan.by = {} \/ Opener \in overlapped
  /\ openingPlan.answer = "error" => torn \/ overlapped # {}

(* What the daemon promises of the plans it saves (hooks/
   trusted-edge-plan-artifacts.ts, hooks/platform-plan-sync.ts). *)
PlansHold == KeysKept /\ StoredOnce /\ GrantsOpen
=============================================================================
