---------------------------- MODULE ContextVault ----------------------------
(***************************************************************************)
(* An end-to-end encrypted context repository kept on several edges        *)
(* (context-engine/src/repo) and synchronised through the platform         *)
(* (daemon context/local-edge-sync.ts, local-edge-candidates.ts).  Every   *)
(* edge has its own copy of the event list, the keys it was granted per    *)
(* epoch, the epoch it writes under and a cursor into what it has pulled.  *)
(***************************************************************************)
EXTENDS Selections, Integers, Sequences, FiniteSets, SequencesExt

CONSTANTS Edges,      \* edges, each with one member; numbers, for their order
  Owner,              \* the edge that created the repository
  PullLimit,          \* the limit of a pull
  MaxEvents, MaxEpochs  \* bounds; decisions count as events

ASSUME VaultBounds ==
  /\ Edges \subseteq Nat /\ IsFiniteSet(Edges) /\ Owner \in Edges
  /\ PullLimit \in Nat \ {0} /\ MaxEvents \in Nat /\ MaxEpochs \in Nat \ {0}

VARIABLES
  vault,     \* per edge: its events in file order
  epochNow,  \* per edge: metadata.currentKeyEpoch, 0 without metadata
  keyring,   \* per edge and epoch: the key it has, 0 for none
  cursor,    \* per edge: lastServerPullReceivedAt
  pull,      \* per edge: the pull under way
  received,    \* what the platform received: events and candidate decisions
  made,      \* events made so far, which also names keys
  jumped,    \* history: edges whose cursor may have passed what they lack
  forked     \* history: two edges made different keys for one epoch

vaultVars == <<vault, epochNow, keyring, cursor, pull, received, made, jumped, forked>>

NoPull == [on |-> FALSE, upto |-> 0, decided |-> 0, full |-> FALSE, todo |-> << >>,
           notFound |-> FALSE]

Event(id, kind, to, epoch, key, of) ==
  [id |-> id, kind |-> kind, to |-> to, epoch |-> epoch, key |-> key, of |-> of]

\* createRepoHpke on the owner's edge.
VaultInit ==
  /\ vault = [d \in Edges |-> IF d = Owner THEN <<Event(1, "grant", d, 1, 1, 0)>> ELSE << >>]
  /\ epochNow = [d \in Edges |-> IF d = Owner THEN 1 ELSE 0]
  /\ keyring = [d \in Edges |-> [n \in 1 .. MaxEpochs |-> IF d = Owner /\ n = 1 THEN 1 ELSE 0]]
  /\ cursor = [d \in Edges |-> 0] /\ pull = [d \in Edges |-> NoPull] /\ received = << >>
  /\ made = 1 /\ jumped = {} /\ forked = FALSE

\* getRepoMetadata and getRepoKey throw otherwise.
MayWrite(d) == epochNow[d] > 0 /\ keyring[d][epochNow[d]] # 0

IsDecision(e) == e.kind = "decision"
Fits(n) == made + n + Len(SelectSeq(received, IsDecision)) <= MaxEvents

Appends(d, events) ==
  /\ Fits(Len(events)) /\ made' = made + Len(events)
  /\ vault' = [vault EXCEPT ![d] = @ \o events]

\* appendSharedEvent: a candidate, under the key of the edge's own epoch.
WriteEntry(d) ==
  /\ MayWrite(d)
  /\ Appends(d, <<Event(made + 1, "candidate", 0, epochNow[d], keyring[d][epochNow[d]], 0)>>)
  /\ UNCHANGED <<epochNow, keyring, cursor, pull, received, jumped, forked>>

\* grantRepoHpke.
GrantMember(d, m) ==
  /\ MayWrite(d)
  /\ Appends(d, <<Event(made + 1, "grant", m, epochNow[d], keyring[d][epochNow[d]], 0)>>)
  /\ UNCHANGED <<epochNow, keyring, cursor, pull, received, jumped, forked>>

\* activeRecipients: granted and not revoked since, in file order.
ActiveRecipients(d) ==
  {m \in Edges : \E i \in DOMAIN vault[d] :
     /\ vault[d][i].kind = "grant" /\ vault[d][i].to = m
     /\ \A j \in i + 1 .. Len(vault[d]) : ~(vault[d][j].kind = "revoke" /\ vault[d][j].to = m)}

\* revokeRepoHpke: a key for the next epoch, the revocation, and the key
\* granted to the remaining members one after the other, to all of them or,
\* when the process ends in between, to the first few.
RevokeMember(d, m) ==
  LET next == epochNow[d] + 1
      key == made + 1
      active == (ActiveRecipients(d) \ {m}) \cup {d}
  IN /\ epochNow[d] > 0 /\ next <= MaxEpochs
     /\ \E reached \in {s \in SUBSET active : \A a \in s, b \in active : b < a => b \in s} :
          LET rotations == SetToSeq(reached)
          IN Appends(d, <<Event(key, "revoke", m, epochNow[d], 0, 0)>> \o
                        [i \in DOMAIN rotations |->
                           Event(key + i, "grant", rotations[i], next, key, 0)])
     /\ epochNow' = [epochNow EXCEPT ![d] = next]
     /\ keyring' = [keyring EXCEPT ![d][next] = key]
     /\ forked' = (forked \/ \E e \in Edges : keyring[e][next] # 0 \/ epochNow[e] >= next)
     /\ UNCHANGED <<cursor, pull, received, jumped>>

Has(events, e) == \E i \in DOMAIN events : events[i] = e

\* pushContextEvents sends everything; the platform keeps what it lacks.
PushEvents(d) ==
  LET new == Selected(vault[d], {i \in DOMAIN vault[d] : ~Has(received, vault[d][i])})
  IN /\ new # << >> /\ received' = received \o new
     /\ UNCHANGED <<vault, epochNow, keyring, cursor, pull, made, jumped, forked>>

\* A reviewer decides a candidate on the platform.
DecideCandidate(i) ==
  /\ received[i].kind = "candidate" /\ Fits(1)
  /\ ~\E j \in DOMAIN received : received[j].kind = "decision" /\ received[j].of = received[i].id
  /\ received' = Append(received, Event(0, "decision", 0, 0, 0, received[i].id))
  /\ UNCHANGED <<vault, epochNow, keyring, cursor, pull, made, jumped, forked>>

\* materializeRepoAsync: the last grant of an epoch in file order gives its key.
Materialized(d, events, keys) ==
  [n \in 1 .. MaxEpochs |->
     LET mine == {i \in DOMAIN events :
                    events[i].kind = "grant" /\ events[i].to = d /\ events[i].epoch = n}
     IN IF mine = {} THEN keys[n] ELSE events[CHOOSE i \in mine : \A j \in mine : j <= i].key]

\* ensureMetadataFromEvents: only an edge without metadata takes an epoch.
EnsureMetadata(d, events) ==
  IF epochNow[d] # 0 \/ events = << >> THEN epochNow[d]
  ELSE LET epochs == {events[i].epoch + (IF events[i].kind = "revoke" THEN 1 ELSE 0) :
                        i \in DOMAIN events}
       IN CHOOSE n \in epochs : \A k \in epochs : k <= n

\* What the platform received after the cursor: the first PullLimit events
\* and every decision.
PulledEvents(d) ==
  {i \in cursor[d] + 1 .. Len(received) :
     /\ ~IsDecision(received[i])
     /\ Cardinality({j \in cursor[d] + 1 .. i : ~IsDecision(received[j])}) <= PullLimit}
PulledDecisions(d) == {i \in cursor[d] + 1 .. Len(received) : IsDecision(received[i])}

At0(s) == CHOOSE n \in s \cup {0} : \A k \in s : k <= n

\* pullContextEvents up to the import.
PullEvents(d) ==
  LET upto == At0(PulledEvents(d))
      page == Selected(received, PulledEvents(d))
      events == vault[d] \o Selected(page, {i \in DOMAIN page : ~Has(vault[d], page[i])})
  IN /\ ~pull[d].on /\ cursor[d] < Len(received)
     /\ vault' = [vault EXCEPT ![d] = events]
     /\ epochNow' = [epochNow EXCEPT ![d] = EnsureMetadata(d, page)]
     /\ keyring' = [keyring EXCEPT ![d] = Materialized(d, events, @)]
     /\ pull' = [pull EXCEPT ![d] =
          [on |-> TRUE, upto |-> upto, decided |-> At0(PulledDecisions(d)),
           full |-> Len(page) = PullLimit,
           todo |-> Selected(received, PulledDecisions(d)),
           notFound |-> FALSE]]
     /\ UNCHANGED <<cursor, received, made, jumped, forked>>

Readable(d, e) == e.key # 0 /\ e.epoch > 0 /\ keyring[d][e.epoch] = e.key
Candidates(d, c) ==
  {i \in DOMAIN vault[d] : vault[d][i].id = c /\ Readable(d, vault[d][i])}
DecidedOn(d, c) ==
  \E i \in DOMAIN vault[d] : vault[d][i].kind = "decided" /\ vault[d][i].of = c
                               /\ Readable(d, vault[d][i])

\* applyContextCandidateDecision: not found, decided already, or recorded in
\* the vault, which throws without the key of the edge's epoch (PullFails).
ApplyDecision(d) ==
  /\ pull[d].on /\ pull[d].todo # << >>
  /\ LET c == Head(pull[d].todo).of
         rest == [pull EXCEPT ![d].todo = Tail(@)]
     IN \/ /\ Candidates(d, c) = {} /\ pull' = [rest EXCEPT ![d].notFound = TRUE]
           /\ UNCHANGED <<vault, made>>
        \/ /\ Candidates(d, c) # {} /\ DecidedOn(d, c) /\ pull' = rest /\ UNCHANGED <<vault, made>>
        \/ /\ Candidates(d, c) # {} /\ ~DecidedOn(d, c) /\ MayWrite(d) /\ pull' = rest
           /\ Appends(d, <<Event(made + 1, "decided", 0, epochNow[d],
                                 keyring[d][epochNow[d]], c)>>)
  /\ UNCHANGED <<epochNow, keyring, cursor, received, jumped, forked>>

\* Variant for mutation testing: the cursor goes to the platform's newest.
NewCursorAtEnd(d) == Len(received)

\* latestReceivedAt: of the events and, if all were found, the decisions.
NewCursor(d) ==
  LET latest == At0({pull[d].upto} \cup (IF pull[d].notFound THEN {} ELSE {pull[d].decided}))
  IN IF latest = 0 THEN cursor[d] ELSE latest

\* touchContextMetadata.  The cursor may pass events beyond a full page when
\* a decision is newer, and a decision that was not found when an event is.
PullEnds(d) ==
  /\ pull[d].on /\ pull[d].todo = << >> /\ cursor' = [cursor EXCEPT ![d] = NewCursor(d)]
  /\ jumped' = IF \/ pull[d].notFound /\ pull[d].upto > 0
                  \/ ~pull[d].notFound /\ pull[d].full /\ pull[d].decided > pull[d].upto
               THEN jumped \cup {d} ELSE jumped
  /\ pull' = [pull EXCEPT ![d] = NoPull]
  /\ UNCHANGED <<vault, epochNow, keyring, received, made, forked>>

\* A pull ends early, by an error or with its process: the cursor stays.
PullFails(d) ==
  /\ pull[d].on /\ pull' = [pull EXCEPT ![d] = NoPull]
  /\ UNCHANGED <<vault, epochNow, keyring, cursor, received, made, jumped, forked>>

VaultNext ==
  \/ \E d \in Edges :
       \/ WriteEntry(d) \/ PushEvents(d) \/ PullEvents(d) \/ ApplyDecision(d)
       \/ PullEnds(d) \/ PullFails(d)
       \/ \E m \in Edges \ {d} : GrantMember(d, m) \/ RevokeMember(d, m)
  \/ \E i \in DOMAIN received : DecideCandidate(i)

VaultTypeOK ==
  /\ epochNow \in [Edges -> 0 .. MaxEpochs]
  /\ keyring \in [Edges -> [1 .. MaxEpochs -> 0 .. MaxEvents]]
  /\ cursor \in [Edges -> 0 .. Len(received)] /\ made \in 1 .. MaxEvents
  /\ jumped \subseteq Edges /\ forked \in BOOLEAN

(* An edge has every event of the platform up to its cursor and has recorded
   every decision, however pulls fail, are repeated and are cut into pages,
   unless a pull mixed a full page with a newer decision or could not find a
   candidate.  And it reads every event written under an epoch it was
   granted, unless two edges made keys for the same epoch. *)
VaultComplete ==
  /\ \A d \in Edges \ jumped : \A i \in 1 .. cursor[d] :
       IF received[i].kind = "decision"
       THEN \E j \in DOMAIN vault[d] : vault[d][j].kind = "decided" /\ vault[d][j].of = received[i].of
       ELSE Has(vault[d], received[i])
  /\ forked \/ \A d \in Edges :
       LET granted == {vault[d][j].epoch : j \in {k \in DOMAIN vault[d] :
                                                  vault[d][k].kind = "grant" /\ vault[d][k].to = d}}
       IN \A i \in DOMAIN vault[d] :
            vault[d][i].kind \in {"candidate", "decided"} /\ vault[d][i].epoch \in granted
            => Readable(d, vault[d][i])
=============================================================================
