---------------------------- MODULE PublishReview ----------------------------
(***************************************************************************)
(* The review before a workflow's git_publish node pushes its branch:      *)
(* workflows/node-registry.ts evaluates the staged diff and blocks the     *)
(* node, the platform's decision comes as a runtime command that may be    *)
(* delivered again (workflows/platform-command-applier.ts), local          *)
(* operators decide too (runner.ts, decideApproval), and other nodes go on *)
(* writing to the worktree.  A diff is named by its digest, 0 is the empty *)
(* one; requests for approval are numbered in order of requestedAt.        *)
(***************************************************************************)
EXTENDS Integers, Sequences

CONSTANTS
  Diffs, Sensitive,  \* the non-empty diffs; the ones a review rule matches
  Commands,          \* the platform's decisions
  MaxAsked           \* bound: requests for approval

ASSUME SensitiveDiffs ==
  Sensitive \subseteq Diffs /\ Diffs \subseteq Nat \ {0} /\ MaxAsked \in Nat

VARIABLES
  tree,      \* the diff in the worktree
  publish,   \* the node: its status, review metadata and approval
  asked,     \* the diffs the requests so far were about, oldest first
  commands,  \* per command: what it says, "none" before it is issued
  consumed,  \* in memory and in the node's metadata: commands consumed
  applying,  \* commands between their check and decideApproval
  pushed,    \* what the node has pushed, 0: nothing
  seen,      \* history: diffs an operator saw when approving
  decided,   \* history: per command, how often it decided
  slipped    \* history: the worktree changed between the check and the commit

publishVars == <<tree, publish, asked, commands, consumed, applying, pushed,
                 seen, decided, slipped>>

NoDigest == -1
Digests == Diffs \cup {0, NoDigest}
NoCommand == [status |-> "none", saw |-> 0, digest |-> NoDigest, bound |-> 0,
              at |-> 0, approve |-> TRUE]

PublishInit ==
  /\ tree \in Diffs
  /\ publish = [status |-> "queued", facts |-> NoDigest, invalid |-> NoDigest,
                approved |-> FALSE, digest |-> NoDigest]
  /\ asked = <<>> /\ commands = [c \in Commands |-> NoCommand]
  /\ consumed = [memory |-> {}, disk |-> {}] /\ applying = {} /\ pushed = 0
  /\ seen = {} /\ decided = [c \in Commands |-> 0] /\ slipped = FALSE

\* Another node, or its agent, writes to the worktree.
TreeChanges(d) ==
  /\ d # tree /\ publish.status # "completed" /\ tree' = d
  /\ slipped' = (slipped \/ publish.status = "publishing")
  /\ UNCHANGED <<publish, asked, commands, consumed, applying, pushed, seen, decided>>

\* evaluateGitPublishPrePublishReview: does a rule match the staged diff?
Required(d) == d \in Sensitive

\* Variant for mutation testing: an invalidated approval is forgotten.
InvalidatesOnlyChange(d) ==
  publish.approved /\ publish.facts # NoDigest /\ publish.facts # d

\* Was the approval given for another diff than d, or for none in particular
\* although an earlier one had been invalidated?
Invalidates(d) ==
  /\ publish.approved
  /\ \/ publish.facts # NoDigest /\ publish.facts # d
     \/ publish.facts = NoDigest /\ Required(d)
     \/ publish.invalid # NoDigest /\ publish.digest # d

\* The node runs up to its commit: it verifies the approval it has, or blocks
\* for one.
Evaluate ==
  LET blocks == (~publish.approved /\ Required(tree)) \/ Invalidates(tree) IN
  /\ publish.status = "queued" /\ (blocks => Len(asked) < MaxAsked)
  /\ publish' = CASE blocks ->
            [publish EXCEPT !.status = "blocked", !.facts = tree,
               !.invalid = IF Invalidates(tree) THEN tree ELSE NoDigest,
               !.approved = FALSE, !.digest = NoDigest]
       [] publish.approved /\ ~Invalidates(tree) ->
            [publish EXCEPT !.status = "publishing", !.invalid = NoDigest,
               !.facts = IF @ # NoDigest THEN @ ELSE tree]
       [] OTHER -> [publish EXCEPT !.status = "publishing", !.facts = tree,
                                   !.invalid = NoDigest]
  /\ asked' = IF blocks THEN Append(asked, tree) ELSE asked
  /\ UNCHANGED <<tree, commands, consumed, applying, pushed, seen, decided, slipped>>

\* executeGitPublishNode stages the worktree again, commits and pushes; an
\* empty diff fails.
Publish ==
  /\ publish.status = "publishing"
  /\ publish' = [publish EXCEPT !.status = IF tree = 0 THEN "failed" ELSE "completed"]
  /\ pushed' = tree /\ tree' = 0
  /\ UNCHANGED <<asked, commands, consumed, applying, seen, decided, slipped>>

\* The commit is made and the push fails: the next attempt finds no diff.
PushFails(retry) ==
  /\ publish.status = "publishing" /\ tree # 0 /\ tree' = 0
  /\ publish' = [publish EXCEPT !.status = IF retry THEN "queued" ELSE "failed"]
  /\ UNCHANGED <<asked, commands, consumed, applying, pushed, seen, decided, slipped>>

-----------------------------------------------------------------------------
\* The platform's operator decides on a request it was shown, perhaps an
\* older one; digest and request time may be left out of the command.
Issue(c, k, named, bound, approve) ==
  /\ commands[c].status = "none" /\ k \in 1..Len(asked)
  /\ commands' = [commands EXCEPT ![c] =
       [status |-> "issued", saw |-> asked[k],
        digest |-> IF named THEN asked[k] ELSE NoDigest,
        bound |-> IF bound THEN k ELSE 0, at |-> Len(asked), approve |-> approve]]
  /\ UNCHANGED <<tree, publish, asked, consumed, applying, pushed, seen, decided, slipped>>

\* sameDigestPrePublishReblock
SameReblock(d) ==
  /\ publish.invalid # NoDigest /\ publish.facts = publish.invalid
  /\ d \in {NoDigest, publish.facts}

\* The four checks of apply.
Stale(cmd) ==
  \/ cmd.bound \notin {0, Len(asked)} /\ ~(cmd.digest # NoDigest /\ SameReblock(cmd.digest))
  \/ cmd.at < Len(asked) /\ ~SameReblock(NoDigest)
  \/ cmd.digest = NoDigest /\ publish.invalid # NoDigest
  \/ cmd.digest \notin {NoDigest, publish.facts}

\* Variant for mutation testing: consumed commands are only remembered.
ApplyCommandInMemory(c) ==
  /\ commands[c].status = "issued" /\ c \notin consumed.memory \cup consumed.disk
  /\ publish.status = "blocked"
  /\ consumed' = [consumed EXCEPT !.memory = @ \cup {c}]
  /\ applying' = IF Stale(commands[c]) THEN applying ELSE applying \cup {c}
  /\ UNCHANGED <<tree, publish, asked, commands, pushed, seen, decided, slipped>>

\* apply up to decideApproval: the command is consumed first, on disk too.
ApplyCommand(c) ==
  /\ commands[c].status = "issued" /\ c \notin consumed.memory \cup consumed.disk
  /\ publish.status = "blocked"
  /\ consumed' = [memory |-> consumed.memory \cup {c}, disk |-> consumed.disk \cup {c}]
  /\ applying' = IF Stale(commands[c]) THEN applying ELSE applying \cup {c}
  /\ UNCHANGED <<tree, publish, asked, commands, pushed, seen, decided, slipped>>

\* decideApproval: refused when nothing is blocked or the diff is another.
DecideApproval(digest, saw, approve) ==
  /\ publish.status = "blocked" /\ digest \in {NoDigest, publish.facts}
  /\ publish' = [publish EXCEPT !.status = IF approve THEN "queued" ELSE "failed",
                                !.approved = approve, !.digest = digest]
  /\ seen' = IF approve THEN seen \cup {saw} ELSE seen

DecideFromCommand(c) ==
  LET cmd == commands[c] IN
  /\ c \in applying /\ applying' = applying \ {c}
  /\ \/ /\ DecideApproval(cmd.digest, cmd.saw, cmd.approve)
        /\ decided' = [decided EXCEPT ![c] = @ + 1]
     \/ /\ publish.status # "blocked" \/ cmd.digest \notin {NoDigest, publish.facts}
        /\ UNCHANGED <<publish, seen, decided>>
  /\ UNCHANGED <<tree, asked, commands, consumed, pushed, slipped>>

\* A local operator who was shown request k.
DecideLocally(k, named, approve) ==
  /\ k \in 1..Len(asked)
  /\ DecideApproval(IF named THEN asked[k] ELSE NoDigest, asked[k], approve)
  /\ UNCHANGED <<tree, asked, commands, consumed, applying, pushed, decided, slipped>>

\* The daemon restarts: the node that was publishing runs again.
PublisherRestarts ==
  /\ consumed.memory # {} /\ consumed' = [consumed EXCEPT !.memory = {}]
  /\ applying' = {}
  /\ publish' = [publish EXCEPT !.status = IF @ = "publishing" THEN "queued" ELSE @]
  /\ UNCHANGED <<tree, asked, commands, pushed, seen, decided, slipped>>

PublishNext ==
  \/ \E d \in Diffs : TreeChanges(d)
  \/ Evaluate \/ Publish \/ PublisherRestarts
  \/ \E retry \in BOOLEAN : PushFails(retry)
  \/ \E c \in Commands : ApplyCommand(c) \/ DecideFromCommand(c)
  \/ \E c \in Commands, k \in 1..MaxAsked, named, bound, approve \in BOOLEAN :
       Issue(c, k, named, bound, approve)
  \/ \E k \in 1..MaxAsked, named, approve \in BOOLEAN : DecideLocally(k, named, approve)

PublishSpec == PublishInit /\ [][PublishNext]_publishVars

PublishNodes ==
  [status : {"queued", "blocked", "publishing", "completed", "failed"},
   facts : Digests, invalid : Digests, approved : BOOLEAN, digest : Digests]
PublishCommands ==
  [status : {"none", "issued"}, saw : Digests, digest : Digests,
   bound : Nat, at : Nat, approve : BOOLEAN]

PublishTypeOK ==
  /\ tree \in Diffs \cup {0} /\ pushed \in Diffs \cup {0} /\ seen \subseteq Digests
  /\ publish \in PublishNodes /\ commands \in [Commands -> PublishCommands]
  /\ asked \in Seq(Digests) /\ Len(asked) <= MaxAsked /\ applying \subseteq consumed.disk
  /\ consumed \in [memory : SUBSET Commands, disk : SUBSET Commands]
  /\ decided \in [Commands -> Nat] /\ slipped \in BOOLEAN

(* What is pushed needed no review, or an operator approved it having seen
   that very diff: approvals given for an older diff, commands delivered late
   or twice, and restarts do not get another diff through.  Only a worktree
   that changes after the check escapes: the diff is staged again. *)
PublishedWasReviewed ==
  pushed # 0 => pushed \notin Sensitive \/ pushed \in seen \/ slipped

(* A command decides at most once, although the platform delivers it until
   the run moves on and the daemon may have been restarted in between. *)
DecidedOnce == \A c \in Commands : decided[c] <= 1

(* A publication is what was reviewed, and was decided once. *)
ReviewHolds == PublishedWasReviewed /\ DecidedOnce
=============================================================================
