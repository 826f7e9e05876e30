---------------------------- MODULE GitTracking -----------------------------
(***************************************************************************)
(* The git tracker of a session (tracking/git-tracker.ts, called by        *)
(* core/session-manager.ts).  The agent works in a worktree of its own on  *)
(* the session's branch; after the tool calls that are configured for it   *)
(* the tracker commits, one step after the other.  Rolling back, retrying  *)
(* from a step, squashing into another branch and the end of the session   *)
(* are separate requests: only squashing and the end wait for the commits, *)
(* for those queued when they begin.  A tree is the set of edits in it;    *)
(* the log that the end writes is edit 0.  Files that match an ignore      *)
(* pattern are left out.                                                   *)
(***************************************************************************)
EXTENDS Integers, Sequences, FiniteSets

CONSTANTS MaxCommits,     \* maxCommitsPerSession
  BigEdits,               \* edits beyond maxCommitSizeBytes
  MaxEdits, MaxSteps,     \* bounds: edits of the agent, completed tool calls
  MaxTrackAsked,          \* bound: rollbacks, retries, squashes and commits of the user
  MaxGitFaults            \* bound: git commands that fail or time out

ASSUME TrackingBounds == MaxCommits \in Nat /\ BigEdits \subseteq Nat \ {0}

VARIABLES
  tracker,    \* "none", "git" or "noop": what the session has
  commits,    \* every commit: its history, its tree, the step it is of
  session, target,  \* refs: the session's branch, 0 before it is made; the other
  head,       \* of the worktree: "session", "detached" or "gone"
  headAt,     \* the commit of a detached head
  work, index,  \* the files, and what is staged
  unmerged,   \* the index has conflicts
  waiting,    \* steps whose commit is queued
  commit,     \* the commit under way
  steps,      \* per step: its sha, 0 for none
  squash,     \* the squash under way
  ending,     \* "no", "flush", "log", "remove" or "over"
  retries,    \* retry worktrees: [there, known]
  edits, requests, faults,  \* counted against the bounds
  cutAcross,  \* history: steps whose commit another request cut across
  undone,     \* history: edits and commits that a rollback dropped
  due,        \* history: edits that were there when a commit was queued
  gaveUp,     \* history: a queued commit was given up
  dropped,    \* history: the user's commits made in the midst of a squash
  stuck,      \* history: git refused to return to the session's branch
  strayed     \* history: a retry was made in the midst of the end

treeVars == <<head, headAt, work, index, unmerged>>
trackVars == <<tracker, commits, session, target, head, headAt, work, index, unmerged,
               waiting, commit, steps, squash, ending, retries, edits, requests, faults,
               cutAcross, undone, due, gaveUp, dropped, stuck, strayed>>
histories == <<cutAcross, undone, due, gaveUp, dropped, stuck, strayed>>

ByUser == 0 - 1   \* the step of a commit of the user's, and of the log's
Logged == 0 - 2
NoCommit == [at |-> "idle", step |-> 0]
NoSquash == [at |-> "idle", upto |-> 0, base |-> 0, made |-> 0]

TrackInit ==
  /\ tracker = "none" /\ commits = <<[past |-> {1}, tree |-> {}, step |-> 0]>>
  /\ session = 0 /\ target = 1 /\ head = "gone" /\ headAt = 0 /\ work = {} /\ index = {}
  /\ unmerged = FALSE /\ waiting = << >> /\ commit = NoCommit /\ steps = << >>
  /\ squash = NoSquash /\ ending = "no" /\ retries = [there |-> 0, known |-> 0, adding |-> FALSE]
  /\ edits = 0 /\ requests = 0 /\ faults = 0
  /\ cutAcross = {} /\ undone = [edits |-> {}, commits |-> {}] /\ due = {} /\ gaveUp = FALSE
  /\ dropped = {} /\ stuck = FALSE /\ strayed = FALSE

-----------------------------------------------------------------------------
(* git *)

HeadCommit == IF head = "session" THEN session ELSE headAt
Tree(c) == IF c = 0 THEN {} ELSE commits[c].tree
Clean == work = Tree(HeadCommit) /\ index = Tree(HeadCommit)

\* git commit: the index, on the head; without a change it fails.
Commits(step, tree) ==
  commits' = Append(commits, [past |-> commits[HeadCommit].past \cup {Len(commits) + 1},
                              tree |-> tree, step |-> step])
HeadMoves ==
  IF head = "session" THEN session' = Len(commits') /\ UNCHANGED headAt
  ELSE headAt' = Len(commits') /\ UNCHANGED session

\* git checkout carries what was changed over, or refuses.
Carried(files, c) == Tree(c) \cup (files \ Tree(HeadCommit))
ChecksOut(to, c) ==
  /\ head # "gone" /\ ~unmerged /\ head' = to
  /\ headAt' = IF to = "session" THEN 0 ELSE c
  /\ work' = Carried(work, c) /\ index' = Carried(index, c) /\ UNCHANGED unmerged
MayRefuse(c) == head = "gone" \/ unmerged \/ (~Clean /\ Tree(c) # Tree(HeadCommit))

\* What cuts across a commit that has looked at the branch already.
CutsAcross ==
  cutAcross' = IF commit.at \in {"add", "commit", "sha"} THEN cutAcross \cup {commit.step}
                                                        ELSE cutAcross

-----------------------------------------------------------------------------
(* The session. *)

\* setupTracker and setup: git refuses a branch that exists, as it does when
\* the session is resumed, and then nothing is tracked.
SetupTracker ==
  /\ tracker = "none"
  /\ IF session = 0
     THEN /\ tracker' = "git" /\ session' = target /\ head' = "session"
          /\ work' = Tree(target) /\ index' = Tree(target)
     ELSE tracker' = "noop" /\ UNCHANGED <<session, head, work, index>>
  /\ ending' = "no"
  /\ UNCHANGED <<commits, target, headAt, unmerged, waiting, commit, steps, squash, retries,
                 edits, requests, faults, histories>>

Tracked == tracker = "git" /\ head # "gone"

AgentEdits ==
  /\ Tracked /\ ending = "no" /\ edits < MaxEdits
  /\ edits' = edits + 1 /\ work' = work \cup {edits + 1}
  /\ UNCHANGED <<tracker, commits, session, target, head, headAt, index, unmerged, waiting,
                 commit, steps, squash, ending, retries, requests, faults, histories>>

\* The agent checks another branch out, at the same commit, and returns.
AgentSwitches ==
  /\ Tracked /\ ending = "no" /\ squash.at = "idle" /\ ~unmerged /\ Clean
  /\ IF head = "session" THEN head' = "detached" /\ headAt' = session
                         ELSE head' = "session" /\ headAt' = 0
  /\ work' = Tree(session) /\ index' = Tree(session) /\ CutsAcross
  /\ faults < MaxGitFaults /\ faults' = faults + 1
  /\ UNCHANGED <<tracker, commits, session, target, unmerged, waiting, commit, steps, squash,
                 ending, retries, edits, requests, undone, due, gaveUp, dropped, stuck, strayed>>

CommitCount == Cardinality({k \in DOMAIN steps : steps[k] # 0})

\* onMessage and enqueueCommit, of a tool call that is to be committed: the
\* limit is compared with the commits made, not with those queued.
ToolCompletes ==
  /\ Tracked /\ ending = "no" /\ Len(steps) < MaxSteps
  /\ steps' = Append(steps, 0)
  /\ IF CommitCount < MaxCommits
     THEN waiting' = Append(waiting, Len(steps')) /\ due' = work
     ELSE UNCHANGED <<waiting, due>>
  /\ UNCHANGED <<tracker, commits, session, target, treeVars, commit, squash, ending, retries,
                 edits, requests, faults, cutAcross, undone, gaveUp, dropped, stuck, strayed>>

-----------------------------------------------------------------------------
(* doCommit *)

CommitAt(at) == commit' = [commit EXCEPT !.at = at]
CommitEnds(ok) == commit' = NoCommit /\ gaveUp' = (gaveUp \/ ~ok)
Else == <<tracker, target, squash, ending, retries, edits, requests, undone, due, dropped,
          stuck, strayed>>

\* git status: without a change there is nothing to do.
BeginsCommit ==
  /\ commit.at = "idle" /\ waiting # << >> /\ waiting' = Tail(waiting)
  /\ IF head = "gone" \/ Clean THEN UNCHANGED commit
     ELSE commit' = [at |-> "branch", step |-> waiting[1]]
  /\ UNCHANGED <<commits, session, treeVars, steps, faults, cutAcross, gaveUp, Else>>

\* Variant for mutation testing: the branch is not looked at.
LooksAtBranchNot ==
  /\ commit.at = "branch" /\ CommitAt("add") /\ UNCHANGED gaveUp
  /\ UNCHANGED <<commits, session, treeVars, waiting, steps, faults, cutAcross, Else>>

LooksAtBranch ==
  /\ commit.at = "branch"
  /\ IF head = "session" THEN CommitAt("add") /\ UNCHANGED gaveUp ELSE CommitEnds(FALSE)
  /\ UNCHANGED <<commits, session, treeVars, waiting, steps, faults, cutAcross, Else>>

\* git add -A.
StagesAll ==
  /\ commit.at = "add" /\ head # "gone" /\ index' = work /\ unmerged' = FALSE /\ CommitAt("commit")
  /\ UNCHANGED <<commits, session, head, headAt, work, waiting, steps, faults, cutAcross, gaveUp,
                 Else>>

\* Nothing staged, or too much of it, which stays staged.
CommitsStep ==
  /\ commit.at = "commit" /\ head # "gone"
  /\ \/ /\ index = Tree(HeadCommit) /\ CommitEnds(TRUE) /\ UNCHANGED <<commits, session, headAt>>
     \/ /\ index # Tree(HeadCommit) /\ (index \ Tree(HeadCommit)) \cap BigEdits # {}
        /\ CommitEnds(TRUE) /\ UNCHANGED <<commits, session, headAt>>
     \/ /\ index # Tree(HeadCommit) /\ (index \ Tree(HeadCommit)) \cap BigEdits = {} /\ ~unmerged
        /\ Commits(commit.step, index) /\ HeadMoves /\ CommitAt("sha") /\ UNCHANGED gaveUp
  /\ UNCHANGED <<head, work, index, unmerged, waiting, steps, faults, cutAcross, Else>>

\* git rev-parse HEAD, whatever it is by now.
ReadsSha ==
  /\ commit.at = "sha" /\ head # "gone"
  /\ steps' = [steps EXCEPT ![commit.step] = HeadCommit] /\ CommitEnds(TRUE)
  /\ UNCHANGED <<commits, session, treeVars, waiting, faults, cutAcross, Else>>

\* A command fails: the queue logs it and goes on.
CommitFails ==
  /\ commit.at # "idle" /\ CommitEnds(FALSE)
  /\ \/ commit.at = "commit" /\ unmerged /\ UNCHANGED faults
     \/ faults < MaxGitFaults /\ faults' = faults + 1
  /\ UNCHANGED <<commits, session, treeVars, waiting, steps, cutAcross, Else>>

-----------------------------------------------------------------------------
(* Requests. *)

TrackAsked == requests < MaxTrackAsked /\ requests' = requests + 1

\* rollback: git reset --hard, at once; files git does not know stay.
Rollback(sha) ==
  /\ Tracked /\ TrackAsked /\ sha \in commits[HeadCommit].past
  /\ \E kept \in SUBSET (work \ (index \cup Tree(HeadCommit))) :
       /\ work' = Tree(sha) \cup kept
       /\ undone' = [edits |-> undone.edits \cup (work \ work') \cup (Tree(HeadCommit) \ work'),
                     commits |-> undone.commits \cup (commits[HeadCommit].past \ commits[sha].past)]
  /\ index' = Tree(sha) /\ unmerged' = FALSE /\ CutsAcross
  /\ IF head = "session" THEN session' = sha /\ UNCHANGED headAt
     ELSE headAt' = sha /\ UNCHANGED session
  /\ UNCHANGED <<tracker, commits, target, head, waiting, commit, steps, squash, ending, retries,
                 edits, faults, due, gaveUp, dropped, stuck, strayed>>

\* branchRetry: another worktree, then it is noted.
RetryBegins ==
  /\ Tracked /\ ~retries.adding /\ TrackAsked
  /\ retries' = [retries EXCEPT !.there = @ + 1, !.adding = TRUE]
  /\ UNCHANGED <<tracker, commits, session, target, treeVars, waiting, commit, steps, squash,
                 ending, edits, faults, histories>>
RetryEnds ==
  /\ retries.adding /\ retries' = [retries EXCEPT !.known = @ + 1, !.adding = FALSE]
  /\ strayed' = (strayed \/ ending # "no" \/ head = "gone")
  /\ UNCHANGED <<tracker, commits, session, target, treeVars, waiting, commit, steps, squash,
                 ending, edits, requests, faults, cutAcross, undone, due, gaveUp, dropped, stuck>>

\* The user commits on the target branch in a tree of the user's own.
UserCommits ==
  /\ session # 0 /\ TrackAsked
  /\ commits' = Append(commits, [past |-> commits[target].past \cup {Len(commits) + 1},
                                 tree |-> Tree(target), step |-> ByUser])
  /\ target' = Len(commits')
  /\ dropped' = IF squash.at \in {"detach", "merge", "commit", "sha", "update"}
                THEN dropped \cup {Len(commits')} ELSE dropped
  /\ UNCHANGED <<tracker, session, treeVars, waiting, commit, steps, squash, ending, retries,
                 edits, faults, cutAcross, undone, due, gaveUp, stuck, strayed>>

-----------------------------------------------------------------------------
(* squashMerge *)

SquashAt(at) == squash' = [squash EXCEPT !.at = at]
SquashElse == <<tracker, waiting, commit, steps, ending, retries, edits, requests, undone, due,
            gaveUp, dropped, stuck, strayed>>

\* It waits for the commits queued so far; steps are numbered as queued.
SquashBegins ==
  /\ Tracked /\ squash.at = "idle" /\ TrackAsked
  /\ squash' = [NoSquash EXCEPT !.at = "wait", !.upto = Len(steps)]
  /\ UNCHANGED <<tracker, commits, session, target, treeVars, waiting, commit, steps, ending,
                 retries, edits, faults, histories>>

\* git rev-parse of the target.
SquashResolves ==
  /\ squash.at = "wait" /\ (commit.at = "idle" \/ commit.step > squash.upto)
  /\ \A i \in DOMAIN waiting : waiting[i] > squash.upto
  /\ squash' = [squash EXCEPT !.at = "detach", !.base = target]
  /\ UNCHANGED <<commits, session, target, treeVars, faults, cutAcross, SquashElse>>

SquashDetaches ==
  /\ squash.at = "detach" /\ ChecksOut("detached", squash.base) /\ SquashAt("merge") /\ CutsAcross
  /\ UNCHANGED <<commits, session, target, faults, SquashElse>>

\* git merge --squash refuses when something is staged, and may conflict.
SquashMerges ==
  /\ squash.at = "merge" /\ head # "gone" /\ ~unmerged /\ index = Tree(HeadCommit) /\ CutsAcross
  /\ index' = index \cup Tree(session) /\ work' = work \cup Tree(session)
  /\ \/ SquashAt("commit") /\ UNCHANGED <<unmerged, faults>>
     \/ /\ SquashAt("restore") /\ unmerged' = TRUE
        /\ faults < MaxGitFaults /\ faults' = faults + 1
  /\ UNCHANGED <<commits, session, target, head, headAt, SquashElse>>

SquashCommits ==
  /\ squash.at = "commit" /\ head # "gone" /\ ~unmerged /\ index # Tree(HeadCommit) /\ CutsAcross
  /\ Commits(0, index) /\ HeadMoves /\ SquashAt("sha")
  /\ UNCHANGED <<target, head, work, index, unmerged, faults, SquashElse>>

SquashReads ==
  /\ squash.at = "sha" /\ head # "gone"
  /\ squash' = [squash EXCEPT !.at = "update", !.made = HeadCommit]
  /\ UNCHANGED <<commits, session, target, treeVars, faults, cutAcross, SquashElse>>

\* git update-ref, in the project, without the old value.
SquashUpdates ==
  /\ squash.at = "update" /\ target' = squash.made /\ SquashAt("restore")
  /\ UNCHANGED <<commits, session, treeVars, faults, cutAcross, SquashElse>>

\* A command that cannot be done, or fails, goes to the finally clause.
SquashFails ==
  /\ squash.at \in {"detach", "merge", "commit", "sha"}
  /\ \/ head = "gone" /\ UNCHANGED faults
     \/ squash.at = "detach" /\ MayRefuse(squash.base) /\ UNCHANGED faults
     \/ squash.at = "merge" /\ (unmerged \/ index # Tree(HeadCommit)) /\ UNCHANGED faults
     \/ squash.at = "commit" /\ (unmerged \/ index = Tree(HeadCommit)) /\ UNCHANGED faults
     \/ faults < MaxGitFaults /\ faults' = faults + 1
  /\ SquashAt("restore")
  /\ UNCHANGED <<commits, session, target, treeVars, cutAcross, SquashElse>>

\* Variant for mutation testing: the worktree stays where it is.
SquashRestoresNot ==
  /\ squash.at = "restore" /\ squash' = NoSquash
  /\ UNCHANGED <<commits, session, target, treeVars, faults, cutAcross, SquashElse>>

\* git checkout of the session's branch; that it fails is not noticed.
SquashRestores ==
  /\ squash.at = "restore" /\ squash' = NoSquash
  /\ \/ ChecksOut("session", session) /\ CutsAcross /\ UNCHANGED stuck
     \/ MayRefuse(session) /\ stuck' = TRUE /\ UNCHANGED <<treeVars, cutAcross>>
  /\ UNCHANGED <<commits, session, target, faults, tracker, waiting, commit, steps, ending,
                 retries, edits, requests, undone, due, gaveUp, dropped, strayed>>

-----------------------------------------------------------------------------
(* The end of the session: onEnded, or shutdown. *)

Ending == <<tracker, waiting, commit, squash, edits, requests, faults, cutAcross, undone, due,
            gaveUp, dropped, stuck, strayed, target>>

SessionEnds ==
  /\ tracker # "none" /\ ending = "no"
  /\ ending' = IF tracker = "git" THEN "flush" ELSE "over"
  /\ UNCHANGED <<commits, session, treeVars, steps, retries, Ending>>

\* flushPendingCommits: nothing is queued after it.
Flushed ==
  /\ ending = "flush" /\ waiting = << >> /\ commit.at = "idle" /\ ending' = "log"
  /\ UNCHANGED <<commits, session, treeVars, steps, retries, Ending>>

\* writeStepLog: a file, staged and committed with what is staged.
WritesLog ==
  /\ ending = "log" /\ ending' = "remove"
  /\ \/ /\ ~unmerged /\ Commits(Logged, index \cup {0}) /\ HeadMoves
        /\ work' = work \cup {0} /\ index' = index \cup {0}
     \/ unmerged /\ UNCHANGED <<commits, session, headAt, work, index>>
  /\ UNCHANGED <<head, unmerged, steps, retries, Ending>>

\* The worktrees that are known go, with whatever was not committed, and the
\* session is forgotten.
RemovesWorktrees ==
  /\ ending = "remove" /\ ending' = "over"
  /\ retries' = [retries EXCEPT !.there = @ - retries.known, !.known = 0]
  /\ head' = "gone" /\ headAt' = 0 /\ work' = {} /\ index' = {} /\ unmerged' = FALSE
  /\ UNCHANGED <<commits, session, steps, Ending>>

\* The session is resumed under its id, once.
Resumes ==
  /\ ending = "over" /\ tracker = "git" /\ squash.at = "idle" /\ ~retries.adding
  /\ tracker' = "none"
  /\ UNCHANGED <<commits, session, target, treeVars, waiting, commit, steps, squash, ending,
                 retries, edits, requests, faults, histories>>

TrackNext ==
  \/ SetupTracker \/ AgentEdits \/ AgentSwitches \/ ToolCompletes
  \/ BeginsCommit \/ LooksAtBranch \/ StagesAll \/ CommitsStep \/ ReadsSha \/ CommitFails
  \/ RetryBegins \/ RetryEnds \/ UserCommits \/ (\E sha \in DOMAIN commits : Rollback(sha))
  \/ SquashBegins \/ SquashResolves \/ SquashDetaches \/ SquashMerges \/ SquashCommits
  \/ SquashReads \/ SquashUpdates \/ SquashFails \/ SquashRestores
  \/ SessionEnds \/ Flushed \/ WritesLog \/ RemovesWorktrees \/ Resumes

TrackSpec == TrackInit /\ [][TrackNext]_trackVars

-----------------------------------------------------------------------------
TrackTypeOK ==
  /\ tracker \in {"none", "git", "noop"} /\ head \in {"session", "detached", "gone"}
  /\ session \in 0 .. Len(commits) /\ target \in 1 .. Len(commits)
  /\ commit.at \in {"idle", "branch", "add", "commit", "sha"}
  /\ squash.at \in {"idle", "wait", "detach", "merge", "commit", "sha", "update", "restore"}
  /\ ending \in {"no", "flush", "log", "remove", "over"}
  /\ retries.known <= retries.there /\ edits \in 0 .. MaxEdits

(* A step names the commit made for it and that commit is on the session's
   branch, until a rollback drops it, unless a rollback or a squash ran in
   the midst of committing it. *)
StepsNameCommits ==
  \A k \in DOMAIN steps \ cutAcross : steps[k] # 0 =>
    /\ commits[steps[k]].step = k
    /\ steps[k] \in commits[session].past \cup undone.commits

(* With nothing under way, every edit that was there when a commit was queued
   is committed on the session's branch, whatever was rolled back, retried
   and squashed, unless it was rolled back itself, an edit too large is among
   those staged, or a commit was given up because the worktree was on
   another branch or git failed. *)
QueuedIsCommitted ==
  /\ waiting = << >> /\ commit.at = "idle" /\ squash.at = "idle" /\ session # 0 /\ cutAcross = {}
  => \/ gaveUp \/ due \cap BigEdits # {} \/ \E e \in BigEdits : e <= edits
     \/ due \subseteq Tree(session) \cup undone.edits

(* Squashing loses nothing of the branch it goes to, apart from commits made
   or rolled back while it runs, and puts there what was committed in the session and
   nothing that was not. *)
TargetHolds ==
  /\ \A c \in DOMAIN commits \ dropped : commits[c].step = ByUser =>
       c \in commits[target].past \cup undone.commits
  /\ cutAcross = {} => \A e \in Tree(target) : \E c \in DOMAIN commits :
       e \in Tree(c) /\ (commits[c].step > 0 \/ commits[c].step = Logged)

(* Between requests, and before the end, the worktree is on the session's branch with all edits
   in it that were not rolled back, unless git refused to go back there. *)
WorktreeReturns ==
  /\ Tracked /\ ending = "no" /\ squash.at = "idle" /\ faults = 0 /\ cutAcross = {} /\ ~stuck
  => head = "session" /\ (1 .. edits) \subseteq work \cup undone.edits

(* The end leaves no worktree of a retry behind, apart from one that was
   made while the session ended. *)
RetriesRemoved == head = "gone" /\ session # 0 /\ ~retries.adding /\ ~strayed => retries.there = 0

TrackingHolds ==
  /\ StepsNameCommits /\ QueuedIsCommitted /\ TargetHolds /\ WorktreeReturns /\ RetriesRemoved
=============================================================================
