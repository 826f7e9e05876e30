--------------------------- MODULE SessionHistory ---------------------------
(***************************************************************************)
(* The transcript of an agent's session as clients see it (discovery/      *)
(* jsonl-entry-parser.ts, jsonl-reader.ts; startup-watchers.ts).  Each     *)
(* line of the session file becomes blocks.  A client pages backwards      *)
(* through them: the file is scanned from its end in chunks, while the     *)
(* agent goes on writing.  The blocks the tailer passes on tell whether    *)
(* the agent waits for a tool.                                             *)
(***************************************************************************)
EXTENDS Integers, SequencesExt

CONSTANTS
  Shapes,      \* the entries the agent writes: [type, items, size]
  MaxLines,    \* bound: lines written
  ChunkSize,   \* DEFAULT_TAIL_CHUNK_SIZE
  MaxScan,     \* DEFAULT_TAIL_SCAN_BYTES
  MaxLine,     \* DEFAULT_TAIL_LINE_BYTES
  PageLimits   \* the page sizes clients ask for

ASSUME HistoryAssumption ==
  /\ MaxLines \in Nat /\ ChunkSize \in Nat \ {0} /\ MaxScan \in Nat /\ MaxLine \in Nat
  /\ PageLimits \subseteq Nat \ {0}
  /\ \A s \in Shapes : s.size \in Nat /\ s.size >= 2

VARIABLES
  entries,   \* the lines of the session file
  written,   \* of the last line: "half", "whole" (without its newline), "line"
  scan,      \* the backward scan under way
  page,      \* the client's pages so far: blocks, offset, hasMoreBefore
  tailed,    \* lines the tailer has read
  linesPassed, \* lines of them it passed on
  pendingToolIds, wasWaiting,
  known,     \* the session's directory is registered
  toldWaiting, \* what clients were told of waiting
  hidden     \* history: a change of waiting was not told

waitVars == <<tailed, linesPassed, pendingToolIds, wasWaiting, known, toldWaiting, hidden>>
historyVars == <<entries, written, scan, page, waitVars>>

-----------------------------------------------------------------------------
(* parseJSONLEntry: the kinds of the blocks an entry becomes.              *)

\* mapClaudeToolUseToRichBlocks.
ToolUse(tool) ==
  CASE tool = "Bash" -> <<"command">>
    [] tool \in {"Agent", "Task"} -> <<"event">>
    [] tool \in {"Edit", "Write", "MultiEdit", "NotebookEdit"} -> <<"file_change">>
    [] OTHER -> <<"tool_use">>

\* mapClaudeTextToRichBlocks: a user's local command is an event; a plan is
\* announced beside its text.
ClaudeText(role, item) ==
  CASE item = "local" /\ role = "user" -> <<"event">>
    [] item = "caveat" /\ role = "user" -> <<>>
    [] item = "plan" -> <<"text", "event">>
    [] OTHER -> <<"text">>

\* parseClaudeEntry, one content block; "report" is a result in which a
\* command of the daemon's own CLI is recognized.
ClaudeItem(role, item) ==
  CASE item \in {"text", "local", "caveat", "plan"} -> ClaudeText(role, item)
    [] item = "thinking" -> <<"thinking">>
    [] item = "result" -> <<"tool_result">>
    [] item = "report" -> <<"tool_result", "event">>
    [] item = "empty" -> <<>>
    [] OTHER -> ToolUse(item)

\* parseCodexEntry (response_item).
CodexItem(item) ==
  CASE item = "message" -> <<"text">>
    [] item = "function_call" -> <<"tool_use">>
    [] item = "function_call_output" -> <<"tool_result">>
    [] item = "reasoning" -> <<"thinking">>
    [] item = "empty" -> <<>>
    [] OTHER -> <<"event">>

\* parseCodexEventMsgEntry.
CodexEvent(item) ==
  CASE item \in {"user_message", "agent_message", "agent_message_delta"} -> <<"text">>
    [] item \in {"exec_command_begin", "exec_command_end"} -> <<"command">>
    [] item = "exec_approval_request" -> <<"approval">>
    [] item = "turn_diff" -> <<"file_change">>
    [] item = "token_count" -> <<"usage">>
    [] item = "empty" -> <<>>
    [] OTHER -> <<"event">>

\* parseProviderMetadataEntry; a type that is missing is no entry.
Metadata(item) == IF item \in {"ai-title", "untitled", "environment"} THEN <<>> ELSE <<"event">>

ParseItem(type, item) ==
  CASE type \in {"user", "assistant"} -> ClaudeItem(type, item)
    [] type = "event_msg" -> CodexEvent(item)
    [] type = "response_item" -> CodexItem(item)
    [] type = "compacted" -> <<"text">>  \* parseCodexCompactedEntry
    [] OTHER -> Metadata(item)

ParseEntry(e) == FlattenSeq([i \in DOMAIN e.items |-> ParseItem(e.type, e.items[i])])

\* The blocks of line k, by place.
BlocksOf(k) == [i \in DOMAIN ParseEntry(entries[k]) |-> <<k, i>>]

-----------------------------------------------------------------------------
(* The file in units: a line's text, then its newline (part 0).            *)

NoScan == [on |-> FALSE, limit |-> 0, offset |-> 0, left |-> 0, scanned |-> 0,
           carry |-> <<>>, out |-> <<>>]
NoPage == [on |-> FALSE, blocks |-> <<>>, offset |-> 0, more |-> TRUE, begun |-> 0,
           grown |-> FALSE, capped |-> FALSE]

LineUnits(k) ==
  LET text == [j \in 1 .. entries[k].size |-> [line |-> k, part |-> j]]
  IN  IF k < Len(entries) \/ written = "line" THEN Append(text, [line |-> k, part |-> 0])
      ELSE IF written = "half" THEN SubSeq(text, 1, 1) ELSE text
Units == FlattenSeq([k \in DOMAIN entries |-> LineUnits(k)])

\* The lines that parse, and all their blocks: readRichSessionMessagesFromFile.
Parses(k) == k < Len(entries) \/ written # "half"
FullRead == FlattenSeq([k \in DOMAIN entries |-> IF Parses(k) THEN BlocksOf(k) ELSE <<>>])

HistoryInit ==
  /\ entries = <<>> /\ written = "line" /\ scan = NoScan /\ page = NoPage
  /\ tailed = 0 /\ linesPassed = {} /\ pendingToolIds = {} /\ wasWaiting = FALSE
  /\ known = FALSE /\ toldWaiting = FALSE /\ hidden = FALSE

-----------------------------------------------------------------------------
(* The agent.                                                              *)

Answers(shape) == "tool_result" \in Range(ParseEntry(shape))

\* A call is named for its line; a result answers one of them.
AgentWrites(shape, call) ==
  /\ written = "line" /\ Len(entries) < MaxLines
  /\ entries' = Append(entries, [type |-> shape.type, items |-> shape.items,
                                 size |-> shape.size, call |-> call])
  /\ written' = "half" /\ page' = [page EXCEPT !.grown = page.on]
  /\ UNCHANGED <<scan, waitVars>>
AgentGoesOn ==
  /\ written # "line" /\ written' = IF written = "half" THEN "whole" ELSE "line"
  /\ page' = [page EXCEPT !.grown = page.on]
  /\ UNCHANGED <<entries, scan, waitVars>>

-----------------------------------------------------------------------------
(* Pages.                                                                  *)

\* readRichSessionMessagesTailPageFromFile: one block more than the page and
\* what is newer than it.
PageBegins(limit) ==
  /\ ~scan.on /\ page.more
  /\ scan' = [NoScan EXCEPT !.on = TRUE, !.limit = limit + page.offset + 1,
                            !.offset = page.offset, !.left = Len(Units)]
  /\ page' = IF page.on THEN page
             ELSE [page EXCEPT !.on = TRUE, !.begun = Len(FullRead)]
  /\ UNCHANGED <<entries, written, waitVars>>

\* pushTailLineBlocks: a line that is empty, torn or too long gives nothing.
LineBlocks(text) ==
  IF /\ text # <<>> /\ text[1].part = 1 /\ Len(text) = entries[text[1].line].size
     /\ Len(text) <= MaxLine
  THEN BlocksOf(text[1].line) ELSE <<>>

\* The lines after the first newline, newest first, as blocks, newest first.
BlocksBackwards(data) ==
  LET ends == SelectSeq([i \in DOMAIN data |-> i], LAMBDA i : data[i].part = 0)
      until(n) == IF n = Len(ends) THEN Len(data) ELSE ends[n + 1] - 1
  IN  Reverse(FlattenSeq([n \in DOMAIN ends |->
                LineBlocks(SubSeq(data, ends[n] + 1, until(n)))]))

\* Variant for mutation testing: what is left before the first newline of a
\* chunk is forgotten when the chunk holds none.
BeforeNewlineForgets(data) ==
  IF \E i \in DOMAIN data : data[i].part = 0
  THEN SelectSeq(data, LAMBDA u : u.line = data[1].line /\ u.part # 0) ELSE <<>>

\* carry.
BeforeNewline(data) ==
  IF data[1].part = 0 THEN <<>>
  ELSE SelectSeq(data, LAMBDA u : u.line = data[1].line /\ u.part # 0)

UpTo(limit, blocks) == SubSeq(blocks, 1, IF Len(blocks) < limit THEN Len(blocks) ELSE limit)

Scanning ==
  scan.on /\ scan.left > 0 /\ Len(scan.out) < scan.limit /\ scan.scanned < MaxScan

ChunkRead ==
  LET rest == {ChunkSize, scan.left, MaxScan - scan.scanned}
      n == CHOOSE i \in rest : \A j \in rest : i <= j
      data == SubSeq(Units, scan.left - n + 1, scan.left) \o scan.carry
  IN  /\ Scanning
      /\ scan' = [scan EXCEPT !.left = @ - n, !.scanned = @ + n, !.carry = BeforeNewline(data),
                              !.out = UpTo(scan.limit, @ \o BlocksBackwards(data))]
      /\ UNCHANGED <<entries, written, page, waitVars>>

\* pageFromTailMessages.
PageOf(tail, limit, offset) ==
  LET older == SubSeq(tail, 1, Len(tail) - offset)
      blocks == SubSeq(older, IF Len(older) > limit THEN Len(older) - limit + 1 ELSE 1, Len(older))
  IN  [blocks |-> blocks, next |-> offset + Len(blocks), more |-> Len(older) > Len(blocks)]

PageEnds ==
  LET whole == scan.left = 0 /\ Len(scan.out) < scan.limit /\ scan.carry # <<>>
      out == IF whole THEN UpTo(scan.limit, scan.out \o Reverse(LineBlocks(scan.carry)))
                      ELSE scan.out
      p == PageOf(Reverse(out), scan.limit - scan.offset - 1, scan.offset)
  IN  /\ scan.on /\ ~Scanning /\ scan' = NoScan
      /\ page' = [page EXCEPT !.blocks = p.blocks \o @, !.offset = p.next, !.more = p.more,
                    !.capped = @ \/ (scan.left > 0 /\ Len(out) < scan.limit)]
      /\ UNCHANGED <<entries, written, waitVars>>

-----------------------------------------------------------------------------
(* Waiting.                                                                *)

IsCall(k) == "tool_use" \in Range(ParseEntry(entries[k]))
IsResult(k) == "tool_result" \in Range(ParseEntry(entries[k]))

\* processFileChange with the lines the tailer returns, of which the first
\* may have been dropped (SessionTail).
TailReads(dropped) ==
  LET end == IF written = "line" THEN Len(entries) ELSE Len(entries) - 1
      new == (tailed + 1 + dropped) .. end
      ids == (pendingToolIds \cup {k \in new : IsCall(k)})
               \ {entries[k].call : k \in {i \in new : IsResult(i)}}
  IN  /\ tailed < end /\ (dropped = 0 \/ tailed > 0) /\ tailed' = end
      /\ linesPassed' = linesPassed \cup new /\ pendingToolIds' = ids /\ wasWaiting' = (ids # {})
      /\ toldWaiting' = IF known /\ wasWaiting' # wasWaiting THEN wasWaiting' ELSE toldWaiting
      /\ hidden' = IF wasWaiting' # wasWaiting THEN ~known ELSE hidden
      /\ UNCHANGED <<entries, written, scan, page, known>>

\* A discovery registers the directory.
DirectoryRegistered ==
  /\ ~known /\ known' = TRUE
  /\ UNCHANGED <<entries, written, scan, page, tailed, linesPassed, pendingToolIds, wasWaiting,
                 toldWaiting, hidden>>

HistoryNext ==
  \/ \E s \in Shapes : \E call \in IF Answers(s) THEN 1 .. Len(entries) ELSE {0} :
       AgentWrites(s, call)
  \/ AgentGoesOn
  \/ \E limit \in PageLimits : PageBegins(limit)
  \/ ChunkRead \/ PageEnds
  \/ \E d \in {0, 1} : TailReads(d)
  \/ DirectoryRegistered

HistorySpec == HistoryInit /\ [][HistoryNext]_historyVars

-----------------------------------------------------------------------------
HistoryTypeOK ==
  /\ Len(entries) <= MaxLines /\ written \in {"half", "whole", "line"}
  /\ scan.scanned <= MaxScan /\ scan.on => Len(scan.out) <= scan.limit
  /\ tailed \in 0 .. Len(entries) /\ linesPassed \subseteq 1 .. tailed
  /\ pendingToolIds \subseteq linesPassed

\* What a scan can find: the blocks of the lines that are not too long.
Found == SelectSeq(FullRead, LAMBDA b : entries[b[1]].size <= MaxLine)

(* Paging backwards from the newest block shows the transcript: as long as
   the file does not change, the pages together are its newest blocks, each
   once and in order, however lines fall on chunks; if it grows meanwhile,
   pages overlap but leave out nothing that was there at the first one; and
   "no more" is said only when everything is shown, unless the scan met its
   limit of bytes.  And clients are shown "waiting" exactly while a tool call
   passed on has no result passed on, unless the last change was not told
   because the directory was not known yet. *)
HistoryFaithful ==
  /\ page.on /\ ~scan.on /\ ~page.grown =>
       /\ IsSuffix(page.blocks, Found)
       /\ page.more => Len(page.blocks) < Len(Found)
  /\ page.on /\ ~scan.on /\ ~page.capped =>
       LET seen == {i \in DOMAIN Found : Found[i] \in Range(page.blocks)}
           there == {i \in DOMAIN Found : \E j \in 1 .. page.begun : FullRead[j] = Found[i]}
       IN  /\ \A i \in seen, j \in there : i < j => j \in seen
           /\ ~page.more => there \subseteq seen
  /\ LET answered(k) == \E r \in linesPassed : IsResult(r) /\ entries[r].call = k
         waits == \E k \in linesPassed : IsCall(k) /\ ~answered(k)
     IN  ~hidden => toldWaiting = waits
=============================================================================
