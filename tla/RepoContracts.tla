---------------------------- MODULE RepoContracts ----------------------------
(***************************************************************************)
(* The contract of a repository: the .viewport files of the working        *)
(* directory, of the directories above it and of its children.  A resolver *)
(* reads the nearest file, or the children's when that is no resource      *)
(* file, and merges what it reads, the first to name an id winning.        *)
(* `vpd context use` and `use-github` attach a provider to the nearest     *)
(* YAML file: each reads it, and later truncates and rewrites it, with no  *)
(* lock; then it resolves the contract again and reports it.               *)
(***************************************************************************)
EXTENDS Integers, Sequences, FiniteSets, SequencesExt

CONSTANTS
  ChildRepos,       \* the child directories, in the order of their names
  MaxChildConfigs,  \* children read when nothing is nearer (5)
  MaxListed,        \* providers a file may list (50)
  Attachables,      \* what commands attach: [kind, of, base]
  AttachOptions,    \* their flags: [named, required, guide]
  Attachers,        \* commands running at a time
  InitialFiles,     \* the files a history starts from
  MaxAttaches       \* bound: commands started

ASSUME ContractsAssumption ==
  /\ ChildRepos \subseteq Nat \ {0} /\ IsFiniteSet(ChildRepos)
  /\ MaxChildConfigs \in Nat \ {0} /\ MaxListed \in Nat \ {0} /\ MaxAttaches \in Nat

\* The working directory, the one above it, and the children.
Here == 0
Up == -1
Dirs == {Here, Up} \cup ChildRepos
Paths == Dirs \X {"yaml", "json"}

\* A provider's id is a name and the suffix that made it unique; 1 is none.
Entry(what, id, required, guide) ==
  [id |-> id, kind |-> what.kind, of |-> what.of, required |-> required, guide |-> guide]

\* "empty" parses to nothing, "bad" not at all, "invalid" against the schema,
\* "plain" has none of the sections that make a resource file.
File(kind, providers, contexts, visibility) ==
  [kind |-> kind, providers |-> providers, contexts |-> contexts, visibility |-> visibility]
NoFile == File("absent", << >>, << >>, "none")
EmptyFile == File("empty", << >>, << >>, "none")

VARIABLES
  contracts,   \* the files
  readdir,     \* the children in the order the directory lists them
  attaching,   \* the commands
  attaches,    \* commands started
  \* history:
  attached,    \* what completed commands reported: <<path, id>>
  lostAttach,   \* a command wrote over what another had written since its read
  suffixed     \* a vault was attached under an id with a suffix

contractVars == <<contracts, readdir, attaching, attaches, attached, lostAttach, suffixed>>

-----------------------------------------------------------------------------
\* Resolution.

Exists(p) == contracts[p].kind # "absent"
FirstExisting(paths) ==
  LET found == SelectSeq(paths, Exists) IN IF found = << >> THEN << >> ELSE <<Head(found)>>
InDir(d) == <<<<d, "yaml">>, <<d, "json">>>>

\* A file that cannot be read or parsed counts as a resource file.
IsResource(p) == contracts[p].kind \in {"bad", "invalid", "config"}

ByName(s) == SortSeq(s, LAMBDA p, q : p[1] < q[1])
ChildConfigs ==
  SelectSeq(FlattenSeq([i \in DOMAIN readdir |-> FirstExisting(InDir(readdir[i]))]), IsResource)

Discovered ==
  LET nearest == FirstExisting(InDir(Here) \o InDir(Up)) IN
  IF nearest # << >> /\ IsResource(Head(nearest)) THEN nearest
  ELSE ByName(SubSeq(ChildConfigs, 1,
                IF Len(ChildConfigs) > MaxChildConfigs THEN MaxChildConfigs
                ELSE Len(ChildConfigs)))

Parses(p) == contracts[p].kind \in {"plain", "config"}
Parsed == LET read == SelectSeq(Discovered, Parses) IN
          [i \in DOMAIN read |-> contracts[read[i]]]

FirstById(s) ==
  FoldLeft(LAMBDA kept, x : IF \E i \in DOMAIN kept : kept[i].id = x.id THEN kept
                            ELSE Append(kept, x), << >>, s)

VaultContexts(providers) ==
  LET vaults == SelectSeq(providers, LAMBDA p : p.kind = "vault") IN
  [i \in DOMAIN vaults |-> [id |-> vaults[i].of, required |-> vaults[i].required]]

Warnings ==
  (IF Len(Discovered) = 1 /\ Head(Discovered)[1] \in {Here, Up} THEN {}
   ELSE IF Len(ChildConfigs) > MaxChildConfigs THEN {"too_many_configs_found"}
   ELSE IF Len(Discovered) > 1 THEN {"multiple_configs_found"}
   ELSE IF Discovered = << >> THEN {"no_config_found"} ELSE {})
  \cup (IF \E i \in DOMAIN Discovered : ~Parses(Discovered[i]) THEN {"invalid_config_skipped"}
        ELSE {})

\* Defaults that files disagree on are left to the user.
Conflicted == Cardinality({f.visibility : f \in Range(Parsed)} \ {"none"}) > 1

Manifest ==
  [providers |-> FirstById(FlattenSeq([i \in DOMAIN Parsed |-> Parsed[i].providers])),
   contexts  |-> FirstById(FlattenSeq([i \in DOMAIN Parsed |->
                   Parsed[i].contexts \o VaultContexts(Parsed[i].providers)])),
   conflict  |-> Conflicted,
   warnings  |-> Warnings]

-----------------------------------------------------------------------------
\* Attaching.

\* The nearest YAML file; a JSON file is passed over.
NearestYaml ==
  IF ~Exists(<<Here, "yaml">>) /\ Exists(<<Up, "yaml">>) THEN <<Up, "yaml">>
  ELSE <<Here, "yaml">>

IndexOf(providers, id) == {i \in DOMAIN providers : providers[i].id = id}

\* A vault attached before keeps its id; a repository never does.
NextProviderId(providers, what) ==
  LET base == <<what.base, 1>>
      free == {n \in 2..(MaxListed + 2) : IndexOf(providers, <<what.base, n>>) = {}}
  IN IF \A i \in IndexOf(providers, base) :
          what.kind = "vault" /\ providers[i].kind = "vault" /\ providers[i].of = what.of
     THEN base
     ELSE <<what.base, CHOOSE n \in free : \A m \in free : n <= m>>

\* An id already used: for the same vault only, or for any repository, which
\* is then replaced.
Refuses(current, what) ==
  \/ current.kind # what.kind
  \/ what.kind = "vault" /\ current.of # what.of

Updated(current, entry) ==
  [entry EXCEPT !.guide = IF entry.guide THEN TRUE ELSE current.guide]

NoCommand == [at |-> "idle"]
InFlight(w) == attaching[w].at \in {"read", "cut", "wrote"}

\* The rest of a command once its file is read: nothing, a refusal, or a list
\* to write.  The file is validated before it is opened.
DecidesAttach(w, path, what, entry) ==
  LET existing == contracts[path].providers
      same == IndexOf(existing, entry.id)
      i == CHOOSE j \in same : \A k \in same : j <= k
      next == IF same = {} THEN Append(existing, entry)
              ELSE [existing EXCEPT ![i] = Updated(existing[i], entry)]
      command == [at |-> "read", path |-> path, entry |-> entry, next |-> next,
                  eclipses |-> path \notin Range(Discovered), before |-> Manifest.providers,
                  others |-> contracts[path], crossed |-> FALSE, result |-> Manifest]
  IN attaching' = [attaching EXCEPT ![w] =
       IF (same # {} /\ Refuses(existing[i], what)) \/ Len(next) > MaxListed
         THEN [at |-> "refused"]
       ELSE IF next = existing THEN [command EXCEPT !.at = "done"]
       ELSE command]

\* contextVaultUse, contextGitHubUse: with --provider or without.  A file
\* another command has just truncated does not validate.
Attaches(w) ==
  /\ ~InFlight(w) /\ attaches < MaxAttaches /\ attaches' = attaches + 1
  /\ \E what \in Attachables, flags \in AttachOptions :
       LET path == NearestYaml
           id == IF flags.named THEN <<"named", 1>>
                 ELSE NextProviderId(contracts[path].providers, what)
       IN IF contracts[path].kind \in {"absent", "plain", "config"}
            THEN /\ DecidesAttach(w, path, what, Entry(what, id, flags.required, flags.guide))
                 /\ suffixed' = (suffixed \/ (what.kind = "vault" /\ id # <<what.base, 1>>))
            ELSE /\ attaching' = [attaching EXCEPT ![w] = [at |-> "refused"]]
                 /\ UNCHANGED suffixed
  /\ UNCHANGED <<contracts, readdir, attached, lostAttach>>

Crosses(w) ==
  [v \in Attachers |-> IF v # w /\ InFlight(v) THEN [attaching[v] EXCEPT !.crossed = TRUE]
                       ELSE attaching[v]]

\* fs.writeFile: the file is truncated, then filled.
TruncatesContract(w) ==
  /\ attaching[w].at = "read"
  /\ contracts' = [contracts EXCEPT ![attaching[w].path] = EmptyFile]
  /\ attaching' = [Crosses(w) EXCEPT ![w].at = "cut"]
  /\ UNCHANGED <<readdir, attaches, attached, lostAttach, suffixed>>

FillsContract(w) ==
  LET c == attaching[w] IN
  /\ c.at = "cut"
  /\ contracts' = [contracts EXCEPT ![c.path] =
       [c.others EXCEPT !.kind = "config", !.providers = c.next]]
  /\ lostAttach' = (lostAttach \/ c.crossed)
  /\ attaching' = [Crosses(w) EXCEPT ![w].at = "wrote"]
  /\ UNCHANGED <<readdir, attaches, attached, suffixed>>

\* The command resolves the contract and reports it.
Reports(w) ==
  /\ attaching[w].at = "wrote"
  /\ attaching' = [attaching EXCEPT ![w].at = "done", ![w].result = Manifest]
  /\ attached' = attached \cup {<<attaching[w].path, attaching[w].entry.id>>}
  /\ UNCHANGED <<contracts, readdir, attaches, lostAttach, suffixed>>

ContractInit ==
  /\ contracts \in InitialFiles
  /\ readdir \in SetToAllKPermutations(ChildRepos)
  /\ Len(readdir) = Cardinality(ChildRepos)
  /\ attaching = [w \in Attachers |-> NoCommand] /\ attaches = 0
  /\ attached = {} /\ lostAttach = FALSE /\ suffixed = FALSE

ContractNext == \E w \in Attachers : Attaches(w) \/ TruncatesContract(w) \/ FillsContract(w) \/ Reports(w)

-----------------------------------------------------------------------------
ContractTypeOK ==
  /\ \A p \in Paths : Len(contracts[p].providers) <= MaxListed
  /\ \A w \in Attachers : attaching[w].at \in
       {"idle", "refused", "read", "cut", "wrote", "done"}
  /\ attaches \in 0..MaxAttaches /\ lostAttach \in BOOLEAN /\ suffixed \in BOOLEAN

Shows(providers, e) ==
  \E i \in DOMAIN providers :
    providers[i].id = e.id /\ providers[i].kind = e.kind /\ providers[i].of = e.of

\* Commands that ended with nobody writing in between.
Undisturbed == {w \in Attachers : attaching[w].at = "done" /\ ~attaching[w].crossed}
Shadowed(c) == c.path[1] = Up /\ Exists(<<Here, "json">>)

(* The contract a command reports holds what it attached, unless a JSON file
   stands nearer than the YAML file it wrote. *)
AttachedIsSeen ==
  \A w \in Undisturbed :
    Shadowed(attaching[w]) \/ Shows(attaching[w].result.providers, attaching[w].entry)

(* Attaching takes nothing away from the contract but the repository its own
   id stood for, if the resolver read that file before; if not, the file now
   hides all that was read. *)
AttachKeeps ==
  \A w \in Undisturbed :
    LET c == attaching[w] IN
    IF c.eclipses /\ ~Shadowed(c) THEN c.result.providers = c.next
    ELSE \A i \in DOMAIN c.before :
           c.before[i].id = c.entry.id \/ Shows(c.result.providers, c.before[i])

(* A file names an id once; a vault once, unless its name was taken; and what
   commands reported stays in the file, unless two of them overlapped. *)
FilesKeepAttachments ==
  /\ \A p \in Paths :
       LET l == contracts[p].providers IN
       \A i, j \in DOMAIN l : i # j =>
         /\ l[i].id # l[j].id
         /\ l[i].kind = "vault" /\ l[j].kind = "vault" /\ l[i].of = l[j].of => suffixed
  /\ \A a \in attached :
       lostAttach \/ contracts[a[1]].kind = "empty" \/ IndexOf(contracts[a[1]].providers, a[2]) # {}

(* A contract that is empty because nothing could be read says so. *)
NeverEmptySilently == Parsed = << >> => Manifest.warnings # {}

(* What the commands attach is in the contract, and what was there stays. *)
ContractsHold == AttachedIsSeen /\ AttachKeeps /\ FilesKeepAttachments /\ NeverEmptySilently
=============================================================================
