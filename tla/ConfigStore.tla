----------------------------- MODULE ConfigStore -----------------------------
(***************************************************************************)
(* config.json and who writes it (core/config.ts): the commands that pair, *)
(* log in and out and set up a worker (cli/remote-commands.ts,             *)
(* cli/lifecycle-pair-server.ts, cli/worker-profile.ts), a relay bridge    *)
(* that has registered its key (relay/bridge-daemon-key-registration.ts)   *)
(* and the daemon's directories (directories/manager.ts).  Each loads the  *)
(* whole file, changes its copy and writes the file whole, in place; the   *)
(* daemon's own copy is as old as the daemon.  An optional second file     *)
(* overrides the daemon's settings and then takes their changes.           *)
(*                                                                         *)
(* A value that may be missing is a set of at most one element; a token is *)
(* the account, a workspace at a server, that it was issued for.           *)
(***************************************************************************)
EXTENDS Integers, Sequences, SequencesExt, TLC

CONSTANTS Accounts, FirstAccount, ConfigDirs, MaxConfigCommands

ASSUME FirstAccountKnown == FirstAccount \in Accounts

VARIABLES
  global,      \* ~/.viewport/config.json: [daemon, dirs], or Torn
  override,    \* the daemon settings of the override file, or Torn
  overriding,  \* an override file is in use
  memory,      \* the copy of the daemon's ConfigManager: [daemon, dirs]
  bridges,     \* the accounts the daemon started bridges for
  writing,     \* per writer: its command, the copies it loaded, what it writes
  wanted,      \* history: what the commands that succeeded asked for
  lastSeen,        \* history: the two files as the daemon last loaded or wrote them
  stale,       \* history: a copy was written over newer content
  shadowed,    \* history: a value deleted from the override is in global too
  revived,     \* history: accounts logged out of that were seeded again
  crossed,     \* history: an account was stored without a token of its own
  cut,         \* history: a process ended while it wrote
  given        \* how many commands were given

configVars == <<global, override, overriding, memory, bridges, writing, wanted, lastSeen,
                stale, shadowed, revived, crossed, cut, given>>

Only1(s) == CHOOSE x \in s : TRUE
Workspace(a) == a[1]
Writers == {"cli", "bridge", "daemon"}
ConfigTorn == [torn |-> TRUE]
NoSettings == [primary |-> {}, token |-> {}, enabled |-> {}, bindings |-> {}, worker |-> {}]
NotWriting == [pc |-> "idle"]

Paired(a) ==
  [primary |-> {a}, token |-> {a}, enabled |-> {TRUE},
   bindings |-> {<<[acct |-> a, token |-> {a}, on |-> TRUE]>>}, worker |-> {}]

\* deepMerge: what the override has wins, field by field.
ConfigMerged(g, o) == [f \in DOMAIN g |-> IF o[f] # {} THEN o[f] ELSE g[f]]
Settings == ConfigMerged(global.daemon, override)
ConfigReadable == global # ConfigTorn /\ override # ConfigTorn
Bindings(s) == IF s.bindings = {} THEN << >> ELSE Only1(s.bindings)
Held(s) == {b.acct : b \in Range(Bindings(s))}

\* The binding that the relay's own fields are.
OwnSettings(s, on) == [acct |-> Only1(s.primary), token |-> s.token, on |-> on]

\* resolveRelayLaunchBindings, relayRuntimeBindings: the bindings, or the one
\* of the relay's own fields; a binding without its token is not started.
Launched(s) ==
  LET own == IF Bindings(s) = << >> /\ s.primary # {}
             THEN {OwnSettings(s, TRUE)} ELSE Range(Bindings(s))
  IN IF s.enabled = {TRUE} THEN {b.acct : b \in {c \in own : c.on /\ c.token # {}}} ELSE {}

ConfigInit ==
  /\ overriding \in BOOLEAN
  /\ \E s \in {NoSettings, Paired(FirstAccount)} :
       /\ global = [daemon |-> s, dirs |-> {}] /\ memory = [daemon |-> s, dirs |-> {}]
       /\ bridges = Launched(s)
       /\ wanted = [accounts |-> Held(s), worker |-> {}, dirs |-> {}]
  /\ override = NoSettings /\ lastSeen = <<global, override>>
  /\ writing = [p \in Writers |-> NotWriting]
  /\ stale = FALSE /\ shadowed = FALSE /\ revived = {} /\ crossed = FALSE
  /\ cut = FALSE /\ given = 0

---------------------------------------------------------------------------
(* What the commands make of the settings they loaded. *)

\* seedRelayBindings: the relay's own fields are a binding too.
Seeded(s) ==
  IF s.primary = {} \/ \E b \in Range(Bindings(s)) : b.acct = Only1(s.primary)
  THEN Bindings(s)
  ELSE <<OwnSettings(s, s.enabled # {FALSE})>> \o Bindings(s)

SameWorkspace(bs, a) == {i \in DOMAIN bs : Workspace(bs[i].acct) = Workspace(a)}

\* upsertRelayBinding: the binding of that account, or the first one of its
\* workspace, is replaced; otherwise it is a new one.
ProfileUpserted(bs, b) ==
  LET exact == {i \in DOMAIN bs : bs[i].acct = b.acct}
      at == IF exact # {} THEN exact ELSE SameWorkspace(bs, b.acct)
  IN IF at = {} THEN Append(bs, b)
     ELSE [bs EXCEPT ![CHOOSE i \in at : \A j \in at : i <= j] = b]

UpsertRefused(bs, c) ==
  /\ ~c.replace /\ SameWorkspace(bs, c.acct) # {}
  /\ \A i \in DOMAIN bs : bs[i].acct # c.acct

\* The token: the platform's, the flag's, or a saved one: that of the account
\* for a login, whatever is saved for a pairing.
TokenFor(c, s) ==
  IF c.own THEN {c.acct}
  ELSE IF c.kind = "pair" \/ s.primary = {c.acct} THEN s.token ELSE {}

LoginRefused(c, s) ==
  \/ c.kind = "login" /\ TokenFor(c, s) = {}
  \/ s.primary # {} /\ s.primary # {c.acct} /\ ~c.add /\ ~c.replace
  \/ c.add /\ UpsertRefused(Seeded(s), c)

\* storePairingCredentials and `remote login`.
LoggedIn(c, s) ==
  LET b == [acct |-> c.acct, token |-> TokenFor(c, s), on |-> TRUE]
      bs == IF c.add THEN ProfileUpserted(Seeded(s), b) ELSE <<b>>
      kept == {x \in Range(bs) : {x.acct} = s.primary}
      p == IF c.add /\ s.primary # {} THEN IF kept # {} THEN Only1(kept) ELSE bs[1] ELSE b
  IN [s EXCEPT !.primary = {p.acct}, !.token = p.token, !.enabled = {TRUE}, !.bindings = {bs}]

\* `remote logout` leaves the workspace and the server.
LoggedOut(s) == [s EXCEPT !.enabled = {FALSE}, !.bindings = {<< >>}, !.token = {}]

\* A mutant: the token goes to every binding.
RegisteredEverywhere(a, s) ==
  [s EXCEPT !.token = {a},
            !.bindings = {[i \in DOMAIN bs |-> [bs[i] EXCEPT !.token = {a}]] : bs \in @}]

\* persistRegisteredBinding: by workspace, and as the relay's own token.
Registered(a, s) ==
  [s EXCEPT !.token = {a},
            !.bindings = {[i \in DOMAIN bs |-> IF Workspace(bs[i].acct) = Workspace(a)
                                               THEN [bs[i] EXCEPT !.token = {a}] ELSE bs[i]]
                            : bs \in @}]

\* setDaemonConfig merges into the settings of the file it writes: what the
\* command does not name, here the worker of the others, stays as it was there.
ConfigChanged(c, s, base) ==
  CASE c.kind \in {"pair", "login"} -> [LoggedIn(c, s) EXCEPT !.worker = base.worker]
    [] c.kind = "logout" -> [LoggedOut(s) EXCEPT !.worker = base.worker]
    [] c.kind \in {"enable", "disable"} ->
         [s EXCEPT !.enabled = {c.kind = "enable"}, !.worker = base.worker]
    [] c.kind = "worker" -> [s EXCEPT !.worker = {given}]
    [] c.kind = "reset" -> [s EXCEPT !.worker = {}]
    [] c.kind = "register" -> Registered(c.acct, s)

CommandAsked(c) ==
  LET others == {a \in wanted.accounts : Workspace(a) # Workspace(c.acct)} IN
  CASE c.kind \in {"pair", "login"} ->
         [wanted EXCEPT !.accounts = (IF c.add THEN others ELSE {}) \cup {c.acct}]
    [] c.kind = "logout" -> [wanted EXCEPT !.accounts = {}]
    [] c.kind = "worker" -> [wanted EXCEPT !.worker = {c.number}]
    [] c.kind = "reset" -> [wanted EXCEPT !.worker = {}]
    [] c.kind = "directory" -> [wanted EXCEPT !.dirs = c.dirs]
    [] OTHER -> wanted

---------------------------------------------------------------------------
(* A command: it loads, and later writes. *)

Cmd(kind, a, add, replace, own) ==
  [kind |-> kind, acct |-> a, add |-> add, replace |-> replace, own |-> own]

CliCommands ==
  {Cmd(k, a, add, replace, own) : k \in {"pair", "login"}, a \in Accounts, add \in BOOLEAN,
                                  replace \in BOOLEAN, own \in BOOLEAN}
  \cup {Cmd(k, FirstAccount, FALSE, FALSE, TRUE) :
          k \in {"logout", "enable", "disable", "worker", "reset"}}

ConfigIdle(p) == writing[p].pc = "idle"
Stops(p) == writing' = [writing EXCEPT ![p] = NotWriting]

Loads(p, c) ==
  /\ ConfigIdle(p) /\ given < MaxConfigCommands /\ given' = given + 1
  /\ ConfigReadable
  /\ writing' = [writing EXCEPT ![p] = [pc |-> "loaded", cmd |-> c,
                                        global |-> global, override |-> override]]
  /\ UNCHANGED <<global, override, overriding, memory, bridges, wanted, lastSeen, stale, shadowed,
                 revived, crossed, cut>>

CommandLoads == \E c \in CliCommands : Loads("cli", c)

\* A bridge's key is registered: the platform knows its token.
BridgeLoads == \E a \in bridges : Loads("bridge", Cmd("register", a, FALSE, FALSE, TRUE))

CommandRefused ==
  LET w == writing["cli"] IN
  /\ w.pc = "loaded" /\ w.cmd.kind \in {"pair", "login"}
  /\ LoginRefused(w.cmd, ConfigMerged(w.global.daemon, w.override))
  /\ Stops("cli")
  /\ UNCHANGED <<global, override, overriding, memory, bridges, wanted, lastSeen, stale, shadowed,
                 revived, crossed, cut, given>>

\* writeFile empties the file before it fills it.
Empties(p, over, content, c) ==
  /\ writing' = [writing EXCEPT ![p] = [pc |-> "writing", cmd |-> c, over |-> over,
                                        content |-> content]]
  /\ IF over THEN override' = ConfigTorn /\ UNCHANGED global ELSE global' = ConfigTorn /\ UNCHANGED override

CommandWrites(p) ==
  LET w == writing[p]
      s == ConfigMerged(w.global.daemon, w.override)
      base == IF overriding THEN w.override ELSE w.global.daemon
      new == ConfigChanged(w.cmd, s, base)
  IN
  /\ w.pc = "loaded"
  /\ w.cmd.kind \in {"pair", "login"} => ~LoginRefused(w.cmd, s)
  /\ Empties(p, overriding, IF overriding THEN new ELSE [w.global EXCEPT !.daemon = new],
             w.cmd @@ [number |-> given])
  /\ stale' = (stale \/ w.global # global \/ w.override # override)
  /\ shadowed' = (shadowed \/ /\ overriding
                              /\ \E f \in DOMAIN new : new[f] = {} /\ w.global.daemon[f] # {})
  /\ crossed' = (crossed \/ /\ w.cmd.kind \in {"pair", "login"}
                            /\ TokenFor(w.cmd, s) # {w.cmd.acct})
  /\ revived' = revived \cup (Held(new) \ (Held(s) \cup {w.cmd.acct}))
  /\ UNCHANGED <<overriding, memory, bridges, wanted, lastSeen, cut, given>>

\* The file is filled; `pair` goes on to restart the daemon.
Fills(p) ==
  LET w == writing[p] IN
  /\ w.pc = "writing"
  /\ IF w.over THEN override' = w.content /\ UNCHANGED global
               ELSE global' = w.content /\ UNCHANGED override
  /\ wanted' = CommandAsked(w.cmd)
  /\ lastSeen' = IF p = "daemon" THEN <<w.content, lastSeen[2]>> ELSE lastSeen
  /\ writing' = [writing EXCEPT ![p] = IF w.cmd.kind = "pair" THEN [pc |-> "restarting"]
                                                              ELSE NotWriting]
  /\ UNCHANGED <<overriding, memory, bridges, stale, shadowed, revived, crossed, cut, given>>

\* register adds a directory that is not known, unregister removes one that is.
Toggled(dirs, d) == IF d \in dirs THEN dirs \ {d} ELSE dirs \cup {d}

\* registerDirectory, unregisterDirectory: the daemon writes its own copy, the
\* override's settings in it, over the global file.
DirectoryChanges(d) ==
  LET dirs == Toggled(memory.dirs, d)
      content == [memory EXCEPT !.dirs = dirs]
  IN
  /\ ConfigIdle("daemon") /\ given < MaxConfigCommands /\ given' = given + 1
  /\ memory' = content
  /\ Empties("daemon", FALSE, content, [kind |-> "directory", acct |-> FirstAccount, dirs |-> dirs])
  /\ stale' = (stale \/ <<global, override>> # lastSeen)
  /\ UNCHANGED <<overriding, bridges, wanted, lastSeen, shadowed, revived, crossed, cut>>

\* The daemon stops, whatever it was writing, and starts: it loads the file
\* and starts its bridges.  It does not start from a file it cannot read.
Restart ==
  /\ writing["cli"].pc = "restarting" \/ given < MaxConfigCommands
  /\ given' = IF writing["cli"].pc = "restarting" THEN given ELSE given + 1
  /\ writing' = [p \in Writers |-> IF p = "cli" /\ writing[p].pc # "restarting"
                                   THEN writing[p] ELSE NotWriting]
  /\ cut' = (cut \/ \E p \in {"bridge", "daemon"} : writing[p].pc = "writing")
  /\ IF ConfigReadable
     THEN /\ memory' = [daemon |-> Settings, dirs |-> global.dirs]
          /\ bridges' = Launched(Settings) /\ lastSeen' = <<global, override>>
     ELSE bridges' = {} /\ UNCHANGED <<memory, lastSeen>>
  /\ UNCHANGED <<global, override, overriding, wanted, stale, shadowed, revived,
                 crossed>>

\* The command's process is ended.
Interrupted ==
  /\ ~ConfigIdle("cli") /\ Stops("cli")
  /\ cut' = (cut \/ writing["cli"].pc = "writing")
  /\ UNCHANGED <<global, override, overriding, memory, bridges, wanted, lastSeen, stale, shadowed,
                 revived, crossed, given>>

ConfigNext ==
  \/ CommandLoads \/ BridgeLoads \/ CommandRefused
  \/ \E p \in {"cli", "bridge"} : CommandWrites(p)
  \/ \E p \in Writers : Fills(p)
  \/ \E d \in ConfigDirs : DirectoryChanges(d)
  \/ Restart \/ Interrupted

ConfigSpec == ConfigInit /\ [][ConfigNext]_configVars

---------------------------------------------------------------------------

ConfigTypeOK ==
  /\ given \in 0..MaxConfigCommands /\ bridges \subseteq Accounts
  /\ DOMAIN writing = Writers /\ memory.dirs \subseteq ConfigDirs
  /\ wanted.accounts \subseteq Accounts /\ wanted.dirs \subseteq ConfigDirs

\* configuredWorkspaceTargets: the bindings, then the relay's own fields.
SyncTargets(s) ==
  SelectSeq(SelectSeq(Bindings(s), LAMBDA b : b.on)
              \o (IF s.primary = {} THEN << >> ELSE <<OwnSettings(s, TRUE)>>),
            LAMBDA b : b.token # {})
Matches(s, w) == SelectSeq(SyncTargets(s), LAMBDA b : Workspace(b.acct) = w)

(* What config.json holds is what the commands asked for: the paired
   accounts, the worker, the directories.  The exceptions are a copy written
   over newer content, as the daemon's own copy is, a process that ended
   while it wrote, a value that shows again from under the override, and the
   account logged out of, which a later `--add` seeds again. *)
SettingsKept ==
  \/ stale \/ cut \/ \E p \in Writers : writing[p].pc = "writing"
  \/ /\ ConfigReadable
     /\ global.dirs = wanted.dirs
     /\ shadowed \/ /\ Settings.worker = wanted.worker
                    /\ wanted.accounts \subseteq Held(Settings)
                    /\ Held(Settings) \subseteq wanted.accounts \cup revived

(* The credential sent for a paired workspace was issued for it: the one of
   its binding, or else the relay's own, which every bridge that registers
   replaces by its own.  The exceptions are an account seeded again with that
   one after it was logged out of, one stored without a token of its own, and an override
   that lost a value. *)
CredentialsMatch ==
  ConfigReadable /\ ~shadowed /\ ~crossed =>
    \A s \in {Settings, memory.daemon} : \A a \in Held(s) \ revived :
      Matches(s, Workspace(a)) # << >> =>
        Workspace(Only1(Matches(s, Workspace(a))[1].token)) = Workspace(a)

ConfigHolds == SettingsKept /\ CredentialsMatch
=============================================================================
