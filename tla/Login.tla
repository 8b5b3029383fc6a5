------------------------------ MODULE Login ------------------------------
(***************************************************************************)
(* The registry credential file ~/.kro/registry/config.json and the CLI    *)
(* commands that share it: every `kro registry login` invocation loads the *)
(* file, adds one entry and saves it (login.go); every `kro publish` loads *)
(* it and looks up the registry's entry (publish, root.go).  Invocations   *)
(* are separate OS processes, so their steps interleave.  os.WriteFile     *)
(* truncates the file before it writes the new content, so a reader or a   *)
(* crash in between sees an empty file, which json.Unmarshal rejects.      *)
(***************************************************************************)
EXTENDS Naturals, FiniteSets, TLC

CONSTANTS
  Logins,       \* login invocations
  Publishes,    \* publish invocations
  Registries,   \* registry hosts (the repository argument's registry part)
  Tokens,       \* passwords read from stdin
  Serial,       \* TRUE: the user runs one command at a time
  Crashes       \* TRUE: a login may be killed inside os.WriteFile

NoInput == "noInput"    \* scanner.Scan() found nothing on stdin
NoArg   == "noArg"      \* the command line does not hold exactly one argument
Usernames == {"AWS", "other"}   \* --username: its default and any other value
NoToken == "noToken"
NoAuth  == <<>>

VARIABLES
  file,     \* [kind |-> "absent" | "empty" | "json", auths |-> registry -> auth]
  pc,       \* per login: "idle", "loaded", "writing", "done", "failed", "crashed"
  arg,      \* per login: [registry, token, user] from the command line and stdin
  config,   \* per login: the in-memory Config after config.Auths[registry] = ...
  lastOk,   \* per registry: token of the last login that printed "Login Succeeded"
  ppc,      \* per publish: "idle" or "done"
  target,   \* per publish: the registry it publishes to
  got,      \* per publish: [res, auth] of its credential lookup
  prev      \* the file as it was before the last truncation (history)

vars == <<file, pc, arg, config, lastOk, ppc, target, got, prev>>

AbsentFile == [kind |-> "absent", auths |-> <<>>]

(***************************************************************************)
(* Operations on the file                                                  *)
(***************************************************************************)

\* mutant: the password is stored without the "AWS:" user prefix
EncodeRaw(t) == <<t>>

\* base64("AWS:" + password): only its injectivity matters
Encode(t) == <<"AWS", t>>

\* loadConfig (login.go): a missing file is an empty config, an empty or
\* partly written file fails json.Unmarshal, a nil Auths is replaced
loadConfig(f) ==
  CASE f.kind = "absent" -> [ok |-> TRUE, auths |-> <<>>]
    [] f.kind = "empty"  -> [ok |-> FALSE, auths |-> <<>>]
    [] OTHER             -> [ok |-> TRUE, auths |-> f.auths]

\* loadConfig (publish): the same, without the nil check (a lookup in a nil
\* Go map is allowed)
publishLoadConfig(f) ==
  IF f.kind = "empty" THEN [ok |-> FALSE, auths |-> <<>>]
  ELSE [ok |-> TRUE, auths |-> IF f.kind = "json" THEN f.auths ELSE <<>>]

\* with Serial, a command starts only when no other one is running
Quiet == \A p \in Logins : pc[p] \notin {"loaded", "writing"}

Starts == ~Serial \/ Quiet

(***************************************************************************)
(* Login: runLogin, storeCredentials, loadConfig, saveConfig               *)
(***************************************************************************)

\* runLogin's early returns before storeCredentials: no single registry
\* argument, nothing on stdin, or a username other than AWS
runLoginRejects(a) == a.registry = NoArg \/ a.token = NoInput \/ a.user # "AWS"

\* mutant: an existing entry for the registry is kept
LoadKeepExisting(p) ==
  /\ pc[p] = "idle"
  /\ Starts
  /\ LET lc == loadConfig(file) IN
       CASE runLoginRejects(arg[p]) -> pc' = [pc EXCEPT ![p] = "failed"]
                                     /\ UNCHANGED config
         [] ~lc.ok -> pc' = [pc EXCEPT ![p] = "failed"] /\ UNCHANGED config
         [] OTHER ->
              /\ config' = [config EXCEPT ![p] =
                              IF arg[p].registry \in DOMAIN lc.auths THEN lc.auths
                              ELSE lc.auths @@ (arg[p].registry :> Encode(arg[p].token))]
              /\ pc' = [pc EXCEPT ![p] = "loaded"]
  /\ UNCHANGED <<file, arg, lastOk, ppc, target, got, prev>>

\* runLogin checks its argument, reads the token and checks the username,
\* then storeCredentials loads the file and sets the registry's entry in
\* memory
Load(p) ==
  /\ pc[p] = "idle"
  /\ Starts
  /\ LET lc == loadConfig(file) IN
       CASE runLoginRejects(arg[p]) -> pc' = [pc EXCEPT ![p] = "failed"]
                                     /\ UNCHANGED config
         [] ~lc.ok -> pc' = [pc EXCEPT ![p] = "failed"] /\ UNCHANGED config
         [] OTHER ->
              /\ config' = [config EXCEPT ![p] =
                              [r \in DOMAIN lc.auths \cup {arg[p].registry} |->
                                 IF r = arg[p].registry THEN Encode(arg[p].token)
                                 ELSE lc.auths[r]]]
              /\ pc' = [pc EXCEPT ![p] = "loaded"]
  /\ UNCHANGED <<file, arg, lastOk, ppc, target, got, prev>>

\* saveConfig: os.WriteFile opens the file with O_TRUNC
Truncate(p) ==
  /\ pc[p] = "loaded"
  /\ file' = [kind |-> "empty", auths |-> <<>>]
  /\ pc' = [pc EXCEPT ![p] = "writing"]
  /\ prev' = file
  /\ UNCHANGED <<arg, config, lastOk, ppc, target, got>>

\* saveConfig: the marshalled config is written; runLogin reports success
Write(p) ==
  /\ pc[p] = "writing"
  /\ file' = [kind |-> "json", auths |-> config[p]]
  /\ pc' = [pc EXCEPT ![p] = "done"]
  /\ lastOk' = [lastOk EXCEPT ![arg[p].registry] = arg[p].token]
  /\ UNCHANGED <<arg, config, ppc, target, got, prev>>

\* the process is killed between the truncation and the write
Crash(p) ==
  /\ Crashes
  /\ pc[p] = "writing"
  /\ pc' = [pc EXCEPT ![p] = "crashed"]
  /\ UNCHANGED <<file, arg, config, lastOk, ppc, target, got, prev>>

(***************************************************************************)
(* Publish: runPublish up to the credential lookup                         *)
(***************************************************************************)

Publish(q) ==
  /\ ppc[q] = "idle"
  /\ Starts
  /\ LET lc == publishLoadConfig(file)
         r  == target[q]
     IN got' = [got EXCEPT ![q] =
                  CASE ~lc.ok -> [res |-> "loadFailed", auth |-> NoAuth]
                    [] r \notin DOMAIN lc.auths -> [res |-> "noCredentials", auth |-> NoAuth]
                    [] OTHER -> [res |-> "pushed", auth |-> lc.auths[r]]]
  /\ ppc' = [ppc EXCEPT ![q] = "done"]
  /\ UNCHANGED <<file, pc, arg, config, lastOk, target, prev>>

Init ==
  /\ file = AbsentFile
  /\ pc = [p \in Logins |-> "idle"]
  /\ arg \in [Logins -> [registry : Registries \cup {NoArg}, token : Tokens \cup {NoInput},
                         user : Usernames]]
  /\ config = [p \in Logins |-> <<>>]
  /\ lastOk = [r \in Registries |-> NoToken]
  /\ ppc = [q \in Publishes |-> "idle"]
  /\ target \in [Publishes -> Registries]
  /\ got = [q \in Publishes |-> [res |-> "idle", auth |-> NoAuth]]
  /\ prev = AbsentFile

Next ==
  \/ \E p \in Logins : Load(p) \/ Truncate(p) \/ Write(p) \/ Crash(p)
  \/ \E q \in Publishes : Publish(q)

Spec == Init /\ [][Next]_vars

(***************************************************************************)
(* Properties                                                              *)
(***************************************************************************)

\* an entry is a Basic credential "AWS:<password>", as publish sends it
AuthValues == {<<"AWS", t>> : t \in Tokens}

Auths == UNION {[S -> AuthValues] : S \in SUBSET Registries}

TypeOK ==
  /\ file.kind \in {"absent", "empty", "json"} /\ file.auths \in Auths
  /\ pc \in [Logins -> {"idle", "loaded", "writing", "done", "failed", "crashed"}]
  /\ \A p \in Logins : pc[p] \in {"loaded", "writing"} => config[p] \in Auths
  /\ lastOk \in [Registries -> Tokens \cup {NoToken}]
  /\ \A q \in Publishes : got[q].auth \in {NoAuth} \cup AuthValues

\* "Login Succeeded" means the credential is stored: whenever no login is
\* between loading and saving the file, it holds the token of the last
\* successful login for every registry that had one.  Breaking it takes
\* two logins whose load-modify-save sequences overlap, or a login killed
\* after os.WriteFile truncated the file.
NoLostLogin ==
  (\A p \in Logins : pc[p] \notin {"loaded", "writing"}) =>
     \A r \in Registries :
        lastOk[r] # NoToken =>
           /\ file.kind = "json"
           /\ r \in DOMAIN file.auths
           /\ file.auths[r] = Encode(lastOk[r])

\* Refinement mapping onto CredentialStore.  A save takes effect when its
\* content is written; until then the store is the file as it was before
\* the truncation.  An emptied file nobody is writing is the lost store.
\* Entries are decoded back to tokens.
Writing == {p \in Logins : pc[p] = "writing"}

Decode(auths) == [r \in DOMAIN auths |-> auths[r][2]]

StoreFile == IF Writing # {} THEN prev ELSE file

Abstract == INSTANCE CredentialStore WITH
  store <- Decode(StoreFile.auths),
  lost <- StoreFile.kind = "empty",
  got <- [q \in Publishes |->
            [res |-> got[q].res,
             token |-> IF got[q].auth = NoAuth THEN NoToken ELSE got[q].auth[2]]]

\* With one command at a time, the load / truncate / write protocol of
\* storeCredentials and saveConfig implements an atomic credential store:
\* each successful login sets exactly its registry's token as it reports
\* success, keeping every other entry; a publish reads the entry the last
\* successful login stored; a kill inside os.WriteFile loses everything
\* at once and nothing less.
ImplementsCredentialStore == Abstract!Spec

=============================================================================
