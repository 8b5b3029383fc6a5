--------------------------- MODULE CredentialStore ---------------------------
(***************************************************************************)
(* What the registry credential file offers the CLI, as one atomic store:  *)
(* `kro registry login` sets one registry's token and reports success in   *)
(* the same step; `kro publish` reads the entry of its registry.  A login  *)
(* killed while saving loses the whole store for good, since every later   *)
(* command fails to load it.                                               *)
(***************************************************************************)
CONSTANTS Registries, Tokens, Publishes, NoToken

VARIABLES
  store,    \* registry -> token
  lost,     \* the store can no longer be read
  lastOk,   \* registry -> token of the last login reported successful
  ppc,      \* per publish: "idle" or "done"
  target,   \* per publish: its registry
  got       \* per publish: [res, token] of its lookup

vars == <<store, lost, lastOk, ppc, target, got>>

Init ==
  /\ store = <<>> /\ lost = FALSE
  /\ lastOk = [r \in Registries |-> NoToken]
  /\ ppc = [q \in Publishes |-> "idle"]
  /\ target \in [Publishes -> Registries]
  /\ got = [q \in Publishes |-> [res |-> "idle", token |-> NoToken]]

Login(r, t) ==
  /\ ~lost
  /\ store' = [x \in DOMAIN store \cup {r} |-> IF x = r THEN t ELSE store[x]]
  /\ lastOk' = [lastOk EXCEPT ![r] = t]
  /\ UNCHANGED <<lost, ppc, target, got>>

Lose ==
  /\ ~lost
  /\ lost' = TRUE /\ store' = <<>>
  /\ UNCHANGED <<lastOk, ppc, target, got>>

Publish(q) ==
  /\ ppc[q] = "idle"
  /\ got' = [got EXCEPT ![q] =
               CASE lost -> [res |-> "loadFailed", token |-> NoToken]
                 [] target[q] \notin DOMAIN store -> [res |-> "noCredentials", token |-> NoToken]
                 [] OTHER -> [res |-> "pushed", token |-> store[target[q]]]]
  /\ ppc' = [ppc EXCEPT ![q] = "done"]
  /\ UNCHANGED <<store, lost, lastOk, target>>

Next ==
  \/ \E r \in Registries, t \in Tokens : Login(r, t)
  \/ Lose
  \/ \E q \in Publishes : Publish(q)

Spec == Init /\ [][Next]_vars

=============================================================================
