---------------------------- MODULE MC_OciPipeline ----------------------------
(***************************************************************************)
(* Two ResourceGroups, two publishes and one install.  References are     *)
(* word sequences: h/app:v1, h/app (tag defaults to latest) and           *)
(* h:5000/app:v1, a registry with a port.  The credential file is         *)
(* absent, unreadable, or holds an entry for h, for h:5000 or for both.   *)
(***************************************************************************)
EXTENDS OciPipeline

MCRGs      == {"rg1", "rg2"}
PlainRef   == <<"h", "/", "app", ":", "v1">>
LatestRef  == <<"h", "/", "app">>
PortRef    == <<"h", ":", "5000", "/", "app", ":", "v1">>
MCRefs     == {PlainRef, LatestRef, PortRef}
MCTags     == {<<"v1">>}
MCPubs     == {"q1", "q2"}
MCInstalls == {"i1"}
MCHosts    == {<<"h">>, <<"h", ":", "5000">>}
\* the entry `kro registry login <host>` stores, one per host
Login(host) == <<"AWS", host>>
MCCredFiles ==
  {[kind |-> "absent", auths |-> <<>>], [kind |-> "invalid", auths |-> <<>>]}
  \cup {[kind |-> "json", auths |-> [h \in S |-> Login(h)]] : S \in SUBSET MCHosts \ {{}}}

=============================================================================
