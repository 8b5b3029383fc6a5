----------------------------- MODULE OciPipeline -----------------------------
(***************************************************************************)
(* Shipping a ResourceGroup through an OCI registry with the CLI:          *)
(*   kro package -f rg.yaml -o rg.tar   (runPackage, createLayer)          *)
(*   kro publish -f rg.tar REF          (runPublish, pushImage)            *)
(*   kro install REF                    (runInstall, pullResourceGroup)    *)
(* The repository holds two revisions of install: the first reads the     *)
(* manifest's first layer, the second its config blob.  Each HTTP request  *)
(* is one step that the registry may refuse; invocations interleave.       *)
(* Files, blobs and tar entries are tagged values; a digest is injective.  *)
(***************************************************************************)
EXTENDS Naturals, SequencesExt

CONSTANTS
  RGs,              \* ResourceGroup documents (rg.yaml contents)
  Refs,             \* repository arguments, as sequences of words
  Tags,             \* values of publish's -t flag
  Pubs,             \* publish invocations
  Installs,         \* install invocations
  InstallVersions,  \* revisions of install in use: subset of {1, 2}
  CredFiles         \* contents of ~/.kro/registry/config.json the commands may find

NoTagFlag == <<>>
None      == "none"
NoArg     == <<"noArg">>  \* not a reference: the command line lacks exactly one argument

(***************************************************************************)
(* Values                                                                  *)
(***************************************************************************)

Tar(entries) == [kind |-> "tar", v |-> entries]
Yaml(rg)     == [kind |-> "yaml", v |-> rg]
Json(x)      == [kind |-> "json", v |-> x]
Entry(n, b)  == [name |-> n, body |-> b]
Digest(x)    == [sha256 |-> x]
FileName(s)  == [file |-> s]
HexName(d)   == [hex |-> d.sha256]    \* strings.TrimPrefix(d, "sha256:")

\* the name of the first entry of a tar that has the given name, if any
Find(t, n) == {i \in DOMAIN t.v : t.v[i].name = n /\ \A j \in 1..i-1 : t.v[j].name # n}

\* createLayer: a tar holding resourcegroup.yaml; its digest and size
createLayer(rg) == Tar(<<Entry(FileName("resourcegroup.yaml"), Yaml(rg))>>)

\* runPackage: image config, manifest, and the output tar with the three
\* files manifest.json, <config hex> and <layer hex> (Created is left out)
runPackage(rg) ==
  LET layer == createLayer(rg)
      cfg   == Json([labels |-> rg, diffIDs |-> <<Digest(layer)>>])
      man   == Json([config |-> Digest(cfg), layers |-> <<Digest(layer)>>])
  IN  Tar(<<Entry(FileName("manifest.json"), man),
            Entry(HexName(Digest(cfg)), cfg),
            Entry(HexName(Digest(layer)), layer)>>)

(***************************************************************************)
(* Splitting the repository argument                                       *)
(***************************************************************************)

\* strings.Split(s, sep) on a sequence of words
SplitAt(s, sep) ==
  LET cuts == <<0>> \o SetToSortSeq({i \in DOMAIN s : s[i] = sep}, <) \o <<Len(s) + 1>>
  IN  [k \in 1..Len(cuts) - 1 |-> SubSeq(s, cuts[k] + 1, cuts[k + 1] - 1)]

\* strings.Split(repository, "/")[0] and the rest joined with "/"
RegistryOf(repository) == SplitAt(repository, "/")[1]
RepoNameOf(repository) ==
  LET slash == {i \in DOMAIN repository : repository[i] = "/"}
  IN  IF slash = {} THEN <<>> ELSE SubSeq(repository, Min(slash) + 1, Len(repository))

\* runInstall (and runPublish without -t): split at every ':'
SplitRef(ref) ==
  LET parts == SplitAt(ref, ":")
  IN  [repository |-> parts[1],
       tag |-> IF Len(parts) > 1 THEN parts[2] ELSE <<"latest">>]

\* runPublish: the -t flag, when given, is used as is
PublishRef(ref, tagFlag) ==
  IF tagFlag = NoTagFlag THEN SplitRef(ref) ELSE [repository |-> ref, tag |-> tagFlag]

\* where a request goes: registry host, repository name, tag or digest
Key(r) == <<RegistryOf(r.repository), RepoNameOf(r.repository), r.tag>>

(***************************************************************************)
(* Registry credentials                                                    *)
(***************************************************************************)

\* a credential file is [kind |-> "absent" | "invalid" | "json", auths]
\* loadConfig (install): a missing file is an empty config, a file that
\* cannot be read or unmarshalled is an error
loadConfig(f) ==
  IF f.kind = "invalid" THEN [ok |-> FALSE, auths |-> <<>>]
  ELSE [ok |-> TRUE, auths |-> IF f.kind = "json" THEN f.auths ELSE <<>>]

\* the errors that end runInstall and runPublish before their first request
AuthErrors == {"noArg", "loadFailed", "noCredentials"}

\* the entry of the repository's registry, strings.Split(repository, "/")[0],
\* in the loaded config, or the error that ends the command before its
\* first request (ref is the command-line argument)
AuthFor(f, ref, repository) ==
  LET lc == loadConfig(f) IN
  CASE ref = NoArg -> "noArg"
    [] ~lc.ok -> "loadFailed"
    [] RegistryOf(repository) \notin DOMAIN lc.auths -> "noCredentials"
    [] OTHER -> lc.auths[RegistryOf(repository)]

\* runInstall up to pullResourceGroup: exactly one argument, split at ':',
\* the registry's entry in the config
runInstallAuth(f, ref) == AuthFor(f, ref, SplitRef(ref).repository)

(***************************************************************************)
(* State                                                                   *)
(***************************************************************************)

VARIABLES
  packaged,   \* the tar files kro package has written, by ResourceGroup
  blobs,      \* registry: set of [at |-> <<host, repo>>, digest, content]
  manifests,  \* registry: <<host, repo, tag>> -> manifest
  lastPub,    \* <<host, repo, tag>> -> the rg of the last publish stored there
  ppc, parg,  \* publish: step and arguments [rg, ref, tagFlag]
  ipc, iarg,  \* install: step and arguments [ref, version]
  iman,       \* install: the manifest it fetched
  iseen,      \* install: lastPub at the manifest's key when it fetched it
  ires,       \* install: result
  cluster,    \* ResourceGroups created in the cluster
  creds       \* the registry credential file (written by kro registry login)

vars == <<packaged, blobs, manifests, lastPub, ppc, parg, ipc, iarg, iman,
          iseen, ires, cluster, creds>>

PubKey(q)  == Key(PublishRef(parg[q].ref, parg[q].tagFlag))
InstKey(i) == Key(SplitRef(iarg[i].ref))
File(q)    == runPackage(parg[q].rg)

Fail(pc, p) == pc' = [pc EXCEPT ![p] = "failed"]

(***************************************************************************)
(* package                                                                 *)
(***************************************************************************)

Package(rg) ==
  /\ rg \notin packaged
  /\ packaged' = packaged \cup {rg}
  /\ UNCHANGED <<blobs, manifests, lastPub, ppc, parg, ipc, iarg, iman, iseen, ires, cluster, creds>>

(***************************************************************************)
(* publish: runPublish, then the three requests of pushImage               *)
(***************************************************************************)

\* runPublish: the argument check, os.ReadFile of the package and the
\* credential lookup, in this order; each failure ends the command
PubAuth(q) == AuthFor(creds, parg[q].ref, PublishRef(parg[q].ref, parg[q].tagFlag).repository)

PubRejected(q) == parg[q].ref = NoArg \/ parg[q].rg \notin packaged \/ PubAuth(q) \in AuthErrors

\* mutant: the blob upload is skipped and the manifest pushed straight away
PubInitSkipBlob(q) ==
  /\ ppc[q] = "idle"
  /\ IF PubRejected(q)
     THEN Fail(ppc, q)
     ELSE \/ ppc' = [ppc EXCEPT ![q] = "manifest"]
          \/ Fail(ppc, q)
  /\ UNCHANGED <<packaged, blobs, manifests, lastPub, parg, ipc, iarg, iman, iseen, ires, cluster, creds>>

\* runPublish, then POST /v2/<repo>/blobs/uploads/ with the credential
PubInit(q) ==
  /\ ppc[q] = "idle"
  /\ IF PubRejected(q)
     THEN Fail(ppc, q)
     ELSE \/ ppc' = [ppc EXCEPT ![q] = "blob"]
          \/ Fail(ppc, q)                       \* not 202 Accepted, or no Location
  /\ UNCHANGED <<packaged, blobs, manifests, lastPub, parg, ipc, iarg, iman, iseen, ires, cluster, creds>>

\* mutant: the digest query names the package's layer, not the file sent
PubBlobLayerDigest(q) ==
  /\ ppc[q] = "blob"
  /\ \/ /\ blobs' = blobs \cup {[at |-> SubSeq(PubKey(q), 1, 2),
                                  digest |-> Digest(createLayer(parg[q].rg)), content |-> File(q)]}
        /\ ppc' = [ppc EXCEPT ![q] = "manifest"]
     \/ Fail(ppc, q) /\ UNCHANGED blobs
  /\ UNCHANGED <<packaged, manifests, lastPub, parg, ipc, iarg, iman, iseen, ires, cluster, creds>>

\* PUT <location>?digest=sha256:<file>: the whole package tar is the blob
PubBlob(q) ==
  /\ ppc[q] = "blob"
  /\ \/ /\ blobs' = blobs \cup {[at |-> SubSeq(PubKey(q), 1, 2),
                                  digest |-> Digest(File(q)), content |-> File(q)]}
        /\ ppc' = [ppc EXCEPT ![q] = "manifest"]
     \/ Fail(ppc, q) /\ UNCHANGED blobs           \* not 201 Created
  /\ UNCHANGED <<packaged, manifests, lastPub, parg, ipc, iarg, iman, iseen, ires, cluster, creds>>

\* PUT /v2/<repo>/manifests/<tag>: config and layer both name the blob
PubManifest(q) ==
  /\ ppc[q] = "manifest"
  /\ \/ LET d == Digest(File(q)) IN
          /\ manifests' = (PubKey(q) :> [config |-> d, layers |-> <<d>>]) @@ manifests
          /\ lastPub' = (PubKey(q) :> parg[q].rg) @@ lastPub
          /\ ppc' = [ppc EXCEPT ![q] = "done"]
     \/ Fail(ppc, q) /\ UNCHANGED <<manifests, lastPub>>
  /\ UNCHANGED <<packaged, blobs, parg, ipc, iarg, iman, iseen, ires, cluster, creds>>

(***************************************************************************)
(* install: runInstall, then the requests of pullResourceGroup             *)
(***************************************************************************)

Result(r, rg) == [res |-> r, rg |-> rg]

\* the blob stored under the install's repository with the given digest
BlobAt(i, d) == {b.content : b \in {b \in blobs : b.at = SubSeq(InstKey(i), 1, 2) /\ b.digest = d}}

\* runInstall (both revisions) up to pullResourceGroup
InstAuth(i) ==
  /\ ipc[i] = "idle"
  /\ LET auth == runInstallAuth(creds, iarg[i].ref) IN
     IF auth \in AuthErrors
     THEN ires' = [ires EXCEPT ![i] = Result(auth, None)] /\ Fail(ipc, i)
     ELSE ipc' = [ipc EXCEPT ![i] = "pull"] /\ UNCHANGED ires
  /\ UNCHANGED <<packaged, blobs, manifests, lastPub, ppc, parg, iarg, iman, iseen, cluster, creds>>

\* GET /v2/<repo>/manifests/<tag>
InstManifest(i) ==
  /\ ipc[i] = "pull"
  /\ IF InstKey(i) \notin DOMAIN manifests
     THEN ires' = [ires EXCEPT ![i] = Result("httpError", None)] /\ Fail(ipc, i)
          /\ UNCHANGED <<iman, iseen>>
     ELSE \/ /\ iman' = [iman EXCEPT ![i] = manifests[InstKey(i)]]
             /\ iseen' = [iseen EXCEPT ![i] = lastPub[InstKey(i)]]
             /\ ipc' = [ipc EXCEPT ![i] = "blob"]
             /\ UNCHANGED ires
          \/ ires' = [ires EXCEPT ![i] = Result("httpError", None)] /\ Fail(ipc, i)
             /\ UNCHANGED <<iman, iseen>>
  /\ UNCHANGED <<packaged, blobs, manifests, lastPub, ppc, parg, iarg, cluster, creds>>

\* the result of a blob step that did not create anything
Stop(i, r) ==
  /\ ires' = [ires EXCEPT ![i] = Result(r, None)] /\ Fail(ipc, i)
  /\ UNCHANGED cluster

\* first revision: GET the blob of layers[0] and scan its tar; the loop
\* only prints the entries that are not resourcegroup.yaml and never
\* returns the content it looks for
InstBlobV1(i) ==
  /\ ipc[i] = "blob" /\ iarg[i].version = 1
  /\ IF iman[i].layers = <<>> THEN Stop(i, "noLayers")
     ELSE LET got == BlobAt(i, iman[i].layers[1]) IN
          CASE got = {} -> Stop(i, "httpError")
            [] \A c \in got : c.kind # "tar" -> Stop(i, "readFailed")
            [] OTHER -> Stop(i, "notFound")
  /\ UNCHANGED <<packaged, blobs, manifests, lastPub, ppc, parg, iarg, iman, iseen, creds>>

\* second revision: GET the config blob, find layer.tar in it, find
\* resourcegroup.yaml in that, parse it and create the ResourceGroup
InstBlobV2(i) ==
  /\ ipc[i] = "blob" /\ iarg[i].version = 2
  /\ LET got == BlobAt(i, iman[i].config) IN
     IF got = {} THEN Stop(i, "httpError")
     ELSE LET c == CHOOSE c \in got : TRUE
              l == Find(c, FileName("layer.tar"))
          IN
          CASE c.kind # "tar" -> Stop(i, "readFailed")
            [] l = {} -> Stop(i, "noLayerTar")
            [] c.v[Min(l)].body.kind # "tar" -> Stop(i, "readFailed")
            [] OTHER ->
                 LET lt == c.v[Min(l)].body
                     y  == Find(lt, FileName("resourcegroup.yaml"))
                 IN
                 CASE y = {} -> Stop(i, "notFound")
                   [] lt.v[Min(y)].body.kind # "yaml" -> Stop(i, "parseFailed")
                   [] lt.v[Min(y)].body.v \in cluster -> Stop(i, "exists")
                   [] OTHER ->
                        /\ cluster' = cluster \cup {lt.v[Min(y)].body.v}
                        /\ ires' = [ires EXCEPT ![i] = Result("created", lt.v[Min(y)].body.v)]
                        /\ ipc' = [ipc EXCEPT ![i] = "done"]
  /\ UNCHANGED <<packaged, blobs, manifests, lastPub, ppc, parg, iarg, iman, iseen, creds>>

Init ==
  /\ packaged = {}
  /\ blobs = {}
  /\ manifests = <<>>
  /\ lastPub = <<>>
  /\ ppc = [q \in Pubs |-> "idle"]
  /\ parg \in [Pubs -> [rg : RGs, ref : Refs \cup {NoArg}, tagFlag : {NoTagFlag} \cup Tags]]
  /\ ipc = [i \in Installs |-> "idle"]
  /\ iarg \in [Installs -> [ref : Refs \cup {NoArg}, version : InstallVersions]]
  /\ iman = [i \in Installs |-> [config |-> None, layers |-> <<>>]]
  /\ iseen = [i \in Installs |-> None]
  /\ ires = [i \in Installs |-> Result("pending", None)]
  /\ cluster = {}
  /\ creds \in CredFiles

Next ==
  \/ \E rg \in RGs : Package(rg)
  \/ \E q \in Pubs : PubInit(q) \/ PubBlob(q) \/ PubManifest(q)
  \/ \E i \in Installs : InstAuth(i) \/ InstManifest(i) \/ InstBlobV1(i) \/ InstBlobV2(i)

Spec == Init /\ [][Next]_vars

(***************************************************************************)
(* Properties                                                              *)
(***************************************************************************)

TypeOK ==
  /\ packaged \subseteq RGs /\ cluster \subseteq RGs
  /\ ppc \in [Pubs -> {"idle", "blob", "manifest", "done", "failed"}]
  /\ ipc \in [Installs -> {"idle", "pull", "blob", "done", "failed"}]
  /\ \A b \in blobs : b.digest = Digest(b.content)
  /\ \A i \in Installs : ires[i].rg \in RGs \cup {None}

\* The registry never holds a manifest it cannot serve: whatever publishes
\* interleave or fail half-way, every manifest's config and layer digests
\* name blobs stored in the same repository, so install's blob request
\* after a successful manifest request does not 404.
ManifestBlobsPresent ==
  \A k \in DOMAIN manifests :
     \A d \in {manifests[k].config} \cup ToSet(manifests[k].layers) :
        \E b \in blobs : b.at = SubSeq(k, 1, 2) /\ b.digest = d

\* What is published can be installed (the commands' help texts): an
\* install that fetched the manifest a publish of a ResourceGroup stored
\* either meets an HTTP error or the cluster already holding it, or it
\* creates that ResourceGroup.
InstallsPublished ==
  \A i \in Installs :
     (iseen[i] # None /\ ires[i].res \notin {"pending", "httpError", "exists"})
        => ires[i] = Result("created", iseen[i])

\* The repository reference as the registry tooling reads it: the host is
\* everything before the first '/', port included, and the tag is what
\* follows the last ':' when no '/' comes after it.
RefKey(ref) ==
  LET colon == {i \in DOMAIN ref : ref[i] = ":" /\ \A j \in i..Len(ref) : ref[j] # "/"}
      name  == IF colon = {} THEN ref ELSE SubSeq(ref, 1, Max(colon) - 1)
      tag   == IF colon = {} THEN <<"latest">> ELSE SubSeq(ref, Max(colon) + 1, Len(ref))
  IN  <<RegistryOf(name), RepoNameOf(name), tag>>

\* publish stores the image where the reference says: after a successful
\* `kro publish REF` (without -t), the registry named by REF holds a
\* manifest under REF's repository and tag.
PublishedAtRef ==
  \A q \in Pubs :
     (ppc[q] = "done" /\ parg[q].tagFlag = NoTagFlag) => RefKey(parg[q].ref) \in DOMAIN manifests


\* "no credentials found for <registry>, please run 'kro registry login'
\* first": once the credential file holds an entry for the registry a
\* reference names (host and port), install does not fail for want of
\* credentials.
CredentialsFound ==
  \A i \in Installs :
     ires[i].res = "noCredentials" => RefKey(iarg[i].ref)[1] \notin DOMAIN loadConfig(creds).auths

\* The login / publish / install round trip the help texts describe: a
\* publish stores the image at the reference it was given, an install
\* finds the credential stored for the reference's registry, and an
\* install of what was published creates the ResourceGroup
\* (PublishedAtRef, CredentialsFound and InstallsPublished).
RoundTrip == PublishedAtRef /\ CredentialsFound /\ InstallsPublished

=============================================================================
