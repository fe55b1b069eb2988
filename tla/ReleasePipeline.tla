--------------------------- MODULE ReleasePipeline ---------------------------
(***************************************************************************)
(* The release of a version: the job `prepare` of the release workflow     *)
(* builds the installer from a tag, checks it and seals it, the job        *)
(* `publish` verifies what it was handed, uploads it to a draft and makes  *)
(* the draft public.  Several dispatches of the workflow may be under way  *)
(* for one tag, the tag may move, every step may fail, and at any moment   *)
(* a file of the runner may be altered by something else (a virus scanner, *)
(* a left-over process, a damaged download).                               *)
(*                                                                         *)
(* The contents of a file are told by the alterations they stem from: none *)
(* in a file that is what commit and component lock determine, otherwise   *)
(* the names of the files that were altered.  What a step writes stems     *)
(* from what it reads, and a check compares files with each other, the way *)
(* the code compares hashes: two alterations of different files never look *)
(* alike.                                                                  *)
(***************************************************************************)
EXTENDS Naturals, Sequences, FiniteSets

CONSTANTS Dispatches,   \* runs of the workflow for the tag
          Commits,      \* what the tag may point at
          Releasable,   \* commits of main whose VERSION is the tag's
          Reviewed,     \* commits whose component lock has no open gate
          MaxEdits, MaxMoves, MaxReruns, MaxDeletes  \* bounds

ASSUME ReleaseAssumption ==
  /\ IsFiniteSet(Dispatches)
  /\ Releasable \subseteq Commits
  /\ Reviewed \subseteq Commits
  /\ {MaxEdits, MaxMoves, MaxReruns, MaxDeletes} \subseteq Nat

VARIABLES tag,       \* the commit the tag points at
          pc,        \* the next step of each dispatch
          commit,    \* the commit it checked out
          file,      \* the files of its runner
          seal,      \* step outputs: the SHA256 of the build provenance
                     \* and of the asset list
          handed,    \* the artifact kept for the job publish
          hashed,    \* digests publish computed before the draft
          sent,      \* how many assets it has uploaded
          rel,       \* releases on GitHub, by the dispatch that created them
          slipped,   \* ghost: altered between the last check and the hash
          edits, moves, reruns, deletes

vars == <<tag, pc, commit, file, seal, handed, hashed, sent, rel, slipped,
          edits, moves, reruns, deletes>>


Dist     == {"loader", "modules", "base", "native", "docs", "packages",
             "dprov", "manifest"}
Payload  == {"setup", "srczip", "parts", "lic"}
Assets   == Payload \cup {"sums"}
Files    == {"tree", "python", "wheels", "external", "requirements",
             "plan", "env", "prov",
             "inno", "toc", "receipt", "list"} \cup Dist \cup Assets

Handed   == Assets \cup {"list"}
AssetOrder == <<"setup", "srczip", "parts", "lic", "sums">>

Content == SUBSET (Files \cup {"none"})
Right   == {}
NoFile  == {"none"}

NoFiles  == [f \in Files |-> NoFile]
NoHash   == [a \in Assets |-> NoFile]
NoHanded == [f \in Handed |-> NoFile]
NoAsset  == [a \in Assets |-> <<>>]
\* What GitHub keeps of an asset: its name and its digest.
Uploaded(c) == <<c>>

\* The job prepare, then the job publish.
Prepare == <<"validate", "runtime", "fetch", "external", "plan", "install",
             "attest", "inno", "build", "collect", "manifest", "check",
             "compile", "extract", "receipt", "release", "archive", "bind",
             "sources", "write", "verify", "seal", "keep">>
Publish == <<"revalidate", "restore", "reverify", "hash", "draft", "ids",
             "upload", "compare", "assert", "public">>
Working == {Prepare[i] : i \in DOMAIN Prepare} \cup {Publish[i] : i \in DOMAIN Publish}
Steps   == Working \cup {"idle", "approval", "done", "failed"}

-----------------------------------------------------------------------------
\* What a step writes from the files of S; what they should have in common.
Of(d, S) == UNION {file[d][f] : f \in S}

\* The checks.
GatesClosed(d)      == commit[d] \in Reviewed
TreeClean(d)        == file[d]["tree"] = Right
PythonHolds(d)      == file[d]["python"] = Right
LockedWheels(d)     == file[d]["wheels"] = Of(d, {"tree"})
ExternalHolds(d)    == file[d]["external"] = Of(d, {"tree", "wheels"})
RequirementInputs(d) == file[d]["plan"] = Of(d, {"tree"})
PlanHolds(d)        == RequirementInputs(d) /\ file[d]["requirements"] = file[d]["plan"]
InstalledFromWheel(d) == file[d]["env"] = Of(d, {"wheels", "external"})
RecordedInventory(d) == file[d]["env"] = file[d]["dprov"]
BootstrapHolds(d)   == file[d]["python"] = file[d]["dprov"]
InnoHolds(d)        == file[d]["inno"] = Of(d, {"tree"})
Sealed(d)           == file[d]["prov"] = seal[d].prov
SealHolds(d)        == file[d]["dprov"] = seal[d].prov
ProvenanceHolds(d)  == TreeClean(d) /\ RecordedInventory(d) /\ BootstrapHolds(d)
DocsHold(d)         == file[d]["docs"] = Of(d, {"tree"})
PackagesHold(d)     == file[d]["packages"] = Of(d, {"env", "dprov"})
BaseHolds(d)        == file[d]["base"] = Of(d, {"python"})
LoaderHolds(d)      == file[d]["loader"] = Of(d, {"tree", "env"})
ModulesHold(d)      == file[d]["modules"] = Of(d, {"tree", "env", "python"})
NativeHolds(d)      == file[d]["native"] = Of(d, {"env", "python"})
TocHolds(d)         == file[d]["toc"] = Right
ManifestHolds(d)    == file[d]["manifest"] = Of(d, Dist \ {"manifest"})
PackageHolds(d)     == /\ DocsHold(d) /\ PackagesHold(d)
                       /\ BaseHolds(d) /\ ProvenanceHolds(d)
BuildHolds(d)       == /\ PackageHolds(d) /\ TocHolds(d)
                       /\ LoaderHolds(d) /\ ModulesHold(d) /\ NativeHolds(d)
PayloadMatches(d)   == file[d]["setup"] = Of(d, Dist)
AuditedBytes(d)     == Of(d, {"setup", "tree"} \cup Dist)
SourceHolds(d)      == file[d]["srczip"] = Right
PartsHold(d)        == file[d]["parts"] = Right
AssetsVerify(d)     == /\ file[d]["sums"] = Of(d, Payload)
                       /\ file[d]["list"] = Of(d, Payload)
                       /\ SourceHolds(d) /\ PartsHold(d)

Releases     == {e \in Dispatches : rel[e].state # "none"}
TagStands(d) == tag = commit[d] /\ commit[d] \in Releasable

\* What is hashed anew after its last check: the installer between the audit
\* of its payload and the receipt, installer and licences while the assets are
\* made, and every asset between the verification and the digests of publish.
Window == {<<"receipt", "setup">>, <<"sources", "setup">>, <<"sources", "docs">>,
           <<"write", "setup">>, <<"write", "lic">>}
            \cup {<<"hash", a>> : a \in Assets}

-----------------------------------------------------------------------------
Init ==
  /\ tag \in Commits
  /\ pc = [d \in Dispatches |-> "idle"]
  /\ commit = [d \in Dispatches |-> tag]
  /\ file = [d \in Dispatches |-> NoFiles]
  /\ seal = [d \in Dispatches |-> [prov |-> NoFile, list |-> NoFile]]
  /\ handed = [d \in Dispatches |-> NoHanded]
  /\ hashed = [d \in Dispatches |-> NoHash]
  /\ sent = [d \in Dispatches |-> 0]
  /\ rel = [d \in Dispatches |-> [state |-> "none", asset |-> NoAsset]]
  /\ slipped = [d \in Dispatches |-> FALSE]
  /\ edits = 0 /\ moves = 0 /\ reruns = 0 /\ deletes = 0

bounds == <<edits, moves, reruns, deletes>>
github == <<tag, rel>>
outputs == <<commit, seal, handed>>
upload == <<hashed, sent>>

GoTo(d, next) == pc' = [pc EXCEPT ![d] = next]

\* Step `at` of dispatch d holds `ok`, writes the files `made` and goes on.
Step(d, at, ok, made, next) ==
  /\ pc[d] = at
  /\ ok
  /\ GoTo(d, next)
  /\ file' = [file EXCEPT ![d] =
                [f \in Files |-> IF f \in DOMAIN made THEN made[f] ELSE @[f]]]

Makes(d, at, ok, made, next) ==
  /\ Step(d, at, ok, made, next)
  /\ UNCHANGED <<outputs, upload, github, slipped, bounds>>

Checks(d, at, ok, next) == Makes(d, at, ok, <<>>, next)

-----------------------------------------------------------------------------
(* The job prepare. *)
Checkout(d) ==
  /\ Step(d, "idle", TRUE, [tree |-> Right], "validate")
  /\ commit' = [commit EXCEPT ![d] = tag]
  /\ UNCHANGED <<seal, handed, upload, github, slipped, bounds>>

ValidateInputs(d) == Checks(d, "validate", TagStands(d) /\ Releases = {}, "runtime")

PreparePython(d) == Makes(d, "runtime", GatesClosed(d), [python |-> Right], "fetch")

FetchWheels(d) ==
  Makes(d, "fetch", TRUE, [wheels |-> Of(d, {"tree"})], "external")

PrepareExternal(d) ==
  Makes(d, "external", LockedWheels(d),
        [external |-> Of(d, {"tree", "wheels"})], "plan")

WritePlan(d) ==
  Makes(d, "plan", TRUE,
        [plan |-> Of(d, {"tree"}), requirements |-> Of(d, {"tree"})], "install")

\* pip checks the hashes of the generated requirements.
PipInstall(d) ==
  Makes(d, "install",
        file[d]["requirements"] = Right => Of(d, {"wheels", "external"}) = Right,
        [env |-> Of(d, {"requirements", "wheels", "external"})], "attest")

Attest(d) ==
  Makes(d, "attest",
        /\ PlanHolds(d) /\ LockedWheels(d) /\ ExternalHolds(d)
        /\ PythonHolds(d) /\ InstalledFromWheel(d) /\ TreeClean(d),
        [prov |-> Of(d, {"env", "python", "tree"})], "inno")

PrepareInno(d) ==
  /\ Step(d, "inno", TRUE, [inno |-> Of(d, {"tree"})], "build")
  /\ seal' = [seal EXCEPT ![d].prov = file[d]["prov"]]
  /\ UNCHANGED <<commit, handed, upload, github, slipped, bounds>>

Build(d) ==
  Makes(d, "build", Sealed(d) /\ InnoHolds(d),
        [toc |-> Right, base |-> Of(d, {"python"}),
         loader |-> Of(d, {"tree", "env"}),
         modules |-> Of(d, {"tree", "env", "python"}),
         native |-> Of(d, {"env", "python"})],
        "collect")

CollectLicenses(d) ==
  Makes(d, "collect", Sealed(d),
        [docs |-> Of(d, {"tree"}), packages |-> Of(d, {"env", "prov"}),
         dprov |-> file[d]["prov"]], "manifest")

WriteManifest(d) ==
  Makes(d, "manifest", BuildHolds(d) /\ SealHolds(d),
        [manifest |-> Of(d, Dist \ {"manifest"})], "check")

CheckDistribution(d) ==
  Checks(d, "check", PackageHolds(d) /\ SealHolds(d) /\ ManifestHolds(d), "compile")

\* A change of the script or the compiler may or may not reach the payload.
CompileInstaller(d) ==
  \E inputs \in {Dist, Dist \cup {"tree", "inno"}} :
    Makes(d, "compile", Sealed(d) /\ InnoHolds(d),
          [setup |-> Of(d, inputs)], "extract")

AuditPayload(d) ==
  Checks(d, "extract",
         PayloadMatches(d) /\ PackageHolds(d) /\ ManifestHolds(d), "receipt")

WriteReceipt(d) ==
  Makes(d, "receipt", TRUE, [receipt |-> AuditedBytes(d)], "release")

CheckRelease(d) ==
  Checks(d, "release",
         BuildHolds(d) /\ SealHolds(d) /\ ManifestHolds(d) /\ GatesClosed(d),
         "archive")

ArchiveSource(d) == Makes(d, "archive", TRUE, [srczip |-> Right], "bind")

\* A mutant: the receipt is read, but not compared with the installer again.
BindReceiptTrusting(d) ==
  Checks(d, "bind", SourceHolds(d) /\ SealHolds(d), "sources")

BindReceipt(d) ==
  Checks(d, "bind",
         file[d]["receipt"] = AuditedBytes(d) /\ SourceHolds(d) /\ SealHolds(d),
         "sources")

MakeArchives(d) ==
  Makes(d, "sources", SealHolds(d),
        [parts |-> Right, lic |-> Of(d, {"docs", "dprov"})], "write")

WriteAssetList(d) ==
  Makes(d, "write", SourceHolds(d) /\ PartsHold(d),
        [sums |-> Of(d, Payload), list |-> Of(d, Payload)], "verify")

VerifyAssets(d) == Checks(d, "verify", AssetsVerify(d), "seal")

SealList(d) ==
  /\ Step(d, "seal", TRUE, <<>>, "keep")
  /\ seal' = [seal EXCEPT ![d].list = file[d]["list"]]
  /\ UNCHANGED <<commit, handed, upload, github, slipped, bounds>>

\* The artifact is kept, the runner thrown away.
KeepArtifact(d) ==
  /\ Step(d, "keep", TRUE, NoFiles, "approval")
  /\ handed' = [handed EXCEPT ![d] = [f \in Handed |-> file[d][f]]]
  /\ UNCHANGED <<commit, seal, upload, github, slipped, bounds>>

-----------------------------------------------------------------------------
(* The job publish. *)
Approve(d) == Checks(d, "approval", TRUE, "revalidate")

Revalidate(d) == Checks(d, "revalidate", TagStands(d), "restore")

Restore(d) == Makes(d, "restore", TRUE, handed[d], "reverify")

Reverify(d) ==
  Checks(d, "reverify", file[d]["list"] = seal[d].list /\ AssetsVerify(d), "hash")

HashAssets(d) ==
  /\ Step(d, "hash", tag = commit[d] /\ Releases = {}, <<>>, "draft")
  /\ hashed' = [hashed EXCEPT ![d] = [a \in Assets |-> file[d][a]]]
  /\ UNCHANGED <<outputs, sent, github, slipped, bounds>>

CreateDraft(d) ==
  /\ Step(d, "draft", TRUE, <<>>, "ids")
  /\ rel' = [rel EXCEPT ![d] = [state |-> "draft", asset |-> NoAsset]]
  /\ UNCHANGED <<tag, outputs, upload, slipped, bounds>>

\* A mutant: a second release of the tag goes unnoticed.
ListIdsAny(d) == Checks(d, "ids", Cardinality(Releases) >= 1, "upload")

ListIds(d) == Checks(d, "ids", Cardinality(Releases) = 1, "upload")

\* `gh release upload` finds a release by the tag and adds a new asset to it.
UploadAsset(d) ==
  \E e \in Releases :
    LET a == AssetOrder[sent[d] + 1] IN
    /\ Step(d, "upload", rel[e].asset[a] = <<>>, <<>>,
            IF sent[d] + 1 = Len(AssetOrder) THEN "compare" ELSE "upload")
    /\ rel' = [rel EXCEPT ![e].asset[a] = Uploaded(file[d][a])]
    /\ sent' = [sent EXCEPT ![d] = @ + 1]
    /\ UNCHANGED <<tag, outputs, hashed, slipped, bounds>>

CompareRemote(d) ==
  /\ Step(d, "compare",
          /\ rel[d].state = "draft"
          /\ \A a \in Assets : rel[d].asset[a] = Uploaded(hashed[d][a]), <<>>, "assert")
  /\ UNCHANGED <<outputs, upload, github, slipped, bounds>>

AssertTag(d) == Checks(d, "assert", tag = commit[d], "public")

Leave(d, verdict) ==
  /\ GoTo(d, verdict)
  /\ file' = [file EXCEPT ![d] = NoFiles]
  /\ hashed' = [hashed EXCEPT ![d] = NoHash]
  /\ sent' = [sent EXCEPT ![d] = 0]

\* The answer of the request may be lost: the job then reports a failure.
MakePublic(d) ==
  /\ pc[d] = "public"
  /\ rel' = [rel EXCEPT ![d].state = "public"]
  /\ \E verdict \in {"done", "failed"} : Leave(d, verdict)
  /\ UNCHANGED <<tag, outputs, slipped, bounds>>

-----------------------------------------------------------------------------
(* A check that does not hold ends the job, and every step may fail; the   *)
(* approval may be refused.                                                *)
Fails(d) ==
  /\ pc[d] \in Working \cup {"approval"}
  /\ Leave(d, "failed")
  /\ UNCHANGED <<outputs, github, slipped, bounds>>

\* "Re-run failed jobs" repeats the job publish with the same outputs.
Rerun(d) ==
  /\ pc[d] = "failed"
  /\ handed[d] # NoHanded
  /\ reruns < MaxReruns
  /\ reruns' = reruns + 1
  /\ GoTo(d, "approval")
  /\ UNCHANGED <<outputs, upload, github, file, slipped, edits, moves, deletes>>

\* A maintainer removes the draft a failed job left behind.
DeleteDraft(d) ==
  /\ pc[d] = "failed"
  /\ rel[d].state = "draft"
  /\ deletes < MaxDeletes
  /\ deletes' = deletes + 1
  /\ rel' = [rel EXCEPT ![d] = [state |-> "none", asset |-> NoAsset]]
  /\ UNCHANGED <<tag, pc, outputs, upload, file, slipped, edits, moves, reruns>>

MoveTag ==
  /\ moves < MaxMoves
  /\ moves' = moves + 1
  /\ tag' \in Commits \ {tag}
  /\ UNCHANGED <<pc, outputs, upload, file, rel, slipped, edits, reruns, deletes>>

\* Something else alters a file of the runner.
Edit(d, f) ==
  /\ pc[d] \in Working
  /\ file[d][f] # NoFile
  /\ edits < MaxEdits
  /\ edits' = edits + 1
  /\ file' = [file EXCEPT ![d][f] = {f}]
  /\ slipped' = [slipped EXCEPT ![d] = @ \/ <<pc[d], f>> \in Window]
  /\ UNCHANGED <<pc, outputs, upload, github, moves, reruns, deletes>>

PrepareStep(d) ==
  \/ Checkout(d) \/ ValidateInputs(d) \/ PreparePython(d) \/ FetchWheels(d)
  \/ PrepareExternal(d) \/ WritePlan(d) \/ PipInstall(d) \/ Attest(d)
  \/ PrepareInno(d) \/ Build(d) \/ CollectLicenses(d) \/ WriteManifest(d)
  \/ CheckDistribution(d) \/ CompileInstaller(d) \/ AuditPayload(d)
  \/ WriteReceipt(d) \/ CheckRelease(d) \/ ArchiveSource(d) \/ BindReceipt(d)
  \/ MakeArchives(d) \/ WriteAssetList(d) \/ VerifyAssets(d) \/ SealList(d)
  \/ KeepArtifact(d)

PublishStep(d) ==
  \/ Approve(d) \/ Revalidate(d) \/ Restore(d) \/ Reverify(d) \/ HashAssets(d)
  \/ CreateDraft(d) \/ ListIds(d) \/ UploadAsset(d) \/ CompareRemote(d)
  \/ AssertTag(d) \/ MakePublic(d)

Next ==
  \/ MoveTag
  \/ \E d \in Dispatches :
       \/ PrepareStep(d) \/ PublishStep(d)
       \/ Fails(d) \/ Rerun(d) \/ DeleteDraft(d)
       \/ \E f \in Files : Edit(d, f)

Spec == Init /\ [][Next]_vars

-----------------------------------------------------------------------------
(* Every variable keeps its type, and files exist only while a job runs. *)
TypeOK ==
  /\ tag \in Commits
  /\ pc \in [Dispatches -> Steps]
  /\ commit \in [Dispatches -> Commits]
  /\ file \in [Dispatches -> [Files -> Content]]
  /\ seal \in [Dispatches -> [prov : Content, list : Content]]
  /\ handed \in [Dispatches -> [Handed -> Content]]
  /\ hashed \in [Dispatches -> [Assets -> Content]]
  /\ sent \in [Dispatches -> 0 .. Len(AssetOrder)]
  /\ \A d \in Dispatches :
       /\ rel[d].state \in {"none", "draft", "public"}
       /\ rel[d].asset \in [Assets -> {<<>>} \cup {Uploaded(c) : c \in Content}]
       /\ pc[d] \notin Working => file[d] = NoFiles
  /\ slipped \in [Dispatches -> BOOLEAN]

(* A public release holds what the commit and the lock determine, whatever *)
(* was altered when, unless it was altered in one of the windows.          *)
PublicIsRight ==
  \A d \in Dispatches :
    rel[d].state = "public" =>
      /\ commit[d] \in Releasable \cap Reviewed
      /\ slipped[d] \/ \A a \in Assets : rel[d].asset[a] = Uploaded(Right)

(* At most one release of the tag is ever public, and it is complete,      *)
(* however dispatches race, are repeated or lose an answer.                *)
OneRelease ==
  \A d \in Dispatches :
    rel[d].state = "public" =>
      /\ \A e \in Dispatches \ {d} : rel[e].state # "public"
      /\ \A a \in Assets : rel[d].asset[a] # <<>>

=============================================================================
