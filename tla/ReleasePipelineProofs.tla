------------------------ MODULE ReleasePipelineProofs ------------------------
(***************************************************************************)
(* Proofs about ReleasePipeline, for any number of dispatches, commits,    *)
(* alterations, moves of the tag and repeated jobs.                        *)
(***************************************************************************)
EXTENDS ReleasePipeline, FiniteSetTheorems, TLAPS

Remote == [Assets -> {<<>>} \cup {Uploaded(c) : c \in Content}]
Listed == {"upload", "compare", "assert", "public"}  \* it saw its own release alone
Drafted == Listed \cup {"ids"}

ControlType ==
  /\ tag \in Commits /\ pc \in [Dispatches -> Steps] /\ commit \in [Dispatches -> Commits]
  /\ sent \in [Dispatches -> 0 .. Len(AssetOrder)]
FlagType == slipped \in [Dispatches -> BOOLEAN]
FileType ==
  /\ file \in [Dispatches -> [Files -> Content]]
  /\ seal \in [Dispatches -> [prov : Content, list : Content]]
  /\ handed \in [Dispatches -> [Handed -> Content]]
  /\ hashed \in [Dispatches -> [Assets -> Content]]
RelType == rel \in [Dispatches -> [state : {"none", "draft", "public"}, asset : Remote]]
(* Files exist only while a job runs.                                      *)
RunnerInv == \A d \in Dispatches : pc[d] \notin Working => file[d] = NoFiles
(* How many assets are still to be uploaded.                               *)
SentInv ==
  \A d \in Dispatches : /\ pc[d] \notin Listed => sent[d] = 0
                        /\ pc[d] = "upload" => sent[d] < 5
(* A dispatch that lists, uploads and publishes has a draft, one that is   *)
(* about to create it has no release.                                      *)
DraftOf(d) == /\ pc[d] \in Drafted => rel[d].state = "draft"
              /\ pc[d] = "draft" => rel[d].state = "none"
DraftInv == \A d \in Dispatches : DraftOf(d)
(* Only one dispatch at a time has seen its own release alone.             *)
Past(d) == pc[d] \in Listed \/ rel[d].state = "public"
AloneInv == \A d, e \in Dispatches : Past(d) /\ Past(e) => d = e
(* What was compared is complete, and nothing is taken from it.            *)
WholeOf(d) ==
  pc[d] \in {"assert", "public"} \/ rel[d].state = "public" =>
    \A a \in Assets : rel[d].asset[a] # <<>>
WholeInv == \A d \in Dispatches : WholeOf(d)
(* Where the jobs stand, counted from a step that has been done.           *)
Assembled == {"verify", "seal", "keep"}                       \* after "write"
Bound     == {"archive", "bind", "sources", "write"} \cup Assembled
Receipted == {"release"} \cup Bound                           \* after "receipt"
Built     == {"check", "compile", "extract", "receipt"} \cup Receipted
Attested  == {"inno", "build", "collect", "manifest"} \cup Built
Gated     == {"fetch", "external", "plan", "install", "attest"} \cup Attested
Preparing == {"validate", "runtime"} \cup Gated
Publishing == {"approval", "revalidate", "restore", "reverify", "hash", "draft"} \cup Drafted
(* Files that stem from no alteration but their own; files nobody altered. *)
Own(d, S) == \A f \in S : file[d][f] \subseteq {f}
AllRight(d, S) == \A f \in S : file[d][f] = Right
(* The commit passed the checks of its job, and nothing is handed over or  *)
(* released before.                                                        *)
CommitInv ==
  \A d \in Dispatches :
    /\ pc[d] \in {"runtime"} \cup Gated => commit[d] \in Releasable
    /\ pc[d] \in Gated => commit[d] \in Reviewed
    /\ pc[d] \in {"idle"} \cup Preparing => handed[d] = NoHanded /\ rel[d].state = "none"
    /\ handed[d] # NoHanded \/ rel[d].state # "none" \/ pc[d] \in Publishing =>
         commit[d] \in Releasable \cap Reviewed
(* What is built stems from the attested environment and from nothing that *)
(* was altered before the manifest.                                        *)
BuiltOf(d) ==
  /\ pc[d] \in Attested => Own(d, {"tree", "python", "env"})
  /\ pc[d] \in Built => Own(d, Dist) /\ seal[d].prov = Right
BuiltInv == \A d \in Dispatches : BuiltOf(d)
(* The installer is the audited one until it is handed on.                 *)
AuditOf(d) ==
  ~slipped[d] =>
    /\ pc[d] = "receipt" => AllRight(d, {"setup"})
    /\ pc[d] \in Receipted => Own(d, {"setup"})
    /\ pc[d] = "release" =>
         \A f \in file[d]["receipt"] \ {"receipt"} :
           f \in Dist \cup {"tree"} /\ file[d][f] # Right
    /\ pc[d] \in {"archive", "bind"} => Own(d, {"receipt"})
    /\ pc[d] = "sources" => AllRight(d, {"setup", "docs"})
    /\ pc[d] = "write" => AllRight(d, {"setup", "lic"})
AuditInv == \A d \in Dispatches : AuditOf(d)
(* What is handed over and restored was altered, if at all, after it was   *)
(* written, file by file; the check after the transfer leaves none.        *)
AssetOf(d) ==
  ~slipped[d] =>
    /\ pc[d] \in Assembled \cup {"reverify"} => Own(d, Handed)
    /\ handed[d] # NoHanded \/ pc[d] \in {"approval", "revalidate", "restore"} =>
         \A f \in Handed : handed[d][f] \subseteq {f}
    /\ pc[d] = "hash" => AllRight(d, Assets)
    /\ pc[d] \in {"draft"} \cup Drafted => \A a \in Assets : hashed[d][a] = Right
    /\ pc[d] \in {"assert", "public"} \/ rel[d].state = "public" =>
         \A a \in Assets : rel[d].asset[a] = Uploaded(Right)
AssetInv == \A d \in Dispatches : AssetOf(d)
Types == ControlType /\ FlagType /\ FileType /\ RelType
IInv == /\ Types /\ RunnerInv /\ SentInv /\ DraftInv /\ AloneInv /\ WholeInv
        /\ CommitInv /\ BuiltInv /\ AuditInv /\ AssetInv

-----------------------------------------------------------------------------
(* An asset that was uploaded is one.                                      *)
LEMMA UploadedIs == \A c : Uploaded(c) # <<>>
  BY DEF Uploaded

(* The types of the proofs are those of the specification.                 *)
LEMMA TypesAgree == Types /\ RunnerInv => TypeOK
  BY DEF Types, ControlType, FlagType, FileType, RelType, Remote, RunnerInv, TypeOK

(* There are five assets, in their order.                                  *)
LEMMA OrderIs == Len(AssetOrder) = 5 /\ \A i \in 1 .. 5 : AssetOrder[i] \in Assets
  BY DEF AssetOrder, Assets, Payload

(* The jobs' steps.                                                        *)
LEMMA WorkingIs ==
  Working = {"validate", "runtime", "fetch", "external", "plan", "install", "attest", "inno",
             "build", "collect", "manifest", "check", "compile", "extract", "receipt",
             "release", "archive", "bind", "sources", "write", "verify", "seal", "keep",
             "revalidate", "restore", "reverify", "hash", "draft", "ids", "upload",
             "compare", "assert", "public"}
<1>1. {Publish[i] : i \in DOMAIN Publish} =
        {"revalidate", "restore", "reverify", "hash", "draft", "ids", "upload", "compare",
         "assert", "public"}
  BY DEF Publish
<1>2. {Prepare[i] : i \in DOMAIN Prepare} =
        {"validate", "runtime", "fetch", "external", "plan", "install", "attest", "inno",
         "build", "collect", "manifest", "check", "compile", "extract", "receipt", "release",
         "archive", "bind", "sources", "write", "verify", "seal", "keep"}
  BY DEF Prepare
<1>3. QED
  BY <1>1, <1>2 DEF Working

(* What a step makes stems from alterations of files, or from no file.     *)
LEMMA OfIs ==
  ASSUME FileType, NEW d \in Dispatches, NEW S \in SUBSET Files
  PROVE  Of(d, S) \in Content
<1>1. \A f \in S : file[d][f] \subseteq Files \cup {"none"}
  BY DEF FileType, Content
<1>2. QED
  BY <1>1 DEF Of, Content

(* The names of the files.                                                 *)
LEMMA FilesUsed ==
  /\ Dist \subseteq Files /\ Assets \subseteq Files /\ Handed \subseteq Files
  /\ {"tree", "python", "wheels", "requirements", "external", "plan", "env", "prov", "inno",
      "toc", "receipt", "list"} \subseteq Files
  /\ Dist = {"loader", "modules", "base", "native", "docs", "packages", "dprov", "manifest"}
  /\ Assets = {"setup", "srczip", "parts", "lic", "sums"}
  /\ Handed = {"setup", "srczip", "parts", "lic", "sums", "list"}
  /\ Payload = {"setup", "srczip", "parts", "lic"}
  BY DEF Files, Dist, Assets, Payload, Handed

(* So with all that the steps read.                                        *)
LEMMA ReadsAre ==
  ASSUME FileType, NEW d \in Dispatches
  PROVE  /\ Of(d, {"tree"}) \in Content /\ Of(d, {"tree", "wheels"}) \in Content
         /\ Of(d, {"requirements", "wheels", "external"}) \in Content
         /\ Of(d, {"env", "python", "tree"}) \in Content /\ Of(d, {"python"}) \in Content
         /\ Of(d, {"tree", "env"}) \in Content /\ Of(d, {"tree", "env", "python"}) \in Content
         /\ Of(d, {"env", "python"}) \in Content /\ Of(d, {"env", "prov"}) \in Content
         /\ Of(d, Dist \ {"manifest"}) \in Content /\ Of(d, Dist) \in Content
         /\ Of(d, Dist \cup {"tree", "inno"}) \in Content
         /\ Of(d, {"setup", "tree"} \cup Dist) \in Content
         /\ Of(d, {"docs", "dprov"}) \in Content /\ Of(d, Payload) \in Content
         /\ file[d]["prov"] \in Content
<1>1. /\ Dist \subseteq Files /\ Payload \subseteq Files
      /\ {"tree", "wheels", "requirements", "external", "env", "python", "prov", "inno",
          "setup", "docs", "dprov"} \subseteq Files
  BY DEF Files, Dist, Assets, Payload
<1>2. \A S \in SUBSET Files : Of(d, S) \in Content
  BY OfIs
<1>3. file[d]["prov"] \in Content
  BY <1>1 DEF FileType
<1>4. QED
  BY <1>1, <1>2, <1>3

-----------------------------------------------------------------------------
(* A step of one dispatch leaves the others alone, but that it may fill    *)
(* the empty places of their releases.                                     *)
Frame(d) ==
  \A e \in Dispatches \ {d} :
    /\ pc'[e] = pc[e] /\ file'[e] = file[e] /\ seal'[e] = seal[e]
    /\ handed'[e] = handed[e] /\ hashed'[e] = hashed[e] /\ slipped'[e] = slipped[e]
    /\ rel'[e].state = rel[e].state
    /\ \A a \in Assets : rel[e].asset[a] # <<>> => rel'[e].asset[a] = rel[e].asset[a]
(* It goes on and writes files of S.                                       *)
Goes(d, from, to, S) ==
  /\ pc[d] = from /\ pc'[d] = to
  /\ \A f \in Files \ S : file'[d][f] = file[d][f]
(* It keeps what earlier jobs and earlier steps have put aside.            *)
Keeps(d) ==
  /\ seal'[d] = seal[d] /\ handed'[d] = handed[d] /\ hashed'[d] = hashed[d]
  /\ slipped'[d] = slipped[d]

(* Every step keeps ControlType.                                           *)
LEMMA NextControlType == IInv /\ [Next]_vars => ControlType'
<1> SUFFICES ASSUME IInv, [Next]_vars PROVE ControlType'
  OBVIOUS
<1> USE WorkingIs, OrderIs DEF IInv, Types, ControlType, SentInv, Listed, Steps, GoTo, outputs,
    upload, github, bounds, vars
<1>1. ASSUME NEW d \in Dispatches, Checkout(d) PROVE ControlType'
  BY <1>1 DEF Checkout, Step
<1>2. ASSUME NEW d \in Dispatches, ValidateInputs(d) PROVE ControlType'
  BY <1>2 DEF ValidateInputs, Checks, Makes, Step, TagStands
<1>3. ASSUME NEW d \in Dispatches, PreparePython(d) PROVE ControlType'
  BY <1>3 DEF PreparePython, Makes, Step, GatesClosed
<1>4. ASSUME NEW d \in Dispatches, FetchWheels(d) PROVE ControlType'
  BY <1>4 DEF FetchWheels, Makes, Step
<1>5. ASSUME NEW d \in Dispatches, PrepareExternal(d) PROVE ControlType'
  BY <1>5 DEF PrepareExternal, Makes, Step
<1>6. ASSUME NEW d \in Dispatches, WritePlan(d) PROVE ControlType'
  BY <1>6 DEF WritePlan, Makes, Step
<1>7. ASSUME NEW d \in Dispatches, PipInstall(d) PROVE ControlType'
  BY <1>7 DEF PipInstall, Makes, Step
<1>8. ASSUME NEW d \in Dispatches, Attest(d) PROVE ControlType'
  BY <1>8 DEF Attest, Makes, Step
<1>9. ASSUME NEW d \in Dispatches, PrepareInno(d) PROVE ControlType'
  BY <1>9, FilesUsed DEF PrepareInno, Step
<1>10. ASSUME NEW d \in Dispatches, Build(d) PROVE ControlType'
  BY <1>10 DEF Build, Makes, Step
<1>11. ASSUME NEW d \in Dispatches, CollectLicenses(d) PROVE ControlType'
  BY <1>11, FilesUsed DEF CollectLicenses, Makes, Step
<1>12. ASSUME NEW d \in Dispatches, WriteManifest(d) PROVE ControlType'
  BY <1>12 DEF WriteManifest, Makes, Step
<1>13. ASSUME NEW d \in Dispatches, CheckDistribution(d) PROVE ControlType'
  BY <1>13 DEF CheckDistribution, Checks, Makes, Step
<1>14. ASSUME NEW d \in Dispatches, CompileInstaller(d) PROVE ControlType'
  BY <1>14 DEF CompileInstaller, Makes, Step
<1>15. ASSUME NEW d \in Dispatches, AuditPayload(d) PROVE ControlType'
  BY <1>15 DEF AuditPayload, Checks, Makes, Step
<1>16. ASSUME NEW d \in Dispatches, WriteReceipt(d) PROVE ControlType'
  BY <1>16 DEF WriteReceipt, AuditedBytes, Makes, Step
<1>17. ASSUME NEW d \in Dispatches, CheckRelease(d) PROVE ControlType'
  BY <1>17 DEF CheckRelease, Checks, Makes, Step, GatesClosed
<1>18. ASSUME NEW d \in Dispatches, ArchiveSource(d) PROVE ControlType'
  BY <1>18 DEF ArchiveSource, Makes, Step
<1>19. ASSUME NEW d \in Dispatches, BindReceipt(d) PROVE ControlType'
  BY <1>19 DEF BindReceipt, Checks, Makes, Step
<1>20. ASSUME NEW d \in Dispatches, MakeArchives(d) PROVE ControlType'
  BY <1>20 DEF MakeArchives, Makes, Step
<1>21. ASSUME NEW d \in Dispatches, WriteAssetList(d) PROVE ControlType'
  BY <1>21 DEF WriteAssetList, Makes, Step
<1>22. ASSUME NEW d \in Dispatches, VerifyAssets(d) PROVE ControlType'
  BY <1>22 DEF VerifyAssets, Checks, Makes, Step
<1>23. ASSUME NEW d \in Dispatches, SealList(d) PROVE ControlType'
  BY <1>23, FilesUsed DEF SealList, Step
<1>24. ASSUME NEW d \in Dispatches, KeepArtifact(d) PROVE ControlType'
  BY <1>24, FilesUsed DEF KeepArtifact, Step
<1>25. ASSUME NEW d \in Dispatches, Approve(d) PROVE ControlType'
  BY <1>25 DEF Approve, Checks, Makes, Step
<1>26. ASSUME NEW d \in Dispatches, Revalidate(d) PROVE ControlType'
  BY <1>26 DEF Revalidate, Checks, Makes, Step, TagStands
<1>27. ASSUME NEW d \in Dispatches, Restore(d) PROVE ControlType'
  BY <1>27 DEF Restore, Makes, Step
<1>28. ASSUME NEW d \in Dispatches, Reverify(d) PROVE ControlType'
  BY <1>28 DEF Reverify, Checks, Makes, Step
<1>29. ASSUME NEW d \in Dispatches, HashAssets(d) PROVE ControlType'
  BY <1>29, FilesUsed DEF HashAssets, Step
<1>30. ASSUME NEW d \in Dispatches, CreateDraft(d) PROVE ControlType'
  BY <1>30 DEF CreateDraft, Step
<1>31. ASSUME NEW d \in Dispatches, ListIds(d) PROVE ControlType'
  BY <1>31 DEF ListIds, Checks, Makes, Step
<1>32. ASSUME NEW d \in Dispatches, UploadAsset(d) PROVE ControlType'
  BY <1>32 DEF UploadAsset, Step
<1>33. ASSUME NEW d \in Dispatches, CompareRemote(d) PROVE ControlType'
  BY <1>33 DEF CompareRemote, Step
<1>34. ASSUME NEW d \in Dispatches, AssertTag(d) PROVE ControlType'
  BY <1>34 DEF AssertTag, Checks, Makes, Step
<1>35. ASSUME NEW d \in Dispatches, MakePublic(d) PROVE ControlType'
  BY <1>35 DEF MakePublic, Leave
<1>36. ASSUME NEW d \in Dispatches, Fails(d) PROVE ControlType'
  BY <1>36 DEF Fails, Leave
<1>37. ASSUME NEW d \in Dispatches, Rerun(d) PROVE ControlType'
  BY <1>37 DEF Rerun
<1>38. ASSUME NEW d \in Dispatches, DeleteDraft(d) PROVE ControlType'
  BY <1>38 DEF DeleteDraft
<1>39. ASSUME NEW d \in Dispatches, NEW f \in Files, Edit(d, f) PROVE ControlType'
  BY <1>39 DEF Edit
<1>40. ASSUME MoveTag PROVE ControlType'
  BY <1>40 DEF MoveTag
<1>41. CASE UNCHANGED vars
  BY <1>41
<1>42. QED
  BY <1>1, <1>2, <1>3, <1>4, <1>5, <1>6, <1>7, <1>8, <1>9, <1>10, <1>11, <1>12, <1>13, <1>14,
      <1>15, <1>16, <1>17, <1>18, <1>19, <1>20, <1>21, <1>22, <1>23, <1>24, <1>25, <1>26, <1>27,
      <1>28, <1>29, <1>30, <1>31, <1>32, <1>33, <1>34, <1>35, <1>36, <1>37, <1>38, <1>39, <1>40,
      <1>41 DEF Next, PrepareStep, PublishStep

(* Every step keeps FlagType.                                              *)
LEMMA NextFlagType == IInv /\ [Next]_vars => FlagType'
<1> SUFFICES ASSUME IInv, [Next]_vars PROVE FlagType'
  OBVIOUS
<1> USE DEF IInv, Types, FlagType, GoTo, outputs, upload, github, bounds, vars
<1>1. ASSUME NEW d \in Dispatches, Checkout(d) PROVE FlagType'
  BY <1>1 DEF Checkout, Step
<1>2. ASSUME NEW d \in Dispatches, ValidateInputs(d) PROVE FlagType'
  BY <1>2 DEF ValidateInputs, Checks, Makes, Step, TagStands
<1>3. ASSUME NEW d \in Dispatches, PreparePython(d) PROVE FlagType'
  BY <1>3 DEF PreparePython, Makes, Step, GatesClosed
<1>4. ASSUME NEW d \in Dispatches, FetchWheels(d) PROVE FlagType'
  BY <1>4 DEF FetchWheels, Makes, Step
<1>5. ASSUME NEW d \in Dispatches, PrepareExternal(d) PROVE FlagType'
  BY <1>5 DEF PrepareExternal, Makes, Step
<1>6. ASSUME NEW d \in Dispatches, WritePlan(d) PROVE FlagType'
  BY <1>6 DEF WritePlan, Makes, Step
<1>7. ASSUME NEW d \in Dispatches, PipInstall(d) PROVE FlagType'
  BY <1>7 DEF PipInstall, Makes, Step
<1>8. ASSUME NEW d \in Dispatches, Attest(d) PROVE FlagType'
  BY <1>8 DEF Attest, Makes, Step
<1>9. ASSUME NEW d \in Dispatches, PrepareInno(d) PROVE FlagType'
  BY <1>9, FilesUsed DEF PrepareInno, Step
<1>10. ASSUME NEW d \in Dispatches, Build(d) PROVE FlagType'
  BY <1>10 DEF Build, Makes, Step
<1>11. ASSUME NEW d \in Dispatches, CollectLicenses(d) PROVE FlagType'
  BY <1>11, FilesUsed DEF CollectLicenses, Makes, Step
<1>12. ASSUME NEW d \in Dispatches, WriteManifest(d) PROVE FlagType'
  BY <1>12 DEF WriteManifest, Makes, Step
<1>13. ASSUME NEW d \in Dispatches, CheckDistribution(d) PROVE FlagType'
  BY <1>13 DEF CheckDistribution, Checks, Makes, Step
<1>14. ASSUME NEW d \in Dispatches, CompileInstaller(d) PROVE FlagType'
  BY <1>14 DEF CompileInstaller, Makes, Step
<1>15. ASSUME NEW d \in Dispatches, AuditPayload(d) PROVE FlagType'
  BY <1>15 DEF AuditPayload, Checks, Makes, Step
<1>16. ASSUME NEW d \in Dispatches, WriteReceipt(d) PROVE FlagType'
  BY <1>16 DEF WriteReceipt, AuditedBytes, Makes, Step
<1>17. ASSUME NEW d \in Dispatches, CheckRelease(d) PROVE FlagType'
  BY <1>17 DEF CheckRelease, Checks, Makes, Step, GatesClosed
<1>18. ASSUME NEW d \in Dispatches, ArchiveSource(d) PROVE FlagType'
  BY <1>18 DEF ArchiveSource, Makes, Step
<1>19. ASSUME NEW d \in Dispatches, BindReceipt(d) PROVE FlagType'
  BY <1>19 DEF BindReceipt, Checks, Makes, Step
<1>20. ASSUME NEW d \in Dispatches, MakeArchives(d) PROVE FlagType'
  BY <1>20 DEF MakeArchives, Makes, Step
<1>21. ASSUME NEW d \in Dispatches, WriteAssetList(d) PROVE FlagType'
  BY <1>21 DEF WriteAssetList, Makes, Step
<1>22. ASSUME NEW d \in Dispatches, VerifyAssets(d) PROVE FlagType'
  BY <1>22 DEF VerifyAssets, Checks, Makes, Step
<1>23. ASSUME NEW d \in Dispatches, SealList(d) PROVE FlagType'
  BY <1>23, FilesUsed DEF SealList, Step
<1>24. ASSUME NEW d \in Dispatches, KeepArtifact(d) PROVE FlagType'
  BY <1>24, FilesUsed DEF KeepArtifact, Step
<1>25. ASSUME NEW d \in Dispatches, Approve(d) PROVE FlagType'
  BY <1>25 DEF Approve, Checks, Makes, Step
<1>26. ASSUME NEW d \in Dispatches, Revalidate(d) PROVE FlagType'
  BY <1>26 DEF Revalidate, Checks, Makes, Step, TagStands
<1>27. ASSUME NEW d \in Dispatches, Restore(d) PROVE FlagType'
  BY <1>27 DEF Restore, Makes, Step
<1>28. ASSUME NEW d \in Dispatches, Reverify(d) PROVE FlagType'
  BY <1>28 DEF Reverify, Checks, Makes, Step
<1>29. ASSUME NEW d \in Dispatches, HashAssets(d) PROVE FlagType'
  BY <1>29, FilesUsed DEF HashAssets, Step
<1>30. ASSUME NEW d \in Dispatches, CreateDraft(d) PROVE FlagType'
  BY <1>30 DEF CreateDraft, Step
<1>31. ASSUME NEW d \in Dispatches, ListIds(d) PROVE FlagType'
  BY <1>31 DEF ListIds, Checks, Makes, Step
<1>32. ASSUME NEW d \in Dispatches, UploadAsset(d) PROVE FlagType'
  BY <1>32 DEF UploadAsset, Step
<1>33. ASSUME NEW d \in Dispatches, CompareRemote(d) PROVE FlagType'
  BY <1>33 DEF CompareRemote, Step
<1>34. ASSUME NEW d \in Dispatches, AssertTag(d) PROVE FlagType'
  BY <1>34 DEF AssertTag, Checks, Makes, Step
<1>35. ASSUME NEW d \in Dispatches, MakePublic(d) PROVE FlagType'
  BY <1>35 DEF MakePublic, Leave
<1>36. ASSUME NEW d \in Dispatches, Fails(d) PROVE FlagType'
  BY <1>36 DEF Fails, Leave
<1>37. ASSUME NEW d \in Dispatches, Rerun(d) PROVE FlagType'
  BY <1>37 DEF Rerun
<1>38. ASSUME NEW d \in Dispatches, DeleteDraft(d) PROVE FlagType'
  BY <1>38 DEF DeleteDraft
<1>39. ASSUME NEW d \in Dispatches, NEW f \in Files, Edit(d, f) PROVE FlagType'
  BY <1>39 DEF Edit
<1>40. ASSUME MoveTag PROVE FlagType'
  BY <1>40 DEF MoveTag
<1>41. CASE UNCHANGED vars
  BY <1>41
<1>42. QED
  BY <1>1, <1>2, <1>3, <1>4, <1>5, <1>6, <1>7, <1>8, <1>9, <1>10, <1>11, <1>12, <1>13, <1>14,
      <1>15, <1>16, <1>17, <1>18, <1>19, <1>20, <1>21, <1>22, <1>23, <1>24, <1>25, <1>26, <1>27,
      <1>28, <1>29, <1>30, <1>31, <1>32, <1>33, <1>34, <1>35, <1>36, <1>37, <1>38, <1>39, <1>40,
      <1>41 DEF Next, PrepareStep, PublishStep

(* Every step keeps RelType.                                               *)
LEMMA NextRelType == IInv /\ [Next]_vars => RelType'
<1> SUFFICES ASSUME IInv, [Next]_vars PROVE RelType'
  OBVIOUS
<1> USE DEF IInv, Types, FileType, RelType, Remote, NoAsset, GoTo, outputs, upload, github,
    bounds, vars
<1>1. ASSUME NEW d \in Dispatches, Checkout(d) PROVE RelType'
  BY <1>1 DEF Checkout, Step
<1>2. ASSUME NEW d \in Dispatches, ValidateInputs(d) PROVE RelType'
  BY <1>2 DEF ValidateInputs, Checks, Makes, Step, TagStands
<1>3. ASSUME NEW d \in Dispatches, PreparePython(d) PROVE RelType'
  BY <1>3 DEF PreparePython, Makes, Step, GatesClosed
<1>4. ASSUME NEW d \in Dispatches, FetchWheels(d) PROVE RelType'
  BY <1>4 DEF FetchWheels, Makes, Step
<1>5. ASSUME NEW d \in Dispatches, PrepareExternal(d) PROVE RelType'
  BY <1>5 DEF PrepareExternal, Makes, Step
<1>6. ASSUME NEW d \in Dispatches, WritePlan(d) PROVE RelType'
  BY <1>6 DEF WritePlan, Makes, Step
<1>7. ASSUME NEW d \in Dispatches, PipInstall(d) PROVE RelType'
  BY <1>7 DEF PipInstall, Makes, Step
<1>8. ASSUME NEW d \in Dispatches, Attest(d) PROVE RelType'
  BY <1>8 DEF Attest, Makes, Step
<1>9. ASSUME NEW d \in Dispatches, PrepareInno(d) PROVE RelType'
  BY <1>9, FilesUsed DEF PrepareInno, Step
<1>10. ASSUME NEW d \in Dispatches, Build(d) PROVE RelType'
  BY <1>10 DEF Build, Makes, Step
<1>11. ASSUME NEW d \in Dispatches, CollectLicenses(d) PROVE RelType'
  BY <1>11, FilesUsed DEF CollectLicenses, Makes, Step
<1>12. ASSUME NEW d \in Dispatches, WriteManifest(d) PROVE RelType'
  BY <1>12 DEF WriteManifest, Makes, Step
<1>13. ASSUME NEW d \in Dispatches, CheckDistribution(d) PROVE RelType'
  BY <1>13 DEF CheckDistribution, Checks, Makes, Step
<1>14. ASSUME NEW d \in Dispatches, CompileInstaller(d) PROVE RelType'
  BY <1>14 DEF CompileInstaller, Makes, Step
<1>15. ASSUME NEW d \in Dispatches, AuditPayload(d) PROVE RelType'
  BY <1>15 DEF AuditPayload, Checks, Makes, Step
<1>16. ASSUME NEW d \in Dispatches, WriteReceipt(d) PROVE RelType'
  BY <1>16 DEF WriteReceipt, AuditedBytes, Makes, Step
<1>17. ASSUME NEW d \in Dispatches, CheckRelease(d) PROVE RelType'
  BY <1>17 DEF CheckRelease, Checks, Makes, Step, GatesClosed
<1>18. ASSUME NEW d \in Dispatches, ArchiveSource(d) PROVE RelType'
  BY <1>18 DEF ArchiveSource, Makes, Step
<1>19. ASSUME NEW d \in Dispatches, BindReceipt(d) PROVE RelType'
  BY <1>19 DEF BindReceipt, Checks, Makes, Step
<1>20. ASSUME NEW d \in Dispatches, MakeArchives(d) PROVE RelType'
  BY <1>20 DEF MakeArchives, Makes, Step
<1>21. ASSUME NEW d \in Dispatches, WriteAssetList(d) PROVE RelType'
  BY <1>21 DEF WriteAssetList, Makes, Step
<1>22. ASSUME NEW d \in Dispatches, VerifyAssets(d) PROVE RelType'
  BY <1>22 DEF VerifyAssets, Checks, Makes, Step
<1>23. ASSUME NEW d \in Dispatches, SealList(d) PROVE RelType'
  BY <1>23, FilesUsed DEF SealList, Step
<1>24. ASSUME NEW d \in Dispatches, KeepArtifact(d) PROVE RelType'
  BY <1>24, FilesUsed DEF KeepArtifact, Step
<1>25. ASSUME NEW d \in Dispatches, Approve(d) PROVE RelType'
  BY <1>25 DEF Approve, Checks, Makes, Step
<1>26. ASSUME NEW d \in Dispatches, Revalidate(d) PROVE RelType'
  BY <1>26 DEF Revalidate, Checks, Makes, Step, TagStands
<1>27. ASSUME NEW d \in Dispatches, Restore(d) PROVE RelType'
  BY <1>27 DEF Restore, Makes, Step
<1>28. ASSUME NEW d \in Dispatches, Reverify(d) PROVE RelType'
  BY <1>28 DEF Reverify, Checks, Makes, Step
<1>29. ASSUME NEW d \in Dispatches, HashAssets(d) PROVE RelType'
  BY <1>29, FilesUsed DEF HashAssets, Step
<1>30. ASSUME NEW d \in Dispatches, CreateDraft(d) PROVE RelType'
  BY <1>30 DEF CreateDraft, Step
<1>31. ASSUME NEW d \in Dispatches, ListIds(d) PROVE RelType'
  BY <1>31 DEF ListIds, Checks, Makes, Step
<1>32. ASSUME NEW d \in Dispatches, UploadAsset(d) PROVE RelType'
  <2>1. PICK e \in Dispatches :
          rel' = [rel EXCEPT ![e].asset[AssetOrder[sent[d] + 1]] =
                    Uploaded(file[d][AssetOrder[sent[d] + 1]])]
    BY <1>32 DEF UploadAsset, Releases
  <2>2. AssetOrder[sent[d] + 1] \in Assets
    <3>1. pc[d] = "upload"
      BY <1>32 DEF UploadAsset, Step
    <3>2. sent[d] \in 0 .. 5 /\ sent[d] < 5
      BY <3>1, OrderIs DEF SentInv, ControlType
    <3>3. sent[d] + 1 \in 1 .. 5
      BY <3>2
    <3>4. QED
      BY <3>3, OrderIs
  <2>3. Assets \subseteq Files
    BY DEF Files
  <2>4. Uploaded(file[d][AssetOrder[sent[d] + 1]]) \in {Uploaded(c) : c \in Content}
    BY <2>2, <2>3
  <2>5. QED
    BY <2>1, <2>2, <2>4
<1>33. ASSUME NEW d \in Dispatches, CompareRemote(d) PROVE RelType'
  BY <1>33 DEF CompareRemote, Step
<1>34. ASSUME NEW d \in Dispatches, AssertTag(d) PROVE RelType'
  BY <1>34 DEF AssertTag, Checks, Makes, Step
<1>35. ASSUME NEW d \in Dispatches, MakePublic(d) PROVE RelType'
  BY <1>35 DEF MakePublic, Leave
<1>36. ASSUME NEW d \in Dispatches, Fails(d) PROVE RelType'
  BY <1>36 DEF Fails, Leave
<1>37. ASSUME NEW d \in Dispatches, Rerun(d) PROVE RelType'
  BY <1>37 DEF Rerun
<1>38. ASSUME NEW d \in Dispatches, DeleteDraft(d) PROVE RelType'
  BY <1>38 DEF DeleteDraft
<1>39. ASSUME NEW d \in Dispatches, NEW f \in Files, Edit(d, f) PROVE RelType'
  BY <1>39 DEF Edit
<1>40. ASSUME MoveTag PROVE RelType'
  BY <1>40 DEF MoveTag
<1>41. CASE UNCHANGED vars
  BY <1>41
<1>42. QED
  BY <1>1, <1>2, <1>3, <1>4, <1>5, <1>6, <1>7, <1>8, <1>9, <1>10, <1>11, <1>12, <1>13, <1>14,
      <1>15, <1>16, <1>17, <1>18, <1>19, <1>20, <1>21, <1>22, <1>23, <1>24, <1>25, <1>26, <1>27,
      <1>28, <1>29, <1>30, <1>31, <1>32, <1>33, <1>34, <1>35, <1>36, <1>37, <1>38, <1>39, <1>40,
      <1>41 DEF Next, PrepareStep, PublishStep

(* Every step keeps RunnerInv.                                             *)
LEMMA NextRunnerInv == IInv /\ [Next]_vars => RunnerInv'
<1> SUFFICES ASSUME IInv, [Next]_vars PROVE RunnerInv'
  OBVIOUS
<1> USE WorkingIs DEF IInv, Types, ControlType, FileType, RunnerInv, NoFiles, GoTo, outputs,
    upload, github, bounds, vars
<1>1. ASSUME NEW d \in Dispatches, Checkout(d) PROVE RunnerInv'
  BY <1>1 DEF Checkout, Step
<1>2. ASSUME NEW d \in Dispatches, ValidateInputs(d) PROVE RunnerInv'
  BY <1>2 DEF ValidateInputs, Checks, Makes, Step, TagStands
<1>3. ASSUME NEW d \in Dispatches, PreparePython(d) PROVE RunnerInv'
  BY <1>3 DEF PreparePython, Makes, Step, GatesClosed
<1>4. ASSUME NEW d \in Dispatches, FetchWheels(d) PROVE RunnerInv'
  BY <1>4 DEF FetchWheels, Makes, Step
<1>5. ASSUME NEW d \in Dispatches, PrepareExternal(d) PROVE RunnerInv'
  BY <1>5 DEF PrepareExternal, Makes, Step
<1>6. ASSUME NEW d \in Dispatches, WritePlan(d) PROVE RunnerInv'
  BY <1>6 DEF WritePlan, Makes, Step
<1>7. ASSUME NEW d \in Dispatches, PipInstall(d) PROVE RunnerInv'
  BY <1>7 DEF PipInstall, Makes, Step
<1>8. ASSUME NEW d \in Dispatches, Attest(d) PROVE RunnerInv'
  BY <1>8 DEF Attest, Makes, Step
<1>9. ASSUME NEW d \in Dispatches, PrepareInno(d) PROVE RunnerInv'
  BY <1>9, FilesUsed DEF PrepareInno, Step
<1>10. ASSUME NEW d \in Dispatches, Build(d) PROVE RunnerInv'
  BY <1>10 DEF Build, Makes, Step
<1>11. ASSUME NEW d \in Dispatches, CollectLicenses(d) PROVE RunnerInv'
  BY <1>11, FilesUsed DEF CollectLicenses, Makes, Step
<1>12. ASSUME NEW d \in Dispatches, WriteManifest(d) PROVE RunnerInv'
  BY <1>12 DEF WriteManifest, Makes, Step
<1>13. ASSUME NEW d \in Dispatches, CheckDistribution(d) PROVE RunnerInv'
  BY <1>13 DEF CheckDistribution, Checks, Makes, Step
<1>14. ASSUME NEW d \in Dispatches, CompileInstaller(d) PROVE RunnerInv'
  BY <1>14 DEF CompileInstaller, Makes, Step
<1>15. ASSUME NEW d \in Dispatches, AuditPayload(d) PROVE RunnerInv'
  BY <1>15 DEF AuditPayload, Checks, Makes, Step
<1>16. ASSUME NEW d \in Dispatches, WriteReceipt(d) PROVE RunnerInv'
  BY <1>16 DEF WriteReceipt, AuditedBytes, Makes, Step
<1>17. ASSUME NEW d \in Dispatches, CheckRelease(d) PROVE RunnerInv'
  BY <1>17 DEF CheckRelease, Checks, Makes, Step, GatesClosed
<1>18. ASSUME NEW d \in Dispatches, ArchiveSource(d) PROVE RunnerInv'
  BY <1>18 DEF ArchiveSource, Makes, Step
<1>19. ASSUME NEW d \in Dispatches, BindReceipt(d) PROVE RunnerInv'
  BY <1>19 DEF BindReceipt, Checks, Makes, Step
<1>20. ASSUME NEW d \in Dispatches, MakeArchives(d) PROVE RunnerInv'
  BY <1>20 DEF MakeArchives, Makes, Step
<1>21. ASSUME NEW d \in Dispatches, WriteAssetList(d) PROVE RunnerInv'
  BY <1>21 DEF WriteAssetList, Makes, Step
<1>22. ASSUME NEW d \in Dispatches, VerifyAssets(d) PROVE RunnerInv'
  BY <1>22 DEF VerifyAssets, Checks, Makes, Step
<1>23. ASSUME NEW d \in Dispatches, SealList(d) PROVE RunnerInv'
  BY <1>23, FilesUsed DEF SealList, Step
<1>24. ASSUME NEW d \in Dispatches, KeepArtifact(d) PROVE RunnerInv'
  BY <1>24, FilesUsed DEF KeepArtifact, Step
<1>25. ASSUME NEW d \in Dispatches, Approve(d) PROVE RunnerInv'
  BY <1>25 DEF Approve, Checks, Makes, Step
<1>26. ASSUME NEW d \in Dispatches, Revalidate(d) PROVE RunnerInv'
  BY <1>26 DEF Revalidate, Checks, Makes, Step, TagStands
<1>27. ASSUME NEW d \in Dispatches, Restore(d) PROVE RunnerInv'
  BY <1>27 DEF Restore, Makes, Step
<1>28. ASSUME NEW d \in Dispatches, Reverify(d) PROVE RunnerInv'
  BY <1>28 DEF Reverify, Checks, Makes, Step
<1>29. ASSUME NEW d \in Dispatches, HashAssets(d) PROVE RunnerInv'
  BY <1>29, FilesUsed DEF HashAssets, Step
<1>30. ASSUME NEW d \in Dispatches, CreateDraft(d) PROVE RunnerInv'
  BY <1>30 DEF CreateDraft, Step
<1>31. ASSUME NEW d \in Dispatches, ListIds(d) PROVE RunnerInv'
  BY <1>31 DEF ListIds, Checks, Makes, Step
<1>32. ASSUME NEW d \in Dispatches, UploadAsset(d) PROVE RunnerInv'
  BY <1>32 DEF UploadAsset, Step
<1>33. ASSUME NEW d \in Dispatches, CompareRemote(d) PROVE RunnerInv'
  BY <1>33 DEF CompareRemote, Step
<1>34. ASSUME NEW d \in Dispatches, AssertTag(d) PROVE RunnerInv'
  BY <1>34 DEF AssertTag, Checks, Makes, Step
<1>35. ASSUME NEW d \in Dispatches, MakePublic(d) PROVE RunnerInv'
  BY <1>35 DEF MakePublic, Leave
<1>36. ASSUME NEW d \in Dispatches, Fails(d) PROVE RunnerInv'
  BY <1>36 DEF Fails, Leave
<1>37. ASSUME NEW d \in Dispatches, Rerun(d) PROVE RunnerInv'
  BY <1>37 DEF Rerun
<1>38. ASSUME NEW d \in Dispatches, DeleteDraft(d) PROVE RunnerInv'
  BY <1>38 DEF DeleteDraft
<1>39. ASSUME NEW d \in Dispatches, NEW f \in Files, Edit(d, f) PROVE RunnerInv'
  BY <1>39 DEF Edit
<1>40. ASSUME MoveTag PROVE RunnerInv'
  BY <1>40 DEF MoveTag
<1>41. CASE UNCHANGED vars
  BY <1>41
<1>42. QED
  BY <1>1, <1>2, <1>3, <1>4, <1>5, <1>6, <1>7, <1>8, <1>9, <1>10, <1>11, <1>12, <1>13, <1>14,
      <1>15, <1>16, <1>17, <1>18, <1>19, <1>20, <1>21, <1>22, <1>23, <1>24, <1>25, <1>26, <1>27,
      <1>28, <1>29, <1>30, <1>31, <1>32, <1>33, <1>34, <1>35, <1>36, <1>37, <1>38, <1>39, <1>40,
      <1>41 DEF Next, PrepareStep, PublishStep

(* Every step keeps SentInv.                                               *)
LEMMA NextSentInv == IInv /\ [Next]_vars => SentInv'
<1> SUFFICES ASSUME IInv, [Next]_vars PROVE SentInv'
  OBVIOUS
<1> USE OrderIs DEF IInv, Types, ControlType, SentInv, Listed, GoTo, outputs, upload, github,
    bounds, vars
<1>1. ASSUME NEW d \in Dispatches, Checkout(d) PROVE SentInv'
  BY <1>1 DEF Checkout, Step
<1>2. ASSUME NEW d \in Dispatches, ValidateInputs(d) PROVE SentInv'
  BY <1>2 DEF ValidateInputs, Checks, Makes, Step, TagStands
<1>3. ASSUME NEW d \in Dispatches, PreparePython(d) PROVE SentInv'
  BY <1>3 DEF PreparePython, Makes, Step, GatesClosed
<1>4. ASSUME NEW d \in Dispatches, FetchWheels(d) PROVE SentInv'
  BY <1>4 DEF FetchWheels, Makes, Step
<1>5. ASSUME NEW d \in Dispatches, PrepareExternal(d) PROVE SentInv'
  BY <1>5 DEF PrepareExternal, Makes, Step
<1>6. ASSUME NEW d \in Dispatches, WritePlan(d) PROVE SentInv'
  BY <1>6 DEF WritePlan, Makes, Step
<1>7. ASSUME NEW d \in Dispatches, PipInstall(d) PROVE SentInv'
  BY <1>7 DEF PipInstall, Makes, Step
<1>8. ASSUME NEW d \in Dispatches, Attest(d) PROVE SentInv'
  BY <1>8 DEF Attest, Makes, Step
<1>9. ASSUME NEW d \in Dispatches, PrepareInno(d) PROVE SentInv'
  BY <1>9, FilesUsed DEF PrepareInno, Step
<1>10. ASSUME NEW d \in Dispatches, Build(d) PROVE SentInv'
  BY <1>10 DEF Build, Makes, Step
<1>11. ASSUME NEW d \in Dispatches, CollectLicenses(d) PROVE SentInv'
  BY <1>11, FilesUsed DEF CollectLicenses, Makes, Step
<1>12. ASSUME NEW d \in Dispatches, WriteManifest(d) PROVE SentInv'
  BY <1>12 DEF WriteManifest, Makes, Step
<1>13. ASSUME NEW d \in Dispatches, CheckDistribution(d) PROVE SentInv'
  BY <1>13 DEF CheckDistribution, Checks, Makes, Step
<1>14. ASSUME NEW d \in Dispatches, CompileInstaller(d) PROVE SentInv'
  BY <1>14 DEF CompileInstaller, Makes, Step
<1>15. ASSUME NEW d \in Dispatches, AuditPayload(d) PROVE SentInv'
  BY <1>15 DEF AuditPayload, Checks, Makes, Step
<1>16. ASSUME NEW d \in Dispatches, WriteReceipt(d) PROVE SentInv'
  BY <1>16 DEF WriteReceipt, AuditedBytes, Makes, Step
<1>17. ASSUME NEW d \in Dispatches, CheckRelease(d) PROVE SentInv'
  BY <1>17 DEF CheckRelease, Checks, Makes, Step, GatesClosed
<1>18. ASSUME NEW d \in Dispatches, ArchiveSource(d) PROVE SentInv'
  BY <1>18 DEF ArchiveSource, Makes, Step
<1>19. ASSUME NEW d \in Dispatches, BindReceipt(d) PROVE SentInv'
  BY <1>19 DEF BindReceipt, Checks, Makes, Step
<1>20. ASSUME NEW d \in Dispatches, MakeArchives(d) PROVE SentInv'
  BY <1>20 DEF MakeArchives, Makes, Step
<1>21. ASSUME NEW d \in Dispatches, WriteAssetList(d) PROVE SentInv'
  BY <1>21 DEF WriteAssetList, Makes, Step
<1>22. ASSUME NEW d \in Dispatches, VerifyAssets(d) PROVE SentInv'
  BY <1>22 DEF VerifyAssets, Checks, Makes, Step
<1>23. ASSUME NEW d \in Dispatches, SealList(d) PROVE SentInv'
  BY <1>23, FilesUsed DEF SealList, Step
<1>24. ASSUME NEW d \in Dispatches, KeepArtifact(d) PROVE SentInv'
  BY <1>24, FilesUsed DEF KeepArtifact, Step
<1>25. ASSUME NEW d \in Dispatches, Approve(d) PROVE SentInv'
  BY <1>25 DEF Approve, Checks, Makes, Step
<1>26. ASSUME NEW d \in Dispatches, Revalidate(d) PROVE SentInv'
  BY <1>26 DEF Revalidate, Checks, Makes, Step, TagStands
<1>27. ASSUME NEW d \in Dispatches, Restore(d) PROVE SentInv'
  BY <1>27 DEF Restore, Makes, Step
<1>28. ASSUME NEW d \in Dispatches, Reverify(d) PROVE SentInv'
  BY <1>28 DEF Reverify, Checks, Makes, Step
<1>29. ASSUME NEW d \in Dispatches, HashAssets(d) PROVE SentInv'
  BY <1>29, FilesUsed DEF HashAssets, Step
<1>30. ASSUME NEW d \in Dispatches, CreateDraft(d) PROVE SentInv'
  BY <1>30 DEF CreateDraft, Step
<1>31. ASSUME NEW d \in Dispatches, ListIds(d) PROVE SentInv'
  BY <1>31 DEF ListIds, Checks, Makes, Step
<1>32. ASSUME NEW d \in Dispatches, UploadAsset(d) PROVE SentInv'
  <2>1. /\ pc[d] = "upload" /\ sent' = [sent EXCEPT ![d] = @ + 1]
        /\ pc' = [pc EXCEPT ![d] = IF sent[d] + 1 = 5 THEN "compare" ELSE "upload"]
    BY <1>32, OrderIs DEF UploadAsset, Step
  <2>2. sent[d] \in 0 .. 5 /\ sent[d] < 5
    BY <2>1, OrderIs
  <2>3. QED
    BY <2>1, <2>2
<1>33. ASSUME NEW d \in Dispatches, CompareRemote(d) PROVE SentInv'
  BY <1>33 DEF CompareRemote, Step
<1>34. ASSUME NEW d \in Dispatches, AssertTag(d) PROVE SentInv'
  BY <1>34 DEF AssertTag, Checks, Makes, Step
<1>35. ASSUME NEW d \in Dispatches, MakePublic(d) PROVE SentInv'
  BY <1>35 DEF MakePublic, Leave
<1>36. ASSUME NEW d \in Dispatches, Fails(d) PROVE SentInv'
  BY <1>36 DEF Fails, Leave
<1>37. ASSUME NEW d \in Dispatches, Rerun(d) PROVE SentInv'
  BY <1>37 DEF Rerun
<1>38. ASSUME NEW d \in Dispatches, DeleteDraft(d) PROVE SentInv'
  BY <1>38 DEF DeleteDraft
<1>39. ASSUME NEW d \in Dispatches, NEW f \in Files, Edit(d, f) PROVE SentInv'
  BY <1>39 DEF Edit
<1>40. ASSUME MoveTag PROVE SentInv'
  BY <1>40 DEF MoveTag
<1>41. CASE UNCHANGED vars
  BY <1>41
<1>42. QED
  BY <1>1, <1>2, <1>3, <1>4, <1>5, <1>6, <1>7, <1>8, <1>9, <1>10, <1>11, <1>12, <1>13, <1>14,
      <1>15, <1>16, <1>17, <1>18, <1>19, <1>20, <1>21, <1>22, <1>23, <1>24, <1>25, <1>26, <1>27,
      <1>28, <1>29, <1>30, <1>31, <1>32, <1>33, <1>34, <1>35, <1>36, <1>37, <1>38, <1>39, <1>40,
      <1>41 DEF Next, PrepareStep, PublishStep

(* Every step keeps DraftInv.                                              *)
LEMMA NextDraftInv == IInv /\ [Next]_vars => DraftInv'
<1> SUFFICES ASSUME IInv, [Next]_vars PROVE DraftInv'
  OBVIOUS
<1> USE DEF IInv, Types, ControlType, RelType, DraftInv, DraftOf, Drafted, Listed, Releases, GoTo,
    outputs, upload, github, bounds, vars
<1>1. ASSUME NEW d \in Dispatches, Checkout(d) PROVE DraftInv'
  BY <1>1 DEF Checkout, Step
<1>2. ASSUME NEW d \in Dispatches, ValidateInputs(d) PROVE DraftInv'
  BY <1>2 DEF ValidateInputs, Checks, Makes, Step, TagStands
<1>3. ASSUME NEW d \in Dispatches, PreparePython(d) PROVE DraftInv'
  BY <1>3 DEF PreparePython, Makes, Step, GatesClosed
<1>4. ASSUME NEW d \in Dispatches, FetchWheels(d) PROVE DraftInv'
  BY <1>4 DEF FetchWheels, Makes, Step
<1>5. ASSUME NEW d \in Dispatches, PrepareExternal(d) PROVE DraftInv'
  BY <1>5 DEF PrepareExternal, Makes, Step
<1>6. ASSUME NEW d \in Dispatches, WritePlan(d) PROVE DraftInv'
  BY <1>6 DEF WritePlan, Makes, Step
<1>7. ASSUME NEW d \in Dispatches, PipInstall(d) PROVE DraftInv'
  BY <1>7 DEF PipInstall, Makes, Step
<1>8. ASSUME NEW d \in Dispatches, Attest(d) PROVE DraftInv'
  BY <1>8 DEF Attest, Makes, Step
<1>9. ASSUME NEW d \in Dispatches, PrepareInno(d) PROVE DraftInv'
  BY <1>9, FilesUsed DEF PrepareInno, Step
<1>10. ASSUME NEW d \in Dispatches, Build(d) PROVE DraftInv'
  BY <1>10 DEF Build, Makes, Step
<1>11. ASSUME NEW d \in Dispatches, CollectLicenses(d) PROVE DraftInv'
  BY <1>11, FilesUsed DEF CollectLicenses, Makes, Step
<1>12. ASSUME NEW d \in Dispatches, WriteManifest(d) PROVE DraftInv'
  BY <1>12 DEF WriteManifest, Makes, Step
<1>13. ASSUME NEW d \in Dispatches, CheckDistribution(d) PROVE DraftInv'
  BY <1>13 DEF CheckDistribution, Checks, Makes, Step
<1>14. ASSUME NEW d \in Dispatches, CompileInstaller(d) PROVE DraftInv'
  BY <1>14 DEF CompileInstaller, Makes, Step
<1>15. ASSUME NEW d \in Dispatches, AuditPayload(d) PROVE DraftInv'
  BY <1>15 DEF AuditPayload, Checks, Makes, Step
<1>16. ASSUME NEW d \in Dispatches, WriteReceipt(d) PROVE DraftInv'
  BY <1>16 DEF WriteReceipt, AuditedBytes, Makes, Step
<1>17. ASSUME NEW d \in Dispatches, CheckRelease(d) PROVE DraftInv'
  BY <1>17 DEF CheckRelease, Checks, Makes, Step, GatesClosed
<1>18. ASSUME NEW d \in Dispatches, ArchiveSource(d) PROVE DraftInv'
  BY <1>18 DEF ArchiveSource, Makes, Step
<1>19. ASSUME NEW d \in Dispatches, BindReceipt(d) PROVE DraftInv'
  BY <1>19 DEF BindReceipt, Checks, Makes, Step
<1>20. ASSUME NEW d \in Dispatches, MakeArchives(d) PROVE DraftInv'
  BY <1>20 DEF MakeArchives, Makes, Step
<1>21. ASSUME NEW d \in Dispatches, WriteAssetList(d) PROVE DraftInv'
  BY <1>21 DEF WriteAssetList, Makes, Step
<1>22. ASSUME NEW d \in Dispatches, VerifyAssets(d) PROVE DraftInv'
  BY <1>22 DEF VerifyAssets, Checks, Makes, Step
<1>23. ASSUME NEW d \in Dispatches, SealList(d) PROVE DraftInv'
  BY <1>23, FilesUsed DEF SealList, Step
<1>24. ASSUME NEW d \in Dispatches, KeepArtifact(d) PROVE DraftInv'
  BY <1>24, FilesUsed DEF KeepArtifact, Step
<1>25. ASSUME NEW d \in Dispatches, Approve(d) PROVE DraftInv'
  BY <1>25 DEF Approve, Checks, Makes, Step
<1>26. ASSUME NEW d \in Dispatches, Revalidate(d) PROVE DraftInv'
  BY <1>26 DEF Revalidate, Checks, Makes, Step, TagStands
<1>27. ASSUME NEW d \in Dispatches, Restore(d) PROVE DraftInv'
  BY <1>27 DEF Restore, Makes, Step
<1>28. ASSUME NEW d \in Dispatches, Reverify(d) PROVE DraftInv'
  BY <1>28 DEF Reverify, Checks, Makes, Step
<1>29. ASSUME NEW d \in Dispatches, HashAssets(d) PROVE DraftInv'
  BY <1>29, FilesUsed DEF HashAssets, Step
<1>30. ASSUME NEW d \in Dispatches, CreateDraft(d) PROVE DraftInv'
  BY <1>30 DEF CreateDraft, Step
<1>31. ASSUME NEW d \in Dispatches, ListIds(d) PROVE DraftInv'
  BY <1>31 DEF ListIds, Checks, Makes, Step
<1>32. ASSUME NEW d \in Dispatches, UploadAsset(d) PROVE DraftInv'
  BY <1>32 DEF UploadAsset, Step
<1>33. ASSUME NEW d \in Dispatches, CompareRemote(d) PROVE DraftInv'
  BY <1>33 DEF CompareRemote, Step
<1>34. ASSUME NEW d \in Dispatches, AssertTag(d) PROVE DraftInv'
  BY <1>34 DEF AssertTag, Checks, Makes, Step
<1>35. ASSUME NEW d \in Dispatches, MakePublic(d) PROVE DraftInv'
  BY <1>35 DEF MakePublic, Leave
<1>36. ASSUME NEW d \in Dispatches, Fails(d) PROVE DraftInv'
  BY <1>36 DEF Fails, Leave
<1>37. ASSUME NEW d \in Dispatches, Rerun(d) PROVE DraftInv'
  BY <1>37 DEF Rerun
<1>38. ASSUME NEW d \in Dispatches, DeleteDraft(d) PROVE DraftInv'
  BY <1>38 DEF DeleteDraft
<1>39. ASSUME NEW d \in Dispatches, NEW f \in Files, Edit(d, f) PROVE DraftInv'
  BY <1>39 DEF Edit
<1>40. ASSUME MoveTag PROVE DraftInv'
  BY <1>40 DEF MoveTag
<1>41. CASE UNCHANGED vars
  BY <1>41
<1>42. QED
  BY <1>1, <1>2, <1>3, <1>4, <1>5, <1>6, <1>7, <1>8, <1>9, <1>10, <1>11, <1>12, <1>13, <1>14,
      <1>15, <1>16, <1>17, <1>18, <1>19, <1>20, <1>21, <1>22, <1>23, <1>24, <1>25, <1>26, <1>27,
      <1>28, <1>29, <1>30, <1>31, <1>32, <1>33, <1>34, <1>35, <1>36, <1>37, <1>38, <1>39, <1>40,
      <1>41 DEF Next, PrepareStep, PublishStep

(* Every step keeps AloneInv.                                              *)
LEMMA NextAloneInv == IInv /\ [Next]_vars => AloneInv'
<1> SUFFICES ASSUME IInv, [Next]_vars PROVE AloneInv'
  OBVIOUS
<1> USE DEF IInv, Types, ControlType, RelType, DraftInv, DraftOf, AloneInv, Past, Drafted, Listed,
    Releases, GoTo, outputs, upload, github, bounds, vars
<1>1. ASSUME NEW d \in Dispatches, Checkout(d) PROVE AloneInv'
  BY <1>1 DEF Checkout, Step
<1>2. ASSUME NEW d \in Dispatches, ValidateInputs(d) PROVE AloneInv'
  BY <1>2 DEF ValidateInputs, Checks, Makes, Step, TagStands
<1>3. ASSUME NEW d \in Dispatches, PreparePython(d) PROVE AloneInv'
  BY <1>3 DEF PreparePython, Makes, Step, GatesClosed
<1>4. ASSUME NEW d \in Dispatches, FetchWheels(d) PROVE AloneInv'
  BY <1>4 DEF FetchWheels, Makes, Step
<1>5. ASSUME NEW d \in Dispatches, PrepareExternal(d) PROVE AloneInv'
  BY <1>5 DEF PrepareExternal, Makes, Step
<1>6. ASSUME NEW d \in Dispatches, WritePlan(d) PROVE AloneInv'
  BY <1>6 DEF WritePlan, Makes, Step
<1>7. ASSUME NEW d \in Dispatches, PipInstall(d) PROVE AloneInv'
  BY <1>7 DEF PipInstall, Makes, Step
<1>8. ASSUME NEW d \in Dispatches, Attest(d) PROVE AloneInv'
  BY <1>8 DEF Attest, Makes, Step
<1>9. ASSUME NEW d \in Dispatches, PrepareInno(d) PROVE AloneInv'
  BY <1>9, FilesUsed DEF PrepareInno, Step
<1>10. ASSUME NEW d \in Dispatches, Build(d) PROVE AloneInv'
  BY <1>10 DEF Build, Makes, Step
<1>11. ASSUME NEW d \in Dispatches, CollectLicenses(d) PROVE AloneInv'
  BY <1>11, FilesUsed DEF CollectLicenses, Makes, Step
<1>12. ASSUME NEW d \in Dispatches, WriteManifest(d) PROVE AloneInv'
  BY <1>12 DEF WriteManifest, Makes, Step
<1>13. ASSUME NEW d \in Dispatches, CheckDistribution(d) PROVE AloneInv'
  BY <1>13 DEF CheckDistribution, Checks, Makes, Step
<1>14. ASSUME NEW d \in Dispatches, CompileInstaller(d) PROVE AloneInv'
  BY <1>14 DEF CompileInstaller, Makes, Step
<1>15. ASSUME NEW d \in Dispatches, AuditPayload(d) PROVE AloneInv'
  BY <1>15 DEF AuditPayload, Checks, Makes, Step
<1>16. ASSUME NEW d \in Dispatches, WriteReceipt(d) PROVE AloneInv'
  BY <1>16 DEF WriteReceipt, AuditedBytes, Makes, Step
<1>17. ASSUME NEW d \in Dispatches, CheckRelease(d) PROVE AloneInv'
  BY <1>17 DEF CheckRelease, Checks, Makes, Step, GatesClosed
<1>18. ASSUME NEW d \in Dispatches, ArchiveSource(d) PROVE AloneInv'
  BY <1>18 DEF ArchiveSource, Makes, Step
<1>19. ASSUME NEW d \in Dispatches, BindReceipt(d) PROVE AloneInv'
  BY <1>19 DEF BindReceipt, Checks, Makes, Step
<1>20. ASSUME NEW d \in Dispatches, MakeArchives(d) PROVE AloneInv'
  BY <1>20 DEF MakeArchives, Makes, Step
<1>21. ASSUME NEW d \in Dispatches, WriteAssetList(d) PROVE AloneInv'
  BY <1>21 DEF WriteAssetList, Makes, Step
<1>22. ASSUME NEW d \in Dispatches, VerifyAssets(d) PROVE AloneInv'
  BY <1>22 DEF VerifyAssets, Checks, Makes, Step
<1>23. ASSUME NEW d \in Dispatches, SealList(d) PROVE AloneInv'
  BY <1>23, FilesUsed DEF SealList, Step
<1>24. ASSUME NEW d \in Dispatches, KeepArtifact(d) PROVE AloneInv'
  BY <1>24, FilesUsed DEF KeepArtifact, Step
<1>25. ASSUME NEW d \in Dispatches, Approve(d) PROVE AloneInv'
  BY <1>25 DEF Approve, Checks, Makes, Step
<1>26. ASSUME NEW d \in Dispatches, Revalidate(d) PROVE AloneInv'
  BY <1>26 DEF Revalidate, Checks, Makes, Step, TagStands
<1>27. ASSUME NEW d \in Dispatches, Restore(d) PROVE AloneInv'
  BY <1>27 DEF Restore, Makes, Step
<1>28. ASSUME NEW d \in Dispatches, Reverify(d) PROVE AloneInv'
  BY <1>28 DEF Reverify, Checks, Makes, Step
<1>29. ASSUME NEW d \in Dispatches, HashAssets(d) PROVE AloneInv'
  BY <1>29, FilesUsed DEF HashAssets, Step
<1>30. ASSUME NEW d \in Dispatches, CreateDraft(d) PROVE AloneInv'
  BY <1>30 DEF CreateDraft, Step
<1>31. ASSUME NEW d \in Dispatches, ListIds(d) PROVE AloneInv'
  <2>1. /\ pc[d] = "ids" /\ Cardinality(Releases) = 1 /\ pc' = [pc EXCEPT ![d] = "upload"]
        /\ rel' = rel
    BY <1>31 DEF ListIds, Checks, Makes, Step
  <2>2. IsFiniteSet(Releases)
    BY ReleaseAssumption, FS_Subset DEF Releases
  <2>3. PICK x : Releases = {x}
    BY <2>1, <2>2, FS_Singleton
  <2>4. rel[d].state = "draft"
    BY <2>1
  <2>5. \A e \in Dispatches : Past(e)' => e = d \/ rel[e].state # "none"
    BY <2>1
  <2>6. \A e \in Dispatches : rel[e].state # "none" => e = d
    BY <2>3, <2>4
  <2>7. QED
    BY <2>5, <2>6
<1>32. ASSUME NEW d \in Dispatches, UploadAsset(d) PROVE AloneInv'
  BY <1>32 DEF UploadAsset, Step
<1>33. ASSUME NEW d \in Dispatches, CompareRemote(d) PROVE AloneInv'
  BY <1>33 DEF CompareRemote, Step
<1>34. ASSUME NEW d \in Dispatches, AssertTag(d) PROVE AloneInv'
  BY <1>34 DEF AssertTag, Checks, Makes, Step
<1>35. ASSUME NEW d \in Dispatches, MakePublic(d) PROVE AloneInv'
  BY <1>35 DEF MakePublic, Leave
<1>36. ASSUME NEW d \in Dispatches, Fails(d) PROVE AloneInv'
  BY <1>36 DEF Fails, Leave
<1>37. ASSUME NEW d \in Dispatches, Rerun(d) PROVE AloneInv'
  BY <1>37 DEF Rerun
<1>38. ASSUME NEW d \in Dispatches, DeleteDraft(d) PROVE AloneInv'
  BY <1>38 DEF DeleteDraft
<1>39. ASSUME NEW d \in Dispatches, NEW f \in Files, Edit(d, f) PROVE AloneInv'
  BY <1>39 DEF Edit
<1>40. ASSUME MoveTag PROVE AloneInv'
  BY <1>40 DEF MoveTag
<1>41. CASE UNCHANGED vars
  BY <1>41
<1>42. QED
  BY <1>1, <1>2, <1>3, <1>4, <1>5, <1>6, <1>7, <1>8, <1>9, <1>10, <1>11, <1>12, <1>13, <1>14,
      <1>15, <1>16, <1>17, <1>18, <1>19, <1>20, <1>21, <1>22, <1>23, <1>24, <1>25, <1>26, <1>27,
      <1>28, <1>29, <1>30, <1>31, <1>32, <1>33, <1>34, <1>35, <1>36, <1>37, <1>38, <1>39, <1>40,
      <1>41 DEF Next, PrepareStep, PublishStep

(* Every step keeps WholeInv.                                              *)
LEMMA NextWholeInv == IInv /\ [Next]_vars => WholeInv'
<1> SUFFICES ASSUME IInv, [Next]_vars PROVE WholeInv'
  OBVIOUS
<1> USE DEF IInv, Types, ControlType, RelType, DraftInv, DraftOf, WholeInv, WholeOf, Drafted,
    Listed, GoTo, outputs, upload, github, bounds, vars
<1>1. ASSUME NEW d \in Dispatches, Checkout(d) PROVE WholeInv'
  BY <1>1 DEF Checkout, Step
<1>2. ASSUME NEW d \in Dispatches, ValidateInputs(d) PROVE WholeInv'
  BY <1>2 DEF ValidateInputs, Checks, Makes, Step, TagStands
<1>3. ASSUME NEW d \in Dispatches, PreparePython(d) PROVE WholeInv'
  BY <1>3 DEF PreparePython, Makes, Step, GatesClosed
<1>4. ASSUME NEW d \in Dispatches, FetchWheels(d) PROVE WholeInv'
  BY <1>4 DEF FetchWheels, Makes, Step
<1>5. ASSUME NEW d \in Dispatches, PrepareExternal(d) PROVE WholeInv'
  BY <1>5 DEF PrepareExternal, Makes, Step
<1>6. ASSUME NEW d \in Dispatches, WritePlan(d) PROVE WholeInv'
  BY <1>6 DEF WritePlan, Makes, Step
<1>7. ASSUME NEW d \in Dispatches, PipInstall(d) PROVE WholeInv'
  BY <1>7 DEF PipInstall, Makes, Step
<1>8. ASSUME NEW d \in Dispatches, Attest(d) PROVE WholeInv'
  BY <1>8 DEF Attest, Makes, Step
<1>9. ASSUME NEW d \in Dispatches, PrepareInno(d) PROVE WholeInv'
  BY <1>9, FilesUsed DEF PrepareInno, Step
<1>10. ASSUME NEW d \in Dispatches, Build(d) PROVE WholeInv'
  BY <1>10 DEF Build, Makes, Step
<1>11. ASSUME NEW d \in Dispatches, CollectLicenses(d) PROVE WholeInv'
  BY <1>11, FilesUsed DEF CollectLicenses, Makes, Step
<1>12. ASSUME NEW d \in Dispatches, WriteManifest(d) PROVE WholeInv'
  BY <1>12 DEF WriteManifest, Makes, Step
<1>13. ASSUME NEW d \in Dispatches, CheckDistribution(d) PROVE WholeInv'
  BY <1>13 DEF CheckDistribution, Checks, Makes, Step
<1>14. ASSUME NEW d \in Dispatches, CompileInstaller(d) PROVE WholeInv'
  BY <1>14 DEF CompileInstaller, Makes, Step
<1>15. ASSUME NEW d \in Dispatches, AuditPayload(d) PROVE WholeInv'
  BY <1>15 DEF AuditPayload, Checks, Makes, Step
<1>16. ASSUME NEW d \in Dispatches, WriteReceipt(d) PROVE WholeInv'
  BY <1>16 DEF WriteReceipt, AuditedBytes, Makes, Step
<1>17. ASSUME NEW d \in Dispatches, CheckRelease(d) PROVE WholeInv'
  BY <1>17 DEF CheckRelease, Checks, Makes, Step, GatesClosed
<1>18. ASSUME NEW d \in Dispatches, ArchiveSource(d) PROVE WholeInv'
  BY <1>18 DEF ArchiveSource, Makes, Step
<1>19. ASSUME NEW d \in Dispatches, BindReceipt(d) PROVE WholeInv'
  BY <1>19 DEF BindReceipt, Checks, Makes, Step
<1>20. ASSUME NEW d \in Dispatches, MakeArchives(d) PROVE WholeInv'
  BY <1>20 DEF MakeArchives, Makes, Step
<1>21. ASSUME NEW d \in Dispatches, WriteAssetList(d) PROVE WholeInv'
  BY <1>21 DEF WriteAssetList, Makes, Step
<1>22. ASSUME NEW d \in Dispatches, VerifyAssets(d) PROVE WholeInv'
  BY <1>22 DEF VerifyAssets, Checks, Makes, Step
<1>23. ASSUME NEW d \in Dispatches, SealList(d) PROVE WholeInv'
  BY <1>23, FilesUsed DEF SealList, Step
<1>24. ASSUME NEW d \in Dispatches, KeepArtifact(d) PROVE WholeInv'
  BY <1>24, FilesUsed DEF KeepArtifact, Step
<1>25. ASSUME NEW d \in Dispatches, Approve(d) PROVE WholeInv'
  BY <1>25 DEF Approve, Checks, Makes, Step
<1>26. ASSUME NEW d \in Dispatches, Revalidate(d) PROVE WholeInv'
  BY <1>26 DEF Revalidate, Checks, Makes, Step, TagStands
<1>27. ASSUME NEW d \in Dispatches, Restore(d) PROVE WholeInv'
  BY <1>27 DEF Restore, Makes, Step
<1>28. ASSUME NEW d \in Dispatches, Reverify(d) PROVE WholeInv'
  BY <1>28 DEF Reverify, Checks, Makes, Step
<1>29. ASSUME NEW d \in Dispatches, HashAssets(d) PROVE WholeInv'
  BY <1>29, FilesUsed DEF HashAssets, Step
<1>30. ASSUME NEW d \in Dispatches, CreateDraft(d) PROVE WholeInv'
  BY <1>30 DEF CreateDraft, Step
<1>31. ASSUME NEW d \in Dispatches, ListIds(d) PROVE WholeInv'
  BY <1>31 DEF ListIds, Checks, Makes, Step
<1>32. ASSUME NEW d \in Dispatches, UploadAsset(d) PROVE WholeInv'
  BY <1>32 DEF UploadAsset, Step
<1>33. ASSUME NEW d \in Dispatches, CompareRemote(d) PROVE WholeInv'
  BY <1>33, UploadedIs DEF CompareRemote, Step
<1>34. ASSUME NEW d \in Dispatches, AssertTag(d) PROVE WholeInv'
  BY <1>34 DEF AssertTag, Checks, Makes, Step
<1>35. ASSUME NEW d \in Dispatches, MakePublic(d) PROVE WholeInv'
  BY <1>35 DEF MakePublic, Leave
<1>36. ASSUME NEW d \in Dispatches, Fails(d) PROVE WholeInv'
  BY <1>36 DEF Fails, Leave
<1>37. ASSUME NEW d \in Dispatches, Rerun(d) PROVE WholeInv'
  BY <1>37 DEF Rerun
<1>38. ASSUME NEW d \in Dispatches, DeleteDraft(d) PROVE WholeInv'
  BY <1>38 DEF DeleteDraft
<1>39. ASSUME NEW d \in Dispatches, NEW f \in Files, Edit(d, f) PROVE WholeInv'
  BY <1>39 DEF Edit
<1>40. ASSUME MoveTag PROVE WholeInv'
  BY <1>40 DEF MoveTag
<1>41. CASE UNCHANGED vars
  BY <1>41
<1>42. QED
  BY <1>1, <1>2, <1>3, <1>4, <1>5, <1>6, <1>7, <1>8, <1>9, <1>10, <1>11, <1>12, <1>13, <1>14,
      <1>15, <1>16, <1>17, <1>18, <1>19, <1>20, <1>21, <1>22, <1>23, <1>24, <1>25, <1>26, <1>27,
      <1>28, <1>29, <1>30, <1>31, <1>32, <1>33, <1>34, <1>35, <1>36, <1>37, <1>38, <1>39, <1>40,
      <1>41 DEF Next, PrepareStep, PublishStep

(* The digest of the asset list leaves a seal a seal.                      *)
LEMMA SealListed ==
  ASSUME IInv, NEW d \in Dispatches, SealList(d)
  PROVE  seal' \in [Dispatches -> [prov : Content, list : Content]]
<1>1. file \in [Dispatches -> [Files -> Content]]
  BY DEF IInv, Types, FileType
<1>2. seal \in [Dispatches -> [prov : Content, list : Content]]
  BY DEF IInv, Types, FileType
<1>3. file[d]["list"] \in Content
  BY <1>1, FilesUsed
<1>4. seal' = [seal EXCEPT ![d].list = file[d]["list"]]
  BY DEF SealList
<1>5. QED
  BY <1>2, <1>3, <1>4

(* Every step keeps FileType.                                              *)
LEMMA NextFileType == IInv /\ [Next]_vars => FileType'
<1> SUFFICES ASSUME IInv, [Next]_vars PROVE FileType'
  OBVIOUS
<1> USE ReadsAre DEF IInv, Types, FileType, Content, NoFiles, NoHash, NoHanded, NoFile, Right,
    GoTo, outputs, upload, github, bounds, vars
<1>1. ASSUME NEW d \in Dispatches, Checkout(d) PROVE FileType'
  BY <1>1 DEF Checkout, Step
<1>2. ASSUME NEW d \in Dispatches, ValidateInputs(d) PROVE FileType'
  BY <1>2 DEF ValidateInputs, Checks, Makes, Step, TagStands
<1>3. ASSUME NEW d \in Dispatches, PreparePython(d) PROVE FileType'
  BY <1>3 DEF PreparePython, Makes, Step, GatesClosed
<1>4. ASSUME NEW d \in Dispatches, FetchWheels(d) PROVE FileType'
  BY <1>4 DEF FetchWheels, Makes, Step
<1>5. ASSUME NEW d \in Dispatches, PrepareExternal(d) PROVE FileType'
  BY <1>5 DEF PrepareExternal, Makes, Step
<1>6. ASSUME NEW d \in Dispatches, WritePlan(d) PROVE FileType'
  BY <1>6 DEF WritePlan, Makes, Step
<1>7. ASSUME NEW d \in Dispatches, PipInstall(d) PROVE FileType'
  BY <1>7 DEF PipInstall, Makes, Step
<1>8. ASSUME NEW d \in Dispatches, Attest(d) PROVE FileType'
  BY <1>8 DEF Attest, Makes, Step
<1>9. ASSUME NEW d \in Dispatches, PrepareInno(d) PROVE FileType'
  <2>1. file[d]["prov"] \in Content
    BY FilesUsed DEF FileType
  <2>2. seal' = [seal EXCEPT ![d].prov = file[d]["prov"]]
    BY <1>9 DEF PrepareInno
  <2>3. seal' \in [Dispatches -> [prov : Content, list : Content]]
    BY <2>1, <2>2, SealListed
  <2>4. file' \in [Dispatches -> [Files -> Content]]
    BY <1>9 DEF PrepareInno, Step
  <2>5. UNCHANGED <<handed, hashed>>
    BY <1>9 DEF PrepareInno, Step
  <2>6. QED
    BY <2>3, <2>4, <2>5
<1>10. ASSUME NEW d \in Dispatches, Build(d) PROVE FileType'
  BY <1>10 DEF Build, Makes, Step
<1>11. ASSUME NEW d \in Dispatches, CollectLicenses(d) PROVE FileType'
  BY <1>11, FilesUsed DEF CollectLicenses, Makes, Step
<1>12. ASSUME NEW d \in Dispatches, WriteManifest(d) PROVE FileType'
  BY <1>12 DEF WriteManifest, Makes, Step
<1>13. ASSUME NEW d \in Dispatches, CheckDistribution(d) PROVE FileType'
  BY <1>13 DEF CheckDistribution, Checks, Makes, Step
<1>14. ASSUME NEW d \in Dispatches, CompileInstaller(d) PROVE FileType'
  <2>1. PICK inputs \in {Dist, Dist \cup {"tree", "inno"}} :
          Makes(d, "compile", Sealed(d) /\ InnoHolds(d), [setup |-> Of(d, inputs)], "extract")
    BY <1>14 DEF CompileInstaller
  <2>2. Of(d, inputs) \in Content
    OBVIOUS
  <2>3. QED
    BY <2>1, <2>2 DEF Makes, Step
<1>15. ASSUME NEW d \in Dispatches, AuditPayload(d) PROVE FileType'
  BY <1>15 DEF AuditPayload, Checks, Makes, Step
<1>16. ASSUME NEW d \in Dispatches, WriteReceipt(d) PROVE FileType'
  BY <1>16 DEF WriteReceipt, AuditedBytes, Makes, Step
<1>17. ASSUME NEW d \in Dispatches, CheckRelease(d) PROVE FileType'
  BY <1>17 DEF CheckRelease, Checks, Makes, Step, GatesClosed
<1>18. ASSUME NEW d \in Dispatches, ArchiveSource(d) PROVE FileType'
  BY <1>18 DEF ArchiveSource, Makes, Step
<1>19. ASSUME NEW d \in Dispatches, BindReceipt(d) PROVE FileType'
  BY <1>19 DEF BindReceipt, Checks, Makes, Step
<1>20. ASSUME NEW d \in Dispatches, MakeArchives(d) PROVE FileType'
  BY <1>20 DEF MakeArchives, Makes, Step
<1>21. ASSUME NEW d \in Dispatches, WriteAssetList(d) PROVE FileType'
  BY <1>21 DEF WriteAssetList, Makes, Step
<1>22. ASSUME NEW d \in Dispatches, VerifyAssets(d) PROVE FileType'
  BY <1>22 DEF VerifyAssets, Checks, Makes, Step
<1>23. ASSUME NEW d \in Dispatches, SealList(d) PROVE FileType'
  <2>1. seal' \in [Dispatches -> [prov : Content, list : Content]]
    BY <1>23, SealListed DEF IInv
  <2>2. file' \in [Dispatches -> [Files -> Content]]
    BY <1>23 DEF SealList, Step
  <2>3. UNCHANGED <<handed, hashed>>
    BY <1>23 DEF SealList, Step
  <2>4. QED
    BY <2>1, <2>2, <2>3
<1>24. ASSUME NEW d \in Dispatches, KeepArtifact(d) PROVE FileType'
  BY <1>24, FilesUsed DEF KeepArtifact, Step
<1>25. ASSUME NEW d \in Dispatches, Approve(d) PROVE FileType'
  BY <1>25 DEF Approve, Checks, Makes, Step
<1>26. ASSUME NEW d \in Dispatches, Revalidate(d) PROVE FileType'
  BY <1>26 DEF Revalidate, Checks, Makes, Step, TagStands
<1>27. ASSUME NEW d \in Dispatches, Restore(d) PROVE FileType'
  BY <1>27 DEF Restore, Makes, Step
<1>28. ASSUME NEW d \in Dispatches, Reverify(d) PROVE FileType'
  BY <1>28 DEF Reverify, Checks, Makes, Step
<1>29. ASSUME NEW d \in Dispatches, HashAssets(d) PROVE FileType'
  BY <1>29, FilesUsed DEF HashAssets, Step
<1>30. ASSUME NEW d \in Dispatches, CreateDraft(d) PROVE FileType'
  BY <1>30 DEF CreateDraft, Step
<1>31. ASSUME NEW d \in Dispatches, ListIds(d) PROVE FileType'
  BY <1>31 DEF ListIds, Checks, Makes, Step
<1>32. ASSUME NEW d \in Dispatches, UploadAsset(d) PROVE FileType'
  BY <1>32 DEF UploadAsset, Step
<1>33. ASSUME NEW d \in Dispatches, CompareRemote(d) PROVE FileType'
  BY <1>33 DEF CompareRemote, Step
<1>34. ASSUME NEW d \in Dispatches, AssertTag(d) PROVE FileType'
  BY <1>34 DEF AssertTag, Checks, Makes, Step
<1>35. ASSUME NEW d \in Dispatches, MakePublic(d) PROVE FileType'
  BY <1>35 DEF MakePublic, Leave
<1>36. ASSUME NEW d \in Dispatches, Fails(d) PROVE FileType'
  BY <1>36 DEF Fails, Leave
<1>37. ASSUME NEW d \in Dispatches, Rerun(d) PROVE FileType'
  BY <1>37 DEF Rerun
<1>38. ASSUME NEW d \in Dispatches, DeleteDraft(d) PROVE FileType'
  BY <1>38 DEF DeleteDraft
<1>39. ASSUME NEW d \in Dispatches, NEW f \in Files, Edit(d, f) PROVE FileType'
  BY <1>39 DEF Edit
<1>40. ASSUME MoveTag PROVE FileType'
  BY <1>40 DEF MoveTag
<1>41. CASE UNCHANGED vars
  BY <1>41
<1>42. QED
  BY <1>1, <1>2, <1>3, <1>4, <1>5, <1>6, <1>7, <1>8, <1>9, <1>10, <1>11, <1>12, <1>13, <1>14,
      <1>15, <1>16, <1>17, <1>18, <1>19, <1>20, <1>21, <1>22, <1>23, <1>24, <1>25, <1>26, <1>27,
      <1>28, <1>29, <1>30, <1>31, <1>32, <1>33, <1>34, <1>35, <1>36, <1>37, <1>38, <1>39, <1>40,
      <1>41 DEF Next, PrepareStep, PublishStep

(* Every step keeps CommitInv.                                             *)
LEMMA NextCommitInv == IInv /\ [Next]_vars => CommitInv'
<1> SUFFICES ASSUME IInv, [Next]_vars PROVE CommitInv'
  OBVIOUS
<1> USE WorkingIs DEF IInv, Types, ControlType, RelType, RunnerInv, DraftInv, DraftOf, CommitInv,
    Gated, Preparing, Publishing, Drafted, Listed, NoHanded, Attested, Built, Receipted, Bound,
    Assembled, GoTo, outputs, upload, github, bounds, vars
<1>1. ASSUME NEW d \in Dispatches, Checkout(d) PROVE CommitInv'
  BY <1>1 DEF Checkout, Step
<1>2. ASSUME NEW d \in Dispatches, ValidateInputs(d) PROVE CommitInv'
  BY <1>2 DEF ValidateInputs, Checks, Makes, Step, TagStands
<1>3. ASSUME NEW d \in Dispatches, PreparePython(d) PROVE CommitInv'
  BY <1>3 DEF PreparePython, Makes, Step, GatesClosed
<1>4. ASSUME NEW d \in Dispatches, FetchWheels(d) PROVE CommitInv'
  BY <1>4 DEF FetchWheels, Makes, Step
<1>5. ASSUME NEW d \in Dispatches, PrepareExternal(d) PROVE CommitInv'
  BY <1>5 DEF PrepareExternal, Makes, Step
<1>6. ASSUME NEW d \in Dispatches, WritePlan(d) PROVE CommitInv'
  BY <1>6 DEF WritePlan, Makes, Step
<1>7. ASSUME NEW d \in Dispatches, PipInstall(d) PROVE CommitInv'
  BY <1>7 DEF PipInstall, Makes, Step
<1>8. ASSUME NEW d \in Dispatches, Attest(d) PROVE CommitInv'
  BY <1>8 DEF Attest, Makes, Step
<1>9. ASSUME NEW d \in Dispatches, PrepareInno(d) PROVE CommitInv'
  BY <1>9, FilesUsed DEF PrepareInno, Step
<1>10. ASSUME NEW d \in Dispatches, Build(d) PROVE CommitInv'
  BY <1>10 DEF Build, Makes, Step
<1>11. ASSUME NEW d \in Dispatches, CollectLicenses(d) PROVE CommitInv'
  BY <1>11, FilesUsed DEF CollectLicenses, Makes, Step
<1>12. ASSUME NEW d \in Dispatches, WriteManifest(d) PROVE CommitInv'
  BY <1>12 DEF WriteManifest, Makes, Step
<1>13. ASSUME NEW d \in Dispatches, CheckDistribution(d) PROVE CommitInv'
  BY <1>13 DEF CheckDistribution, Checks, Makes, Step
<1>14. ASSUME NEW d \in Dispatches, CompileInstaller(d) PROVE CommitInv'
  BY <1>14 DEF CompileInstaller, Makes, Step
<1>15. ASSUME NEW d \in Dispatches, AuditPayload(d) PROVE CommitInv'
  BY <1>15 DEF AuditPayload, Checks, Makes, Step
<1>16. ASSUME NEW d \in Dispatches, WriteReceipt(d) PROVE CommitInv'
  BY <1>16 DEF WriteReceipt, AuditedBytes, Makes, Step
<1>17. ASSUME NEW d \in Dispatches, CheckRelease(d) PROVE CommitInv'
  BY <1>17 DEF CheckRelease, Checks, Makes, Step, GatesClosed
<1>18. ASSUME NEW d \in Dispatches, ArchiveSource(d) PROVE CommitInv'
  BY <1>18 DEF ArchiveSource, Makes, Step
<1>19. ASSUME NEW d \in Dispatches, BindReceipt(d) PROVE CommitInv'
  BY <1>19 DEF BindReceipt, Checks, Makes, Step
<1>20. ASSUME NEW d \in Dispatches, MakeArchives(d) PROVE CommitInv'
  BY <1>20 DEF MakeArchives, Makes, Step
<1>21. ASSUME NEW d \in Dispatches, WriteAssetList(d) PROVE CommitInv'
  BY <1>21 DEF WriteAssetList, Makes, Step
<1>22. ASSUME NEW d \in Dispatches, VerifyAssets(d) PROVE CommitInv'
  BY <1>22 DEF VerifyAssets, Checks, Makes, Step
<1>23. ASSUME NEW d \in Dispatches, SealList(d) PROVE CommitInv'
  BY <1>23, FilesUsed DEF SealList, Step
<1>24. ASSUME NEW d \in Dispatches, KeepArtifact(d) PROVE CommitInv'
  BY <1>24 DEF KeepArtifact, Step
<1>25. ASSUME NEW d \in Dispatches, Approve(d) PROVE CommitInv'
  BY <1>25 DEF Approve, Checks, Makes, Step
<1>26. ASSUME NEW d \in Dispatches, Revalidate(d) PROVE CommitInv'
  BY <1>26 DEF Revalidate, Checks, Makes, Step, TagStands
<1>27. ASSUME NEW d \in Dispatches, Restore(d) PROVE CommitInv'
  BY <1>27 DEF Restore, Makes, Step
<1>28. ASSUME NEW d \in Dispatches, Reverify(d) PROVE CommitInv'
  BY <1>28 DEF Reverify, Checks, Makes, Step
<1>29. ASSUME NEW d \in Dispatches, HashAssets(d) PROVE CommitInv'
  BY <1>29, FilesUsed DEF HashAssets, Step
<1>30. ASSUME NEW d \in Dispatches, CreateDraft(d) PROVE CommitInv'
  BY <1>30 DEF CreateDraft, Step
<1>31. ASSUME NEW d \in Dispatches, ListIds(d) PROVE CommitInv'
  BY <1>31 DEF ListIds, Checks, Makes, Step
<1>32. ASSUME NEW d \in Dispatches, UploadAsset(d) PROVE CommitInv'
  BY <1>32 DEF UploadAsset, Step
<1>33. ASSUME NEW d \in Dispatches, CompareRemote(d) PROVE CommitInv'
  BY <1>33 DEF CompareRemote, Step
<1>34. ASSUME NEW d \in Dispatches, AssertTag(d) PROVE CommitInv'
  BY <1>34 DEF AssertTag, Checks, Makes, Step
<1>35. ASSUME NEW d \in Dispatches, MakePublic(d) PROVE CommitInv'
  BY <1>35 DEF MakePublic, Leave
<1>36. ASSUME NEW d \in Dispatches, Fails(d) PROVE CommitInv'
  BY <1>36 DEF Fails, Leave
<1>37. ASSUME NEW d \in Dispatches, Rerun(d) PROVE CommitInv'
  BY <1>37 DEF Rerun
<1>38. ASSUME NEW d \in Dispatches, DeleteDraft(d) PROVE CommitInv'
  BY <1>38 DEF DeleteDraft
<1>39. ASSUME NEW d \in Dispatches, NEW f \in Files, Edit(d, f) PROVE CommitInv'
  BY <1>39 DEF Edit
<1>40. ASSUME MoveTag PROVE CommitInv'
  BY <1>40 DEF MoveTag
<1>41. CASE UNCHANGED vars
  BY <1>41
<1>42. QED
  BY <1>1, <1>2, <1>3, <1>4, <1>5, <1>6, <1>7, <1>8, <1>9, <1>10, <1>11, <1>12, <1>13, <1>14,
      <1>15, <1>16, <1>17, <1>18, <1>19, <1>20, <1>21, <1>22, <1>23, <1>24, <1>25, <1>26, <1>27,
      <1>28, <1>29, <1>30, <1>31, <1>32, <1>33, <1>34, <1>35, <1>36, <1>37, <1>38, <1>39, <1>40,
      <1>41 DEF Next, PrepareStep, PublishStep

(* What Checkout does to the dispatch that does it.                        *)
LEMMA CheckoutIs ==
  ASSUME Types, NEW d \in Dispatches, Checkout(d)
  PROVE  /\ Goes(d, "idle", "validate", {"tree"})
         /\ Keeps(d)
         /\ rel'[d] = rel[d]
  BY FilesUsed DEF Types, Goes, Keeps, ControlType, FileType, RelType, Step, GoTo, Checkout,
      outputs, upload, github

(* What ValidateInputs does to the dispatch that does it.                  *)
LEMMA ValidateInputsIs ==
  ASSUME Types, NEW d \in Dispatches, ValidateInputs(d)
  PROVE  /\ Goes(d, "validate", "runtime", {})
         /\ Keeps(d)
         /\ rel'[d] = rel[d]
  BY FilesUsed DEF Types, Goes, Keeps, ControlType, FileType, RelType, Step, GoTo,
      ValidateInputs, Makes, outputs, upload, github, Checks

(* What PreparePython does to the dispatch that does it.                   *)
LEMMA PreparePythonIs ==
  ASSUME Types, NEW d \in Dispatches, PreparePython(d)
  PROVE  /\ Goes(d, "runtime", "fetch", {"python"})
         /\ Keeps(d)
         /\ rel'[d] = rel[d]
  BY FilesUsed DEF Types, Goes, Keeps, ControlType, FileType, RelType, Step, GoTo,
      PreparePython, Makes, outputs, upload, github

(* What FetchWheels does to the dispatch that does it.                     *)
LEMMA FetchWheelsIs ==
  ASSUME Types, NEW d \in Dispatches, FetchWheels(d)
  PROVE  /\ Goes(d, "fetch", "external", {"wheels"})
         /\ Keeps(d)
         /\ rel'[d] = rel[d]
  BY FilesUsed DEF Types, Goes, Keeps, ControlType, FileType, RelType, Step, GoTo, FetchWheels,
      Makes, outputs, upload, github

(* What PrepareExternal does to the dispatch that does it.                 *)
LEMMA PrepareExternalIs ==
  ASSUME Types, NEW d \in Dispatches, PrepareExternal(d)
  PROVE  /\ Goes(d, "external", "plan", {"external"})
         /\ Keeps(d)
         /\ rel'[d] = rel[d]
  BY FilesUsed DEF Types, Goes, Keeps, ControlType, FileType, RelType, Step, GoTo,
      PrepareExternal, Makes, outputs, upload, github

(* What WritePlan does to the dispatch that does it.                       *)
LEMMA WritePlanIs ==
  ASSUME Types, NEW d \in Dispatches, WritePlan(d)
  PROVE  /\ Goes(d, "plan", "install", {"plan", "requirements"})
         /\ Keeps(d)
         /\ rel'[d] = rel[d]
  BY FilesUsed DEF Types, Goes, Keeps, ControlType, FileType, RelType, Step, GoTo, WritePlan,
      Makes, outputs, upload, github

(* What PipInstall does to the dispatch that does it.                      *)
LEMMA PipInstallIs ==
  ASSUME Types, NEW d \in Dispatches, PipInstall(d)
  PROVE  /\ Goes(d, "install", "attest", {"env"})
         /\ Keeps(d)
         /\ rel'[d] = rel[d]
  BY FilesUsed DEF Types, Goes, Keeps, ControlType, FileType, RelType, Step, GoTo, PipInstall,
      Makes, outputs, upload, github

(* What Attest does to the dispatch that does it.                          *)
LEMMA AttestIs ==
  ASSUME Types, NEW d \in Dispatches, Attest(d)
  PROVE  /\ Goes(d, "attest", "inno", {"prov"})
         /\ Keeps(d)
         /\ rel'[d] = rel[d]
  BY FilesUsed DEF Types, Goes, Keeps, ControlType, FileType, RelType, Step, GoTo, Attest,
      Makes, outputs, upload, github

(* What PrepareInno does to the dispatch that does it.                     *)
LEMMA PrepareInnoIs ==
  ASSUME Types, NEW d \in Dispatches, PrepareInno(d)
  PROVE  /\ Goes(d, "inno", "build", {"inno"})
         /\ handed'[d] = handed[d]
         /\ hashed'[d] = hashed[d]
         /\ slipped'[d] = slipped[d]
         /\ rel'[d] = rel[d]
  BY FilesUsed DEF Types, Goes, Keeps, ControlType, FileType, RelType, Step, GoTo, PrepareInno,
      outputs, upload, github

(* What Build does to the dispatch that does it.                           *)
LEMMA BuildIs ==
  ASSUME Types, NEW d \in Dispatches, Build(d)
  PROVE  /\ Goes(d, "build", "collect", {"toc", "base", "loader", "modules", "native"})
         /\ Keeps(d)
         /\ rel'[d] = rel[d]
  BY FilesUsed DEF Types, Goes, Keeps, ControlType, FileType, RelType, Step, GoTo, Build, Makes,
      outputs, upload, github

(* What CollectLicenses does to the dispatch that does it.                 *)
LEMMA CollectLicensesIs ==
  ASSUME Types, NEW d \in Dispatches, CollectLicenses(d)
  PROVE  /\ Goes(d, "collect", "manifest", {"docs", "packages", "dprov"})
         /\ Keeps(d)
         /\ rel'[d] = rel[d]
  BY FilesUsed DEF Types, Goes, Keeps, ControlType, FileType, RelType, Step, GoTo,
      CollectLicenses, Makes, outputs, upload, github

(* What WriteManifest does to the dispatch that does it.                   *)
LEMMA WriteManifestIs ==
  ASSUME Types, NEW d \in Dispatches, WriteManifest(d)
  PROVE  /\ Goes(d, "manifest", "check", {"manifest"})
         /\ file'[d]["manifest"] = Of(d, Dist \ {"manifest"})
         /\ Keeps(d)
         /\ rel'[d] = rel[d]
  BY FilesUsed DEF Types, Goes, Keeps, ControlType, FileType, RelType, Step, GoTo,
      WriteManifest, Makes, outputs, upload, github

(* What CheckDistribution does to the dispatch that does it.               *)
LEMMA CheckDistributionIs ==
  ASSUME Types, NEW d \in Dispatches, CheckDistribution(d)
  PROVE  /\ Goes(d, "check", "compile", {})
         /\ Keeps(d)
         /\ rel'[d] = rel[d]
  BY FilesUsed DEF Types, Goes, Keeps, ControlType, FileType, RelType, Step, GoTo,
      CheckDistribution, Makes, outputs, upload, github, Checks

(* What CompileInstaller does to the dispatch that does it.                *)
LEMMA CompileInstallerIs ==
  ASSUME Types, NEW d \in Dispatches, CompileInstaller(d)
  PROVE  /\ Goes(d, "compile", "extract", {"setup"})
         /\ Keeps(d)
         /\ rel'[d] = rel[d]
  BY FilesUsed DEF Types, Goes, Keeps, ControlType, FileType, RelType, Step, GoTo,
      CompileInstaller, Makes, outputs, upload, github

(* What AuditPayload does to the dispatch that does it.                    *)
LEMMA AuditPayloadIs ==
  ASSUME Types, NEW d \in Dispatches, AuditPayload(d)
  PROVE  /\ Goes(d, "extract", "receipt", {})
         /\ Keeps(d)
         /\ rel'[d] = rel[d]
  BY FilesUsed DEF Types, Goes, Keeps, ControlType, FileType, RelType, Step, GoTo, AuditPayload,
      Makes, outputs, upload, github, Checks

(* What WriteReceipt does to the dispatch that does it.                    *)
LEMMA WriteReceiptIs ==
  ASSUME Types, NEW d \in Dispatches, WriteReceipt(d)
  PROVE  /\ Goes(d, "receipt", "release", {"receipt"})
         /\ file'[d]["receipt"] = AuditedBytes(d)
         /\ Keeps(d)
         /\ rel'[d] = rel[d]
  BY FilesUsed DEF Types, Goes, Keeps, ControlType, FileType, RelType, Step, GoTo, WriteReceipt,
      Makes, outputs, upload, github

(* What CheckRelease does to the dispatch that does it.                    *)
LEMMA CheckReleaseIs ==
  ASSUME Types, NEW d \in Dispatches, CheckRelease(d)
  PROVE  /\ Goes(d, "release", "archive", {})
         /\ Keeps(d)
         /\ rel'[d] = rel[d]
  BY FilesUsed DEF Types, Goes, Keeps, ControlType, FileType, RelType, Step, GoTo, CheckRelease,
      Makes, outputs, upload, github, Checks

(* What ArchiveSource does to the dispatch that does it.                   *)
LEMMA ArchiveSourceIs ==
  ASSUME Types, NEW d \in Dispatches, ArchiveSource(d)
  PROVE  /\ Goes(d, "archive", "bind", {"srczip"})
         /\ Keeps(d)
         /\ rel'[d] = rel[d]
  BY FilesUsed DEF Types, Goes, Keeps, ControlType, FileType, RelType, Step, GoTo,
      ArchiveSource, Makes, outputs, upload, github

(* What BindReceipt does to the dispatch that does it.                     *)
LEMMA BindReceiptIs ==
  ASSUME Types, NEW d \in Dispatches, BindReceipt(d)
  PROVE  /\ Goes(d, "bind", "sources", {})
         /\ Keeps(d)
         /\ rel'[d] = rel[d]
  BY FilesUsed DEF Types, Goes, Keeps, ControlType, FileType, RelType, Step, GoTo, BindReceipt,
      Makes, outputs, upload, github, Checks

(* What MakeArchives does to the dispatch that does it.                    *)
LEMMA MakeArchivesIs ==
  ASSUME Types, NEW d \in Dispatches, MakeArchives(d)
  PROVE  /\ Goes(d, "sources", "write", {"parts", "lic"})
         /\ file'[d]["lic"] = Of(d, {"docs", "dprov"})
         /\ Keeps(d)
         /\ rel'[d] = rel[d]
  BY FilesUsed DEF Types, Goes, Keeps, ControlType, FileType, RelType, Step, GoTo, MakeArchives,
      Makes, outputs, upload, github

(* What WriteAssetList does to the dispatch that does it.                  *)
LEMMA WriteAssetListIs ==
  ASSUME Types, NEW d \in Dispatches, WriteAssetList(d)
  PROVE  /\ Goes(d, "write", "verify", {"sums", "list"})
         /\ file'[d]["sums"] = Of(d, Payload)
         /\ file'[d]["list"] = Of(d, Payload)
         /\ Keeps(d)
         /\ rel'[d] = rel[d]
  BY FilesUsed DEF Types, Goes, Keeps, ControlType, FileType, RelType, Step, GoTo,
      WriteAssetList, Makes, outputs, upload, github

(* What VerifyAssets does to the dispatch that does it.                    *)
LEMMA VerifyAssetsIs ==
  ASSUME Types, NEW d \in Dispatches, VerifyAssets(d)
  PROVE  /\ Goes(d, "verify", "seal", {})
         /\ Keeps(d)
         /\ rel'[d] = rel[d]
  BY FilesUsed DEF Types, Goes, Keeps, ControlType, FileType, RelType, Step, GoTo, VerifyAssets,
      Makes, outputs, upload, github, Checks

(* What SealList does to the dispatch that does it.                        *)
LEMMA SealListIs ==
  ASSUME Types, NEW d \in Dispatches, SealList(d)
  PROVE  /\ Goes(d, "seal", "keep", {})
         /\ seal'[d].prov = seal[d].prov
         /\ handed'[d] = handed[d]
         /\ hashed'[d] = hashed[d]
         /\ slipped'[d] = slipped[d]
         /\ rel'[d] = rel[d]
  BY FilesUsed DEF Types, Goes, Keeps, ControlType, FileType, RelType, Step, GoTo, SealList,
      outputs, upload, github

(* What KeepArtifact does to the dispatch that does it.                    *)
LEMMA KeepArtifactIs ==
  ASSUME Types, NEW d \in Dispatches, KeepArtifact(d)
  PROVE  /\ Goes(d, "keep", "approval", Files)
         /\ seal'[d] = seal[d]
         /\ hashed'[d] = hashed[d]
         /\ slipped'[d] = slipped[d]
         /\ \A f \in Handed : handed'[d][f] = file[d][f]
         /\ rel'[d] = rel[d]
  BY FilesUsed DEF Types, Goes, Keeps, ControlType, FileType, RelType, Step, GoTo, KeepArtifact,
      outputs, upload, github

(* What Approve does to the dispatch that does it.                         *)
LEMMA ApproveIs ==
  ASSUME Types, NEW d \in Dispatches, Approve(d)
  PROVE  /\ Goes(d, "approval", "revalidate", {})
         /\ Keeps(d)
         /\ rel'[d] = rel[d]
  BY FilesUsed DEF Types, Goes, Keeps, ControlType, FileType, RelType, Step, GoTo, Approve,
      Makes, outputs, upload, github, Checks

(* What Revalidate does to the dispatch that does it.                      *)
LEMMA RevalidateIs ==
  ASSUME Types, NEW d \in Dispatches, Revalidate(d)
  PROVE  /\ Goes(d, "revalidate", "restore", {})
         /\ Keeps(d)
         /\ rel'[d] = rel[d]
  BY FilesUsed DEF Types, Goes, Keeps, ControlType, FileType, RelType, Step, GoTo, Revalidate,
      Makes, outputs, upload, github, Checks

(* What Restore does to the dispatch that does it.                         *)
LEMMA RestoreIs ==
  ASSUME Types, NEW d \in Dispatches, Restore(d)
  PROVE  /\ Goes(d, "restore", "reverify", Files)
         /\ \A f \in Handed : file'[d][f] = handed[d][f]
         /\ Keeps(d)
         /\ rel'[d] = rel[d]
  BY FilesUsed DEF Types, Goes, Keeps, ControlType, FileType, RelType, Step, GoTo, Restore,
      Makes, outputs, upload, github

(* What Reverify does to the dispatch that does it.                        *)
LEMMA ReverifyIs ==
  ASSUME Types, NEW d \in Dispatches, Reverify(d)
  PROVE  /\ Goes(d, "reverify", "hash", {})
         /\ Keeps(d)
         /\ rel'[d] = rel[d]
  BY FilesUsed DEF Types, Goes, Keeps, ControlType, FileType, RelType, Step, GoTo, Reverify,
      Makes, outputs, upload, github, Checks

(* What HashAssets does to the dispatch that does it.                      *)
LEMMA HashAssetsIs ==
  ASSUME Types, NEW d \in Dispatches, HashAssets(d)
  PROVE  /\ Goes(d, "hash", "draft", {})
         /\ seal'[d] = seal[d]
         /\ handed'[d] = handed[d]
         /\ slipped'[d] = slipped[d]
         /\ \A a \in Assets : hashed'[d][a] = file[d][a]
         /\ rel'[d] = rel[d]
  BY FilesUsed DEF Types, Goes, Keeps, ControlType, FileType, RelType, Step, GoTo, HashAssets,
      outputs, upload, github

(* What CreateDraft does to the dispatch that does it.                     *)
LEMMA CreateDraftIs ==
  ASSUME Types, NEW d \in Dispatches, CreateDraft(d)
  PROVE  /\ Goes(d, "draft", "ids", {})
         /\ Keeps(d)
         /\ rel'[d].state = "draft"
  BY FilesUsed DEF Types, Goes, Keeps, ControlType, FileType, RelType, Step, GoTo, CreateDraft,
      outputs, upload, github

(* What ListIds does to the dispatch that does it.                         *)
LEMMA ListIdsIs ==
  ASSUME Types, NEW d \in Dispatches, ListIds(d)
  PROVE  /\ Goes(d, "ids", "upload", {})
         /\ Keeps(d)
         /\ rel'[d] = rel[d]
  BY FilesUsed DEF Types, Goes, Keeps, ControlType, FileType, RelType, Step, GoTo, ListIds,
      Makes, outputs, upload, github, Checks

(* What CompareRemote does to the dispatch that does it.                   *)
LEMMA CompareRemoteIs ==
  ASSUME Types, NEW d \in Dispatches, CompareRemote(d)
  PROVE  /\ Goes(d, "compare", "assert", {})
         /\ Keeps(d)
         /\ rel'[d] = rel[d]
  BY FilesUsed DEF Types, Goes, Keeps, ControlType, FileType, RelType, Step, GoTo,
      CompareRemote, outputs, upload, github

(* What AssertTag does to the dispatch that does it.                       *)
LEMMA AssertTagIs ==
  ASSUME Types, NEW d \in Dispatches, AssertTag(d)
  PROVE  /\ Goes(d, "assert", "public", {})
         /\ Keeps(d)
         /\ rel'[d] = rel[d]
  BY FilesUsed DEF Types, Goes, Keeps, ControlType, FileType, RelType, Step, GoTo, AssertTag,
      Makes, outputs, upload, github, Checks

(* A request to the release ends with its job.                             *)
LEMMA MakePublicIs ==
  ASSUME Types, NEW d \in Dispatches, MakePublic(d)
  PROVE  /\ pc[d] = "public" /\ pc'[d] \in {"done", "failed"}
         /\ seal'[d] = seal[d] /\ handed'[d] = handed[d] /\ slipped'[d] = slipped[d]
         /\ rel'[d].state = "public" /\ rel'[d].asset = rel[d].asset
  BY DEF Types, ControlType, FileType, RelType, MakePublic, Leave, GoTo, outputs, upload

(* What a failure leaves behind.                                           *)
LEMMA FailsIs ==
  ASSUME Types, NEW d \in Dispatches, Fails(d)
  PROVE  /\ pc'[d] = "failed"
         /\ seal'[d] = seal[d] /\ handed'[d] = handed[d] /\ slipped'[d] = slipped[d]
         /\ rel'[d] = rel[d]
  BY DEF Types, ControlType, Fails, Leave, GoTo, outputs, github

(* An upload adds to a release of the tag and changes nothing it holds.    *)
LEMMA UploadAssetIs ==
  ASSUME Types, NEW d \in Dispatches, UploadAsset(d)
  PROVE  /\ Goes(d, "upload", "upload", {}) \/ Goes(d, "upload", "compare", {})
         /\ Keeps(d)
         /\ \A e \in Dispatches :
              /\ rel'[e].state = rel[e].state
              /\ \A a \in Assets : rel[e].asset[a] # <<>> => rel'[e].asset[a] = rel[e].asset[a]
<1>1. PICK e \in Releases :
        LET a == AssetOrder[sent[d] + 1] IN
        /\ Step(d, "upload", rel[e].asset[a] = <<>>, <<>>,
                IF sent[d] + 1 = Len(AssetOrder) THEN "compare" ELSE "upload")
        /\ rel' = [rel EXCEPT ![e].asset[a] = Uploaded(file[d][a])]
        /\ sent' = [sent EXCEPT ![d] = @ + 1]
        /\ UNCHANGED <<tag, outputs, hashed, slipped, bounds>>
  BY DEF UploadAsset
<1> DEFINE a == AssetOrder[sent[d] + 1]
<1>2. pc[d] = "upload" /\ pc'[d] \in {"upload", "compare"} /\ file' = file
      /\ rel[e].asset[a] = <<>>
  BY <1>1 DEF Types, ControlType, FileType, Step, GoTo
<1>3. Keeps(d)
  BY <1>1 DEF Keeps, outputs
<1>4. e \in Dispatches /\ rel' = [rel EXCEPT ![e].asset[a] = Uploaded(file[d][a])]
  BY <1>1 DEF Releases
<1> HIDE DEF a
<1>5. \A x \in Dispatches :
        /\ rel'[x].state = rel[x].state
        /\ \A b \in Assets : rel[x].asset[b] # <<>> => rel'[x].asset[b] = rel[x].asset[b]
  BY <1>2, <1>4 DEF Types, RelType, Remote
<1>6. QED
  BY <1>2, <1>3, <1>5 DEF Goes

(* A repeated job starts with what was kept.                               *)
LEMMA RerunIs ==
  ASSUME Types, NEW d \in Dispatches, Rerun(d)
  PROVE  /\ Goes(d, "failed", "approval", {}) /\ Keeps(d)
         /\ handed[d] # NoHanded /\ rel'[d] = rel[d]
  BY DEF Types, ControlType, Rerun, GoTo, Goes, Keeps, outputs, upload, github

(* A draft is deleted after its job has failed.                            *)
LEMMA DeleteDraftIs ==
  ASSUME Types, NEW d \in Dispatches, DeleteDraft(d)
  PROVE  /\ Goes(d, "failed", "failed", {}) /\ Keeps(d)
         /\ rel'[d].state = "none"
  BY DEF Types, ControlType, RelType, DeleteDraft, Goes, Keeps, outputs, upload

(* An alteration in a window is remembered.                                *)
LEMMA EditIs ==
  ASSUME Types, NEW d \in Dispatches, NEW f \in Files, Edit(d, f)
  PROVE  /\ Goes(d, pc[d], pc[d], {f}) /\ file'[d][f] = {f}
         /\ seal'[d] = seal[d] /\ handed'[d] = handed[d] /\ hashed'[d] = hashed[d]
         /\ rel'[d] = rel[d]
         /\ slipped[d] => slipped'[d]
         /\ <<pc[d], f>> \in Window => slipped'[d]
<1>1. slipped'[d] = (slipped[d] \/ <<pc[d], f>> \in Window)
  BY DEF Edit, Types, FlagType
<1>2. QED
  BY <1>1 DEF Types, ControlType, FileType, Edit, Goes, outputs, upload, github

(* The steps and files of the windows.                                     *)
LEMMA WindowHas ==
  /\ <<"receipt", "setup">> \in Window /\ <<"sources", "setup">> \in Window
  /\ <<"sources", "docs">> \in Window /\ <<"write", "setup">> \in Window
  /\ <<"write", "lic">> \in Window /\ \A a \in Assets : <<"hash", a>> \in Window
  BY DEF Window

(* What a dispatch does on its own.                                        *)
Acts(d) == \/ PrepareStep(d) \/ PublishStep(d) \/ Fails(d) \/ Rerun(d) \/ DeleteDraft(d)
           \/ \E f \in Files : Edit(d, f)

(* What the audits compare was not altered: each file stems from itself at *)
(* most, and what it is compared with does not stem from it.               *)
LEMMA DistIsRight ==
  ASSUME NEW d \in Dispatches, Own(d, Dist), Own(d, {"tree", "python", "env"}),
         PackageHolds(d), ManifestHolds(d)
  PROVE  AllRight(d, Dist \cup {"tree"})
<1> USE FilesUsed DEF Own, AllRight, Right, Of
<1>1. file[d]["tree"] = {} /\ file[d]["dprov"] = {} /\ file[d]["env"] = {}
      /\ file[d]["python"] = {}
  BY DEF PackageHolds, ProvenanceHolds, TreeClean, RecordedInventory, BootstrapHolds
<1>2. file[d]["docs"] = {} /\ file[d]["packages"] = {} /\ file[d]["base"] = {}
  BY <1>1 DEF PackageHolds, DocsHold, PackagesHold, BaseHolds
<1>3. \A f \in Dist \ {"manifest"} : file[d][f] \subseteq file[d]["manifest"]
  BY DEF ManifestHolds
<1>4. \A f \in Dist \ {"manifest"} : file[d][f] = {}
  BY <1>3
<1>5. file[d]["manifest"] = {}
  BY <1>4 DEF ManifestHolds
<1>6. QED
  BY <1>1, <1>4, <1>5

(* No step of a dispatch disturbs another one.                             *)
LEMMA FrameIs ==
  ASSUME IInv, NEW d \in Dispatches, Acts(d)
  PROVE  Frame(d)
<1> USE DEF IInv, Types, Frame, GoTo, outputs, upload, github, bounds
<1>1. ASSUME Checkout(d) PROVE Frame(d)
  BY <1>1 DEF Checkout, Step, ControlType, FileType, FlagType, RelType
<1>2. ASSUME ValidateInputs(d) PROVE Frame(d)
  BY <1>2 DEF ValidateInputs, Checks, Makes, Step, TagStands, ControlType, FileType, FlagType,
      RelType
<1>3. ASSUME PreparePython(d) PROVE Frame(d)
  BY <1>3 DEF PreparePython, Makes, Step, GatesClosed, ControlType, FileType, FlagType, RelType
<1>4. ASSUME FetchWheels(d) PROVE Frame(d)
  BY <1>4 DEF FetchWheels, Makes, Step, ControlType, FileType, FlagType, RelType
<1>5. ASSUME PrepareExternal(d) PROVE Frame(d)
  BY <1>5 DEF PrepareExternal, Makes, Step, ControlType, FileType, FlagType, RelType
<1>6. ASSUME WritePlan(d) PROVE Frame(d)
  BY <1>6 DEF WritePlan, Makes, Step, ControlType, FileType, FlagType, RelType
<1>7. ASSUME PipInstall(d) PROVE Frame(d)
  BY <1>7 DEF PipInstall, Makes, Step, ControlType, FileType, FlagType, RelType
<1>8. ASSUME Attest(d) PROVE Frame(d)
  BY <1>8 DEF Attest, Makes, Step, ControlType, FileType, FlagType, RelType
<1>9. ASSUME PrepareInno(d) PROVE Frame(d)
  BY <1>9 DEF PrepareInno, Step, ControlType, FileType, FlagType, RelType
<1>10. ASSUME Build(d) PROVE Frame(d)
  BY <1>10 DEF Build, Makes, Step, ControlType, FileType, FlagType, RelType
<1>11. ASSUME CollectLicenses(d) PROVE Frame(d)
  BY <1>11 DEF CollectLicenses, Makes, Step, ControlType, FileType, FlagType, RelType
<1>12. ASSUME WriteManifest(d) PROVE Frame(d)
  BY <1>12 DEF WriteManifest, Makes, Step, ControlType, FileType, FlagType, RelType
<1>13. ASSUME CheckDistribution(d) PROVE Frame(d)
  BY <1>13 DEF CheckDistribution, Checks, Makes, Step, ControlType, FileType, FlagType, RelType
<1>14. ASSUME CompileInstaller(d) PROVE Frame(d)
  BY <1>14 DEF CompileInstaller, Makes, Step, ControlType, FileType, FlagType, RelType
<1>15. ASSUME AuditPayload(d) PROVE Frame(d)
  BY <1>15 DEF AuditPayload, Checks, Makes, Step, ControlType, FileType, FlagType, RelType
<1>16. ASSUME WriteReceipt(d) PROVE Frame(d)
  BY <1>16 DEF WriteReceipt, AuditedBytes, Makes, Step, ControlType, FileType, FlagType, RelType
<1>17. ASSUME CheckRelease(d) PROVE Frame(d)
  BY <1>17 DEF CheckRelease, Checks, Makes, Step, GatesClosed, ControlType, FileType, FlagType,
      RelType
<1>18. ASSUME ArchiveSource(d) PROVE Frame(d)
  BY <1>18 DEF ArchiveSource, Makes, Step, ControlType, FileType, FlagType, RelType
<1>19. ASSUME BindReceipt(d) PROVE Frame(d)
  BY <1>19 DEF BindReceipt, Checks, Makes, Step, ControlType, FileType, FlagType, RelType
<1>20. ASSUME MakeArchives(d) PROVE Frame(d)
  BY <1>20 DEF MakeArchives, Makes, Step, ControlType, FileType, FlagType, RelType
<1>21. ASSUME WriteAssetList(d) PROVE Frame(d)
  BY <1>21 DEF WriteAssetList, Makes, Step, ControlType, FileType, FlagType, RelType
<1>22. ASSUME VerifyAssets(d) PROVE Frame(d)
  BY <1>22 DEF VerifyAssets, Checks, Makes, Step, ControlType, FileType, FlagType, RelType
<1>23. ASSUME SealList(d) PROVE Frame(d)
  BY <1>23 DEF SealList, Step, ControlType, FileType, FlagType, RelType
<1>24. ASSUME KeepArtifact(d) PROVE Frame(d)
  BY <1>24 DEF KeepArtifact, Step, ControlType, FileType, FlagType, RelType
<1>25. ASSUME Approve(d) PROVE Frame(d)
  BY <1>25 DEF Approve, Checks, Makes, Step, ControlType, FileType, FlagType, RelType
<1>26. ASSUME Revalidate(d) PROVE Frame(d)
  BY <1>26 DEF Revalidate, Checks, Makes, Step, TagStands, ControlType, FileType, FlagType,
      RelType
<1>27. ASSUME Restore(d) PROVE Frame(d)
  BY <1>27 DEF Restore, Makes, Step, ControlType, FileType, FlagType, RelType
<1>28. ASSUME Reverify(d) PROVE Frame(d)
  BY <1>28 DEF Reverify, Checks, Makes, Step, ControlType, FileType, FlagType, RelType
<1>29. ASSUME HashAssets(d) PROVE Frame(d)
  BY <1>29 DEF HashAssets, Step, ControlType, FileType, FlagType, RelType
<1>30. ASSUME CreateDraft(d) PROVE Frame(d)
  BY <1>30 DEF CreateDraft, Step, ControlType, FileType, FlagType, RelType
<1>31. ASSUME ListIds(d) PROVE Frame(d)
  BY <1>31 DEF ListIds, Checks, Makes, Step, ControlType, FileType, FlagType, RelType
<1>32. ASSUME UploadAsset(d) PROVE Frame(d)
  BY <1>32, UploadAssetIs DEF UploadAsset, Step, ControlType, FileType
<1>33. ASSUME CompareRemote(d) PROVE Frame(d)
  BY <1>33 DEF CompareRemote, Step, ControlType, FileType, FlagType, RelType
<1>34. ASSUME AssertTag(d) PROVE Frame(d)
  BY <1>34 DEF AssertTag, Checks, Makes, Step, ControlType, FileType, FlagType, RelType
<1>35. ASSUME MakePublic(d) PROVE Frame(d)
  BY <1>35 DEF MakePublic, Leave, ControlType, FileType, FlagType, RelType
<1>36. ASSUME Fails(d) PROVE Frame(d)
  BY <1>36 DEF Fails, Leave, ControlType, FileType, FlagType, RelType
<1>37. ASSUME Rerun(d) PROVE Frame(d)
  BY <1>37 DEF Rerun, ControlType, FileType, FlagType, RelType
<1>38. ASSUME DeleteDraft(d) PROVE Frame(d)
  BY <1>38 DEF DeleteDraft, ControlType, FileType, FlagType, RelType
<1>39. ASSUME NEW f \in Files, Edit(d, f) PROVE Frame(d)
  BY <1>39 DEF Edit, ControlType, FileType, FlagType, RelType
<1>40. QED
  BY <1>1, <1>2, <1>3, <1>4, <1>5, <1>6, <1>7, <1>8, <1>9, <1>10, <1>11, <1>12, <1>13, <1>14,
      <1>15, <1>16, <1>17, <1>18, <1>19, <1>20, <1>21, <1>22, <1>23, <1>24, <1>25, <1>26, <1>27,
      <1>28, <1>29, <1>30, <1>31, <1>32, <1>33, <1>34, <1>35, <1>36, <1>37, <1>38, <1>39 DEF
      Acts, PrepareStep, PublishStep

(* A step of a dispatch keeps BuiltOf of it.                               *)
LEMMA BuiltKept ==
  ASSUME Types, NEW d \in Dispatches, BuiltOf(d), Acts(d)
  PROVE  BuiltOf(d)'
<1> USE FilesUsed DEF BuiltOf, Own, Right, Keeps, Goes, Attested, Built, Receipted, Bound,
    Assembled
<1>1. ASSUME Checkout(d) PROVE BuiltOf(d)'
  BY <1>1, CheckoutIs
<1>2. ASSUME ValidateInputs(d) PROVE BuiltOf(d)'
  BY <1>2, ValidateInputsIs
<1>3. ASSUME PreparePython(d) PROVE BuiltOf(d)'
  BY <1>3, PreparePythonIs
<1>4. ASSUME FetchWheels(d) PROVE BuiltOf(d)'
  BY <1>4, FetchWheelsIs
<1>5. ASSUME PrepareExternal(d) PROVE BuiltOf(d)'
  BY <1>5, PrepareExternalIs
<1>6. ASSUME WritePlan(d) PROVE BuiltOf(d)'
  BY <1>6, WritePlanIs
<1>7. ASSUME PipInstall(d) PROVE BuiltOf(d)'
  BY <1>7, PipInstallIs
<1>8. ASSUME Attest(d) PROVE BuiltOf(d)'
  <2>1. file[d]["tree"] = {} /\ file[d]["python"] = {} /\ file[d]["wheels"] = {}
    BY <1>8 DEF Attest, Makes, Step, TreeClean, PythonHolds, LockedWheels, Of
  <2>2. file[d]["external"] = {}
    BY <1>8, <2>1 DEF Attest, Makes, Step, ExternalHolds, Of
  <2>3. file[d]["env"] = {}
    BY <1>8, <2>1, <2>2 DEF Attest, Makes, Step, InstalledFromWheel, Of
  <2>4. QED
    BY <1>8, AttestIs, <2>1, <2>3
<1>9. ASSUME PrepareInno(d) PROVE BuiltOf(d)'
  BY <1>9, PrepareInnoIs
<1>10. ASSUME Build(d) PROVE BuiltOf(d)'
  BY <1>10, BuildIs
<1>11. ASSUME CollectLicenses(d) PROVE BuiltOf(d)'
  BY <1>11, CollectLicensesIs
<1>12. ASSUME WriteManifest(d) PROVE BuiltOf(d)'
  <2>1. Goes(d, "manifest", "check", {"manifest"}) /\ Keeps(d)
        /\ file'[d]["manifest"] = Of(d, Dist \ {"manifest"})
    BY <1>12, WriteManifestIs
  <2>2. BuildHolds(d) /\ SealHolds(d)
    BY <1>12 DEF WriteManifest, Makes, Step
  <2>3. file[d]["tree"] = {} /\ file[d]["env"] = {} /\ file[d]["python"] = {}
        /\ file[d]["dprov"] = {}
    BY <2>1, <2>2 DEF BuildHolds, PackageHolds, ProvenanceHolds, TreeClean, RecordedInventory,
       BootstrapHolds
  <2>4. \A f \in Dist \ {"manifest"} : file[d][f] = {}
    BY <2>2, <2>3 DEF BuildHolds, PackageHolds, DocsHold, PackagesHold, BaseHolds, LoaderHolds,
       ModulesHold, NativeHolds, Of
  <2>5. Of(d, Dist \ {"manifest"}) = {}
    BY <2>4 DEF Of
  <2>6. \A f \in Dist : file'[d][f] = {}
    BY <2>1, <2>4, <2>5
  <2>7. seal'[d].prov = {}
    BY <2>1, <2>2, <2>3 DEF SealHolds
  <2>8. \A f \in {"tree", "python", "env"} : file'[d][f] = {}
    BY <2>1, <2>3
  <2>9. QED
    BY <2>6, <2>7, <2>8
<1>13. ASSUME CheckDistribution(d) PROVE BuiltOf(d)'
  BY <1>13, CheckDistributionIs
<1>14. ASSUME CompileInstaller(d) PROVE BuiltOf(d)'
  BY <1>14, CompileInstallerIs
<1>15. ASSUME AuditPayload(d) PROVE BuiltOf(d)'
  BY <1>15, AuditPayloadIs
<1>16. ASSUME WriteReceipt(d) PROVE BuiltOf(d)'
  BY <1>16, WriteReceiptIs
<1>17. ASSUME CheckRelease(d) PROVE BuiltOf(d)'
  BY <1>17, CheckReleaseIs
<1>18. ASSUME ArchiveSource(d) PROVE BuiltOf(d)'
  BY <1>18, ArchiveSourceIs
<1>19. ASSUME BindReceipt(d) PROVE BuiltOf(d)'
  BY <1>19, BindReceiptIs
<1>20. ASSUME MakeArchives(d) PROVE BuiltOf(d)'
  BY <1>20, MakeArchivesIs
<1>21. ASSUME WriteAssetList(d) PROVE BuiltOf(d)'
  BY <1>21, WriteAssetListIs
<1>22. ASSUME VerifyAssets(d) PROVE BuiltOf(d)'
  BY <1>22, VerifyAssetsIs
<1>23. ASSUME SealList(d) PROVE BuiltOf(d)'
  BY <1>23, SealListIs
<1>24. ASSUME KeepArtifact(d) PROVE BuiltOf(d)'
  BY <1>24, KeepArtifactIs
<1>25. ASSUME Approve(d) PROVE BuiltOf(d)'
  BY <1>25, ApproveIs
<1>26. ASSUME Revalidate(d) PROVE BuiltOf(d)'
  BY <1>26, RevalidateIs
<1>27. ASSUME Restore(d) PROVE BuiltOf(d)'
  BY <1>27, RestoreIs
<1>28. ASSUME Reverify(d) PROVE BuiltOf(d)'
  BY <1>28, ReverifyIs
<1>29. ASSUME HashAssets(d) PROVE BuiltOf(d)'
  BY <1>29, HashAssetsIs
<1>30. ASSUME CreateDraft(d) PROVE BuiltOf(d)'
  BY <1>30, CreateDraftIs
<1>31. ASSUME ListIds(d) PROVE BuiltOf(d)'
  BY <1>31, ListIdsIs
<1>32. ASSUME UploadAsset(d) PROVE BuiltOf(d)'
  BY <1>32, UploadAssetIs
<1>33. ASSUME CompareRemote(d) PROVE BuiltOf(d)'
  BY <1>33, CompareRemoteIs
<1>34. ASSUME AssertTag(d) PROVE BuiltOf(d)'
  BY <1>34, AssertTagIs
<1>35. ASSUME MakePublic(d) PROVE BuiltOf(d)'
  BY <1>35, MakePublicIs
<1>36. ASSUME Fails(d) PROVE BuiltOf(d)'
  BY <1>36, FailsIs
<1>37. ASSUME Rerun(d) PROVE BuiltOf(d)'
  BY <1>37, RerunIs
<1>38. ASSUME DeleteDraft(d) PROVE BuiltOf(d)'
  BY <1>38, DeleteDraftIs
<1>39. ASSUME NEW f \in Files, Edit(d, f) PROVE BuiltOf(d)'
  <2>0. file'[d][f] = {f} /\ \A g \in Files \ {f} : file'[d][g] = file[d][g]
    BY <1>39, EditIs
  <2>1. \A g \in Files : file'[d][g] = file[d][g] \/ file'[d][g] \subseteq {g}
    BY <2>0
  <2>2. pc'[d] = pc[d] /\ seal'[d] = seal[d]
    BY <1>39, EditIs
  <2>3. QED
    BY <2>1, <2>2
<1>40. QED
  BY <1>1, <1>2, <1>3, <1>4, <1>5, <1>6, <1>7, <1>8, <1>9, <1>10, <1>11, <1>12, <1>13, <1>14,
      <1>15, <1>16, <1>17, <1>18, <1>19, <1>20, <1>21, <1>22, <1>23, <1>24, <1>25, <1>26, <1>27,
      <1>28, <1>29, <1>30, <1>31, <1>32, <1>33, <1>34, <1>35, <1>36, <1>37, <1>38, <1>39 DEF
      Acts, PrepareStep, PublishStep

(* Every step keeps BuiltInv.                                              *)
LEMMA NextBuiltInv == IInv /\ [Next]_vars => BuiltInv'
<1> SUFFICES ASSUME IInv, [Next]_vars PROVE BuiltInv'
  OBVIOUS
<1>1. CASE MoveTag \/ UNCHANGED vars
  BY <1>1 DEF MoveTag, vars, outputs, upload, IInv, BuiltInv, BuiltOf, Own, AllRight
<1>2. ASSUME NEW d \in Dispatches, Acts(d) PROVE BuiltInv'
  <2>1. BuiltOf(d)'
    BY <1>2, BuiltKept DEF IInv, BuiltInv
  <2>2. \A e \in Dispatches \ {d} : BuiltOf(e)'
    BY <1>2, FrameIs DEF Frame, IInv, BuiltInv, BuiltOf, Own, AllRight
  <2>3. QED
    BY <2>1, <2>2 DEF BuiltInv
<1>3. QED
  BY <1>1, <1>2 DEF Next, Acts

(* A step of a dispatch keeps AuditOf of it.                               *)
LEMMA AuditKept ==
  ASSUME Types, NEW d \in Dispatches, BuiltOf(d), AuditOf(d), Acts(d)
  PROVE  AuditOf(d)'
<1> USE FilesUsed DEF BuiltOf, AuditOf, Own, AllRight, Right, Keeps, Goes, Attested, Built,
    Receipted, Bound, Assembled
<1>1. ASSUME Checkout(d) PROVE AuditOf(d)'
  BY <1>1, CheckoutIs
<1>2. ASSUME ValidateInputs(d) PROVE AuditOf(d)'
  BY <1>2, ValidateInputsIs
<1>3. ASSUME PreparePython(d) PROVE AuditOf(d)'
  BY <1>3, PreparePythonIs
<1>4. ASSUME FetchWheels(d) PROVE AuditOf(d)'
  BY <1>4, FetchWheelsIs
<1>5. ASSUME PrepareExternal(d) PROVE AuditOf(d)'
  BY <1>5, PrepareExternalIs
<1>6. ASSUME WritePlan(d) PROVE AuditOf(d)'
  BY <1>6, WritePlanIs
<1>7. ASSUME PipInstall(d) PROVE AuditOf(d)'
  BY <1>7, PipInstallIs
<1>8. ASSUME Attest(d) PROVE AuditOf(d)'
  BY <1>8, AttestIs
<1>9. ASSUME PrepareInno(d) PROVE AuditOf(d)'
  BY <1>9, PrepareInnoIs
<1>10. ASSUME Build(d) PROVE AuditOf(d)'
  BY <1>10, BuildIs
<1>11. ASSUME CollectLicenses(d) PROVE AuditOf(d)'
  BY <1>11, CollectLicensesIs
<1>12. ASSUME WriteManifest(d) PROVE AuditOf(d)'
  BY <1>12, WriteManifestIs
<1>13. ASSUME CheckDistribution(d) PROVE AuditOf(d)'
  BY <1>13, CheckDistributionIs
<1>14. ASSUME CompileInstaller(d) PROVE AuditOf(d)'
  BY <1>14, CompileInstallerIs
<1>15. ASSUME AuditPayload(d) PROVE AuditOf(d)'
  <2>1. Goes(d, "extract", "receipt", {})
    BY <1>15, AuditPayloadIs
  <2>2. PayloadMatches(d) /\ PackageHolds(d) /\ ManifestHolds(d)
    BY <1>15 DEF AuditPayload, Checks, Makes, Step
  <2>3. AllRight(d, Dist \cup {"tree"})
    BY <2>1, <2>2, DistIsRight
  <2>4. file[d]["setup"] = {}
    BY <2>2, <2>3 DEF PayloadMatches, Of
  <2>5. QED
    BY <2>1, <2>4
<1>16. ASSUME WriteReceipt(d) PROVE AuditOf(d)'
  <2>1. Goes(d, "receipt", "release", {"receipt"}) /\ Keeps(d)
        /\ file'[d]["receipt"] = AuditedBytes(d)
    BY <1>16, WriteReceiptIs
  <2>2. \A f \in Dist \cup {"tree"} : file[d][f] \subseteq {f} /\ file'[d][f] = file[d][f]
    BY <2>1
  <2>3. SUFFICES ASSUME ~slipped[d] PROVE AuditOf(d)'
    BY <2>1
  <2>4. file[d]["setup"] = {} /\ file'[d]["setup"] = {}
    BY <2>1, <2>3
  <2>5. ASSUME NEW f \in AuditedBytes(d)
        PROVE  f \in Dist \cup {"tree"} /\ file[d][f] # {}
    <3>1. PICK g \in {"setup", "tree"} \cup Dist : f \in file[d][g]
      BY <2>5 DEF AuditedBytes, Of
    <3>2. g \in Dist \cup {"tree"}
      BY <2>4, <3>1
    <3>3. f = g
      BY <2>2, <3>1, <3>2
    <3>4. QED
      BY <3>1, <3>2, <3>3
  <2>6. \A f \in file'[d]["receipt"] \ {"receipt"} :
          f \in Dist \cup {"tree"} /\ file'[d][f] # {}
    BY <2>1, <2>2, <2>5
  <2>7. QED
    BY <2>1, <2>4, <2>6
<1>17. ASSUME CheckRelease(d) PROVE AuditOf(d)'
  <2>1. Goes(d, "release", "archive", {}) /\ Keeps(d)
    BY <1>17, CheckReleaseIs
  <2>2. PackageHolds(d) /\ ManifestHolds(d)
    BY <1>17 DEF CheckRelease, Checks, Makes, Step, BuildHolds
  <2>3. AllRight(d, Dist \cup {"tree"})
    BY <2>1, <2>2, DistIsRight
  <2>4. SUFFICES ASSUME ~slipped[d] PROVE AuditOf(d)'
    BY <2>1
  <2>5. file[d]["receipt"] \subseteq {"receipt"} /\ file[d]["setup"] \subseteq {"setup"}
    BY <2>1, <2>3, <2>4
  <2>6. QED
    BY <2>1, <2>5
<1>18. ASSUME ArchiveSource(d) PROVE AuditOf(d)'
  BY <1>18, ArchiveSourceIs
<1>19. ASSUME BindReceipt(d) PROVE AuditOf(d)'
  <2>1. Goes(d, "bind", "sources", {}) /\ Keeps(d)
    BY <1>19, BindReceiptIs
  <2>2. file[d]["receipt"] = AuditedBytes(d)
    BY <1>19 DEF BindReceipt, Checks, Makes, Step
  <2>3. SUFFICES ASSUME ~slipped[d] PROVE AuditOf(d)'
    BY <2>1
  <2>4. file[d]["receipt"] \subseteq {"receipt"} /\ file[d]["setup"] \subseteq {"setup"}
        /\ file[d]["docs"] \subseteq {"docs"}
    BY <2>1, <2>3
  <2>5. file[d]["setup"] \subseteq file[d]["receipt"]
        /\ file[d]["docs"] \subseteq file[d]["receipt"]
    BY <2>2 DEF AuditedBytes, Of
  <2>6. file[d]["setup"] = {} /\ file[d]["docs"] = {}
    BY <2>4, <2>5
  <2>7. QED
    BY <2>1, <2>6
<1>20. ASSUME MakeArchives(d) PROVE AuditOf(d)'
  <2>1. Goes(d, "sources", "write", {"parts", "lic"}) /\ Keeps(d)
        /\ file'[d]["lic"] = Of(d, {"docs", "dprov"})
    BY <1>20, MakeArchivesIs
  <2>2. file[d]["dprov"] = {}
    BY <1>20, <2>1 DEF MakeArchives, Makes, Step, SealHolds
  <2>3. SUFFICES ASSUME ~slipped[d] PROVE AuditOf(d)'
    BY <2>1
  <2>4. file[d]["setup"] = {} /\ file[d]["docs"] = {}
    BY <2>1, <2>3
  <2>5. file'[d]["lic"] = {} /\ file'[d]["setup"] = {}
    BY <2>1, <2>2, <2>4 DEF Of
  <2>6. QED
    BY <2>1, <2>5
<1>21. ASSUME WriteAssetList(d) PROVE AuditOf(d)'
  BY <1>21, WriteAssetListIs
<1>22. ASSUME VerifyAssets(d) PROVE AuditOf(d)'
  BY <1>22, VerifyAssetsIs
<1>23. ASSUME SealList(d) PROVE AuditOf(d)'
  BY <1>23, SealListIs
<1>24. ASSUME KeepArtifact(d) PROVE AuditOf(d)'
  BY <1>24, KeepArtifactIs
<1>25. ASSUME Approve(d) PROVE AuditOf(d)'
  BY <1>25, ApproveIs
<1>26. ASSUME Revalidate(d) PROVE AuditOf(d)'
  BY <1>26, RevalidateIs
<1>27. ASSUME Restore(d) PROVE AuditOf(d)'
  BY <1>27, RestoreIs
<1>28. ASSUME Reverify(d) PROVE AuditOf(d)'
  BY <1>28, ReverifyIs
<1>29. ASSUME HashAssets(d) PROVE AuditOf(d)'
  BY <1>29, HashAssetsIs
<1>30. ASSUME CreateDraft(d) PROVE AuditOf(d)'
  BY <1>30, CreateDraftIs
<1>31. ASSUME ListIds(d) PROVE AuditOf(d)'
  BY <1>31, ListIdsIs
<1>32. ASSUME UploadAsset(d) PROVE AuditOf(d)'
  BY <1>32, UploadAssetIs
<1>33. ASSUME CompareRemote(d) PROVE AuditOf(d)'
  BY <1>33, CompareRemoteIs
<1>34. ASSUME AssertTag(d) PROVE AuditOf(d)'
  BY <1>34, AssertTagIs
<1>35. ASSUME MakePublic(d) PROVE AuditOf(d)'
  BY <1>35, MakePublicIs
<1>36. ASSUME Fails(d) PROVE AuditOf(d)'
  BY <1>36, FailsIs
<1>37. ASSUME Rerun(d) PROVE AuditOf(d)'
  BY <1>37, RerunIs
<1>38. ASSUME DeleteDraft(d) PROVE AuditOf(d)'
  BY <1>38, DeleteDraftIs
<1>39. ASSUME NEW f \in Files, Edit(d, f) PROVE AuditOf(d)'
  <2>1. /\ pc'[d] = pc[d]
        /\ slipped[d] => slipped'[d]
        /\ file'[d][f] = {f} /\ \A g \in Files \ {f} : file'[d][g] = file[d][g]
        /\ <<pc[d], f>> \in Window => slipped'[d]
    BY <1>39, EditIs
  <2>2. SUFFICES ASSUME ~slipped'[d] PROVE AuditOf(d)'
    OBVIOUS
  <2>3. ~slipped[d] /\ <<pc[d], f>> \notin Window
    BY <2>1, <2>2
  <2>4. \A g \in Files : file'[d][g] = file[d][g] \/ file'[d][g] = {g}
    BY <2>1
  <2>5. \A g \in Files : <<pc[d], g>> \in Window => file'[d][g] = file[d][g]
    BY <2>1, <2>3
  <2>6. pc'[d] = "receipt" => file'[d]["setup"] = {}
    BY <2>1, <2>3, <2>5, WindowHas
  <2>7. pc'[d] \in Receipted => file'[d]["setup"] \subseteq {"setup"}
    BY <2>1, <2>3, <2>4
  <2>8. pc'[d] = "release" =>
          \A g \in file'[d]["receipt"] \ {"receipt"} :
            g \in Dist \cup {"tree"} /\ file'[d][g] # {}
    BY <2>1, <2>3, <2>4
  <2>9. pc'[d] \in {"archive", "bind"} => file'[d]["receipt"] \subseteq {"receipt"}
    BY <2>1, <2>3, <2>4
  <2>10. pc'[d] = "sources" => file'[d]["setup"] = {} /\ file'[d]["docs"] = {}
    BY <2>1, <2>3, <2>5, WindowHas
  <2>11. pc'[d] = "write" => file'[d]["setup"] = {} /\ file'[d]["lic"] = {}
    BY <2>1, <2>3, <2>5, WindowHas
  <2>12. QED
    BY <2>6, <2>7, <2>8, <2>9, <2>10, <2>11
<1>40. QED
  BY <1>1, <1>2, <1>3, <1>4, <1>5, <1>6, <1>7, <1>8, <1>9, <1>10, <1>11, <1>12, <1>13, <1>14,
      <1>15, <1>16, <1>17, <1>18, <1>19, <1>20, <1>21, <1>22, <1>23, <1>24, <1>25, <1>26, <1>27,
      <1>28, <1>29, <1>30, <1>31, <1>32, <1>33, <1>34, <1>35, <1>36, <1>37, <1>38, <1>39 DEF
      Acts, PrepareStep, PublishStep

(* Every step keeps AuditInv.                                              *)
LEMMA NextAuditInv == IInv /\ [Next]_vars => AuditInv'
<1> SUFFICES ASSUME IInv, [Next]_vars PROVE AuditInv'
  OBVIOUS
<1>1. CASE MoveTag \/ UNCHANGED vars
  BY <1>1 DEF MoveTag, vars, outputs, upload, IInv, AuditInv, AuditOf, Own, AllRight
<1>2. ASSUME NEW d \in Dispatches, Acts(d) PROVE AuditInv'
  <2>1. AuditOf(d)'
    BY <1>2, AuditKept DEF IInv, BuiltInv, AuditInv
  <2>2. \A e \in Dispatches \ {d} : AuditOf(e)'
    BY <1>2, FrameIs DEF Frame, IInv, AuditInv, AuditOf, Own, AllRight
  <2>3. QED
    BY <2>1, <2>2 DEF AuditInv
<1>3. QED
  BY <1>1, <1>2 DEF Next, Acts

(* A step of a dispatch keeps AssetOf of it.                               *)
LEMMA AssetKept ==
  ASSUME Types, NEW d \in Dispatches, AuditOf(d), AssetOf(d), DraftOf(d), WholeOf(d), Acts(d)
  PROVE  AssetOf(d)'
<1> USE FilesUsed DEF AuditOf, DraftOf, WholeOf, AssetOf, Own, AllRight, Right, Keeps, Goes,
    Drafted, Listed, NoHanded, Attested, Built, Receipted, Bound, Assembled
<1>1. ASSUME Checkout(d) PROVE AssetOf(d)'
  BY <1>1, CheckoutIs
<1>2. ASSUME ValidateInputs(d) PROVE AssetOf(d)'
  BY <1>2, ValidateInputsIs
<1>3. ASSUME PreparePython(d) PROVE AssetOf(d)'
  BY <1>3, PreparePythonIs
<1>4. ASSUME FetchWheels(d) PROVE AssetOf(d)'
  BY <1>4, FetchWheelsIs
<1>5. ASSUME PrepareExternal(d) PROVE AssetOf(d)'
  BY <1>5, PrepareExternalIs
<1>6. ASSUME WritePlan(d) PROVE AssetOf(d)'
  BY <1>6, WritePlanIs
<1>7. ASSUME PipInstall(d) PROVE AssetOf(d)'
  BY <1>7, PipInstallIs
<1>8. ASSUME Attest(d) PROVE AssetOf(d)'
  BY <1>8, AttestIs
<1>9. ASSUME PrepareInno(d) PROVE AssetOf(d)'
  BY <1>9, PrepareInnoIs
<1>10. ASSUME Build(d) PROVE AssetOf(d)'
  BY <1>10, BuildIs
<1>11. ASSUME CollectLicenses(d) PROVE AssetOf(d)'
  BY <1>11, CollectLicensesIs
<1>12. ASSUME WriteManifest(d) PROVE AssetOf(d)'
  BY <1>12, WriteManifestIs
<1>13. ASSUME CheckDistribution(d) PROVE AssetOf(d)'
  BY <1>13, CheckDistributionIs
<1>14. ASSUME CompileInstaller(d) PROVE AssetOf(d)'
  BY <1>14, CompileInstallerIs
<1>15. ASSUME AuditPayload(d) PROVE AssetOf(d)'
  BY <1>15, AuditPayloadIs
<1>16. ASSUME WriteReceipt(d) PROVE AssetOf(d)'
  BY <1>16, WriteReceiptIs
<1>17. ASSUME CheckRelease(d) PROVE AssetOf(d)'
  BY <1>17, CheckReleaseIs
<1>18. ASSUME ArchiveSource(d) PROVE AssetOf(d)'
  BY <1>18, ArchiveSourceIs
<1>19. ASSUME BindReceipt(d) PROVE AssetOf(d)'
  BY <1>19, BindReceiptIs
<1>20. ASSUME MakeArchives(d) PROVE AssetOf(d)'
  BY <1>20, MakeArchivesIs
<1>21. ASSUME WriteAssetList(d) PROVE AssetOf(d)'
  <2>1. Goes(d, "write", "verify", {"sums", "list"}) /\ Keeps(d) /\ rel'[d] = rel[d]
        /\ file'[d]["sums"] = Of(d, Payload) /\ file'[d]["list"] = Of(d, Payload)
    BY <1>21, WriteAssetListIs
  <2>2. file[d]["srczip"] = {} /\ file[d]["parts"] = {}
    BY <1>21 DEF WriteAssetList, Makes, Step, SourceHolds, PartsHold
  <2>3. SUFFICES ASSUME ~slipped[d] PROVE AssetOf(d)'
    BY <2>1
  <2>4. \A f \in Payload : file[d][f] = {} /\ file'[d][f] = {}
    BY <2>1, <2>2, <2>3
  <2>5. Of(d, Payload) = {}
    BY <2>4 DEF Of
  <2>6. \A f \in Handed : file'[d][f] = {}
    BY <2>1, <2>4, <2>5
  <2>7. QED
    BY <2>1, <2>3, <2>6
<1>22. ASSUME VerifyAssets(d) PROVE AssetOf(d)'
  BY <1>22, VerifyAssetsIs
<1>23. ASSUME SealList(d) PROVE AssetOf(d)'
  BY <1>23, SealListIs
<1>24. ASSUME KeepArtifact(d) PROVE AssetOf(d)'
  BY <1>24, KeepArtifactIs
<1>25. ASSUME Approve(d) PROVE AssetOf(d)'
  BY <1>25, ApproveIs
<1>26. ASSUME Revalidate(d) PROVE AssetOf(d)'
  BY <1>26, RevalidateIs
<1>27. ASSUME Restore(d) PROVE AssetOf(d)'
  BY <1>27, RestoreIs
<1>28. ASSUME Reverify(d) PROVE AssetOf(d)'
  <2>1. Goes(d, "reverify", "hash", {}) /\ Keeps(d) /\ rel'[d] = rel[d]
    BY <1>28, ReverifyIs
  <2>2. file[d]["srczip"] = {} /\ file[d]["parts"] = {} /\ file[d]["sums"] = Of(d, Payload)
    BY <1>28 DEF Reverify, Checks, Makes, Step, AssetsVerify, SourceHolds, PartsHold
  <2>3. SUFFICES ASSUME ~slipped[d] PROVE AssetOf(d)'
    BY <2>1
  <2>4. \A f \in Handed : file[d][f] \subseteq {f}
    BY <2>1, <2>3
  <2>5. \A f \in Payload : file[d][f] \subseteq file[d]["sums"]
    BY <2>2 DEF Of
  <2>6. \A f \in Payload : file[d][f] = {}
    BY <2>4, <2>5
  <2>7. file[d]["sums"] = {}
    BY <2>2, <2>6 DEF Of
  <2>8. \A a \in Assets : file'[d][a] = {}
    BY <2>1, <2>6, <2>7
  <2>9. QED
    BY <2>1, <2>3, <2>8
<1>29. ASSUME HashAssets(d) PROVE AssetOf(d)'
  BY <1>29, HashAssetsIs
<1>30. ASSUME CreateDraft(d) PROVE AssetOf(d)'
  BY <1>30, CreateDraftIs
<1>31. ASSUME ListIds(d) PROVE AssetOf(d)'
  BY <1>31, ListIdsIs
<1>32. ASSUME UploadAsset(d) PROVE AssetOf(d)'
  BY <1>32, UploadAssetIs
<1>33. ASSUME CompareRemote(d) PROVE AssetOf(d)'
  <2>1. Goes(d, "compare", "assert", {}) /\ Keeps(d) /\ rel'[d] = rel[d]
    BY <1>33, CompareRemoteIs
  <2>2. \A a \in Assets : rel[d].asset[a] = Uploaded(hashed[d][a])
    BY <1>33 DEF CompareRemote, Step
  <2>3. SUFFICES ASSUME ~slipped[d] PROVE AssetOf(d)'
    BY <2>1
  <2>4. \A a \in Assets : hashed[d][a] = {}
    BY <2>1, <2>3
  <2>5. \A a \in Assets : rel[d].asset[a] = Uploaded({})
    BY <2>2, <2>4
  <2>6. QED
    BY <2>1, <2>3, <2>4, <2>5
<1>34. ASSUME AssertTag(d) PROVE AssetOf(d)'
  BY <1>34, AssertTagIs
<1>35. ASSUME MakePublic(d) PROVE AssetOf(d)'
  BY <1>35, MakePublicIs
<1>36. ASSUME Fails(d) PROVE AssetOf(d)'
  BY <1>36, FailsIs
<1>37. ASSUME Rerun(d) PROVE AssetOf(d)'
  BY <1>37, RerunIs
<1>38. ASSUME DeleteDraft(d) PROVE AssetOf(d)'
  BY <1>38, DeleteDraftIs
<1>39. ASSUME NEW f \in Files, Edit(d, f) PROVE AssetOf(d)'
  <2>1. /\ pc'[d] = pc[d] /\ handed'[d] = handed[d] /\ hashed'[d] = hashed[d]
        /\ rel'[d] = rel[d]
        /\ slipped[d] => slipped'[d]
        /\ file'[d][f] = {f} /\ \A g \in Files \ {f} : file'[d][g] = file[d][g]
        /\ <<pc[d], f>> \in Window => slipped'[d]
    BY <1>39, EditIs
  <2>2. SUFFICES ASSUME ~slipped'[d] PROVE AssetOf(d)'
    OBVIOUS
  <2>3. ~slipped[d] /\ <<pc[d], f>> \notin Window
    BY <2>1, <2>2
  <2>4. \A g \in Files : file'[d][g] = file[d][g] \/ file'[d][g] = {g}
    BY <2>1
  <2>5. pc'[d] \in Assembled \cup {"reverify"} => \A g \in Handed : file'[d][g] \subseteq {g}
    BY <2>1, <2>3, <2>4
  <2>6. pc'[d] = "hash" => \A a \in Assets : file'[d][a] = {}
    BY <2>1, <2>3, WindowHas
  <2>7. QED
    BY <2>1, <2>3, <2>5, <2>6
<1>40. QED
  BY <1>1, <1>2, <1>3, <1>4, <1>5, <1>6, <1>7, <1>8, <1>9, <1>10, <1>11, <1>12, <1>13, <1>14,
      <1>15, <1>16, <1>17, <1>18, <1>19, <1>20, <1>21, <1>22, <1>23, <1>24, <1>25, <1>26, <1>27,
      <1>28, <1>29, <1>30, <1>31, <1>32, <1>33, <1>34, <1>35, <1>36, <1>37, <1>38, <1>39 DEF
      Acts, PrepareStep, PublishStep

(* Every step keeps AssetInv.                                              *)
LEMMA NextAssetInv == IInv /\ [Next]_vars => AssetInv'
<1> SUFFICES ASSUME IInv, [Next]_vars PROVE AssetInv'
  OBVIOUS
<1>1. CASE MoveTag \/ UNCHANGED vars
  BY <1>1 DEF MoveTag, vars, outputs, upload, IInv, AssetInv, AssetOf, Own, AllRight
<1>2. ASSUME NEW d \in Dispatches, Acts(d) PROVE AssetInv'
  <2>1. AssetOf(d)'
    BY <1>2, AssetKept DEF IInv, AuditInv, DraftInv, DraftOf, WholeInv, WholeOf, AssetInv
  <2>2. \A e \in Dispatches \ {d} : AssetOf(e)'
    BY <1>2, FrameIs DEF Frame, IInv, AssetInv, AssetOf, Own, AllRight, WholeInv, WholeOf,
        NoHanded
  <2>3. QED
    BY <2>1, <2>2 DEF AssetInv
<1>3. QED
  BY <1>1, <1>2 DEF Next, Acts

-----------------------------------------------------------------------------
(* The initial states satisfy the inductive invariant.                     *)
LEMMA InitIInv == Init => IInv
<1> SUFFICES ASSUME Init PROVE IInv
  OBVIOUS
<1> USE DEF Init
<1>1. ControlType /\ SentInv
  BY OrderIs DEF ControlType, SentInv, Steps, Listed
<1>2. FlagType
  BY DEF FlagType
<1>3. FileType
  BY DEF FileType, Content, NoFiles, NoHash, NoHanded, NoFile
<1>4. RelType
  BY DEF RelType, Remote, NoAsset
<1>5. RunnerInv
  BY DEF RunnerInv
<1>6. DraftInv /\ AloneInv /\ WholeInv
  BY DEF DraftInv, DraftOf, AloneInv, Past, WholeInv, WholeOf, Drafted, Listed
<1>7. CommitInv
  BY DEF CommitInv, Gated, Preparing, Publishing, Attested, Built, Receipted, Bound, Assembled,
     Drafted, Listed
<1>8. BuiltInv /\ AuditInv /\ AssetInv
  BY DEF BuiltInv, BuiltOf, AuditInv, AuditOf, AssetInv, AssetOf, Attested, Built, Receipted,
      Bound, Assembled,
     Drafted, Listed
<1>9. QED
  BY <1>1, <1>2, <1>3, <1>4, <1>5, <1>6, <1>7, <1>8 DEF IInv, Types

(* The inductive invariant holds in every reachable state.                 *)
THEOREM Invariance == Spec => []IInv
<1>1. Init => IInv
  BY InitIInv
<1>2. IInv /\ [Next]_vars => IInv'
  BY NextControlType, NextFlagType, NextFileType, NextRelType, NextRunnerInv, NextSentInv,
      NextDraftInv, NextAloneInv, NextWholeInv, NextCommitInv, NextBuiltInv, NextAuditInv,
      NextAssetInv
     DEF IInv, Types
<1>3. QED
  BY <1>1, <1>2, PTL DEF Spec

(* Type correctness: every variable keeps its type, and the files of a     *)
(* runner do not outlive its job.                                          *)
THEOREM TypeCorrect == Spec => []TypeOK
<1>1. IInv => TypeOK
  BY TypesAgree DEF IInv
<1>2. QED
  BY <1>1, Invariance, PTL

(* Whatever was altered, however often and in whichever dispatch, a public *)
(* release holds what its commit and lock determine: unless a file was     *)
(* altered in a window between its last check and its hash.                *)
THEOREM PublicHoldsTheTag == Spec => []PublicIsRight
<1>1. IInv => PublicIsRight
  BY DEF IInv, CommitInv, AssetInv, AssetOf, PublicIsRight
<1>2. QED
  BY <1>1, Invariance, PTL

(* Two dispatches never both publish: whoever saw its own draft alone      *)
(* keeps every later one from listing a single release, and what it        *)
(* compared with its own digests is complete and stays so.                 *)
THEOREM OnlyOneRelease == Spec => []OneRelease
<1>1. IInv => OneRelease
  BY DEF IInv, AloneInv, Past, WholeInv, WholeOf, OneRelease
<1>2. QED
  BY <1>1, Invariance, PTL

=============================================================================
