------------------------- MODULE ComponentVersion -------------------------
(***************************************************************************)
(* A component version stored as an OCI artefact,                          *)
(* src/pkg/ocm/repositories/genericocireg/componentversion.go, on top of   *)
(* the namespace of Namespace.tla.                                         *)
(*                                                                         *)
(* One goroutine, Updater, owns the ComponentVersionContainer (the spec    *)
(* has callers serialize writes to one descriptor).  It edits the          *)
(* descriptor, adds blobs (AddBlob) and writes the version back (Update); *)
(* its remote requests are calls of the namespace and run through the     *)
(* namespace's steps, interleaved with the calls of the other Users.      *)
(*                                                                         *)
(* An access specification is a local blob referencing a blob digest or a *)
(* reference that is no digest, a global (decodable, non-local) spec, or  *)
(* a spec of a type no decoder knows.  The descriptor's name and version  *)
(* are abstracted to whether they match the container's (what Check      *)
(* compares).                                                             *)
(***************************************************************************)
EXTENDS TagCommand, FiniteSets

CONSTANTS
    Updater,        \* the client that owns the component version
    VersionTag,     \* c.version, the tag the version is pushed under
    CVManifest,     \* the digest of the version's manifest
    LayerBlobs,     \* the blobs AddBlob is called with
    NotADigest, GlobalAccess, UnknownType,
    HasHandler,     \* whether a blob handler stores blobs for this repository
    MainOf,         \* layer blob -> the main manifest of the artefact set it holds
    MaxCVCalls      \* bound on the updater's calls

ASSUME /\ Updater \in Clients \ Users
       /\ VersionTag \in TagNames /\ CVManifest \in Manifests
       /\ LayerBlobs \subseteq Blobs
       /\ HasHandler \in BOOLEAN
       /\ MainOf \in [LayerBlobs -> Manifests]

\* accessmethods.NewLocalBlobAccessSpec(DigestToFileName(digest), ...)
LocalBlob(r) == [type |-> "localBlob", ref |-> r]
Accesses == {LocalBlob(r) : r \in Blobs \cup {NotADigest}} \cup {GlobalAccess, UnknownType}
\* The accesses callers put into the descriptor without AddBlob.
EditAccesses == {LocalBlob(NotADigest), GlobalAccess, UnknownType}
\* The local blob accesses of a descriptor.
Locals(d) == {a \in d.resources \cup d.sources : a \in {LocalBlob(b) : b \in Blobs}}
Desc == [matches : BOOLEAN, resources : SUBSET Accesses, sources : SUBSET Accesses]
NoDesc == [matches |-> FALSE, resources |-> {}, sources |-> {}]

VARIABLES
    desc,     \* the descriptor in memory (c.GetDescriptor())
    stored,   \* the descriptor c.state.Update() last persisted
    cvpc,     \* the updater's step
    blobArg,  \* the blob of the updater's AddBlob call
    cvret,    \* the result of the updater's last call
    globalRef,\* the version of the reference assureGlobalRef last returned
    cvcalls

cvvars == <<desc, stored, cvpc, blobArg, cvret, globalRef, cvcalls>>
vars == <<nsvars, tagvars, cvvars>>

CVTypeOK ==
    /\ TypeOK /\ TagTypeOK
    /\ desc \in Desc /\ stored \in Desc
    /\ cvpc \in {"idle", "check", "eval", "state", "push", "addblob", "global"}
    /\ blobArg \in LayerBlobs \cup {NoDigest}
    /\ cvret \in {"none", "ok", "err"}
    /\ globalRef \in TagNames \cup Manifests \cup {NoDigest}
    /\ cvcalls \in 0..MaxCVCalls

CVInit ==
    /\ Init /\ TagInit
    /\ desc = [matches |-> TRUE, resources |-> {}, sources |-> {}]
    /\ stored = NoDesc
    /\ cvpc = "idle" /\ blobArg = NoDigest /\ cvret = "none" /\ cvcalls = 0
    /\ globalRef = NoDigest

\* The updater starts a call.
CVStart ==
    /\ cvpc = "idle" /\ pc[Updater] = "idle"
    /\ cvcalls < MaxCVCalls /\ cvcalls' = cvcalls + 1

CVReturn(x) == cvpc' = "idle" /\ cvret' = x

\* Setting a resource or source, or changing the name or version, through
\* the ComponentVersionAccess of comparch (not under src/).
Edit ==
    /\ CVStart
    /\ \/ \E a \in EditAccesses :
            \/ desc' = [desc EXCEPT !.resources = @ \cup {a}]
            \/ desc' = [desc EXCEPT !.sources = @ \cup {a}]
       \/ desc' = [desc EXCEPT !.matches = ~@]
    /\ UNCHANGED <<nsvars, stored, cvpc, blobArg, cvret, globalRef>>

-----------------------------------------------------------------------------
(* AddBlob(blob, refName, global).                                          *)

\* With a blob handler for the repository type, StoreBlob stores the blob
\* and returns a global access, which the caller sets as a resource.
\* Otherwise c.manifest.AddBlob pushes it to the namespace.
AddBlob ==
    /\ CVStart
    /\ \E b \in LayerBlobs :
         /\ blobArg' = b
         /\ IF HasHandler
              THEN /\ desc' = [desc EXCEPT !.resources = @ \cup {GlobalAccess}]
                   /\ CVReturn("ok")
                   /\ UNCHANGED <<nsvars, globalRef>>
              ELSE /\ Begin(Updater, [NoCall EXCEPT !.op = "AddBlob", !.digest = b])
                   /\ cvpc' = "addblob"
                   /\ UNCHANGED <<blobs, manifests, tags, ret, calls, desc, cvret, globalRef>>
    /\ UNCHANGED stored

\* A plausible bug: the error of manifest.AddBlob is not checked.
MutAssureLayer ==
    /\ cvpc = "addblob" /\ pc[Updater] = "idle"
    /\ desc' = [desc EXCEPT !.resources = @ \cup {LocalBlob(blobArg)}]
    /\ CVReturn("ok")
    /\ UNCHANGED <<nsvars, stored, blobArg, globalRef, cvcalls>>

\* The push returned: an error is returned; otherwise AssureLayer adds the
\* layer and the local blob access to the digest is returned and set.
AssureLayer ==
    /\ cvpc = "addblob" /\ pc[Updater] = "idle"
    /\ IF ret[Updater] = "ok"
         THEN /\ desc' = [desc EXCEPT !.resources = @ \cup {LocalBlob(blobArg)}]
              /\ CVReturn("ok")
         ELSE CVReturn("err") /\ UNCHANGED desc
    /\ UNCHANGED <<nsvars, stored, blobArg, globalRef, cvcalls>>

-----------------------------------------------------------------------------
(* Update().                                                                *)

\* Check(): c.version and c.comp.name against the descriptor's.
Check(d) == d.matches

\* evalLayer: AccessSpecForSpec fails for an unknown type; a local blob
\* whose LocalReference is no digest is invalid.
EvalLayer(a) == a # UnknownType /\ a # LocalBlob(NotADigest)

\* err := c.Check(): the result is assigned to err, which the loop's
\* inner err shadows and `_, err = c.state.Update()` overwrites.
StartUpdate ==
    /\ CVStart
    /\ cvpc' = "eval"
    /\ UNCHANGED <<nsvars, desc, stored, blobArg, cvret, globalRef>>

\* A plausible bug: the loop over the sources is missing.
MutEvalLayers ==
    /\ cvpc = "eval"
    /\ IF \A a \in desc.resources : EvalLayer(a)
         THEN cvpc' = "state" /\ UNCHANGED cvret
         ELSE CVReturn("err")
    /\ UNCHANGED <<nsvars, desc, stored, blobArg, globalRef, cvcalls>>

\* The loops over resources and sources: the first access evalLayer
\* rejects is returned.  (evalLayer returns its argument, so the
\* assignment desc.Resources[i].Access = s never happens.)
EvalLayers ==
    /\ cvpc = "eval"
    /\ IF \A a \in desc.resources \cup desc.sources : EvalLayer(a)
         THEN cvpc' = "state" /\ UNCHANGED cvret
         ELSE CVReturn("err")
    /\ UNCHANGED <<nsvars, desc, stored, blobArg, globalRef, cvcalls>>

\* c.state.Update() persists the descriptor into the manifest, then
\* c.comp.namespace.AddArtefact(c.manifest, c.version) pushes the manifest
\* and tags it with the version.
UpdateState ==
    /\ cvpc = "state"
    /\ stored' = desc
    /\ cvpc' = "push"
    /\ Begin(Updater, [NoCall EXCEPT !.op = "AddTaggedArtefact", !.digest = CVManifest,
                                     !.tags = <<VersionTag>>])
    /\ UNCHANGED <<blobs, manifests, tags, ret, calls, desc, blobArg, cvret, globalRef, cvcalls>>

\* The push returned: Update returns its error, or nil.
UpdatePushed ==
    /\ cvpc = "push" /\ pc[Updater] = "idle"
    /\ CVReturn(IF ret[Updater] = "ok" THEN "ok" ELSE "err")
    /\ UNCHANGED <<nsvars, desc, stored, blobArg, globalRef, cvcalls>>

-----------------------------------------------------------------------------
(* assureGlobalRef(d, url, name).                                           *)

\* The names a caller passes: "" (the version's own namespace, no tag), or
\* a namespace name, which LookupNamespace opens, with an optional ":tag".
\* The model has the one namespace, so a name differs only in whether it is
\* looked up and which tag it carries.
RefNames == [lookup : {FALSE}, tags : {<<>>}]
            \cup [lookup : {TRUE}, tags : {<<>>} \cup {<<g>> : g \in TagNames}]

\* c.manifest.GetBlob(d) fails for a digest that is no layer of the
\* version's manifest, or a layer the namespace does not hold;
\* LookupNamespace may fail (a resolver for the reference).  Otherwise the
\* blob is opened as an artefact set and its main artefact transferred to
\* the namespace with the tag, if any: the manifest pushed, then tagged.
AssureGlobalRef ==
    /\ CVStart
    /\ \E d \in LayerBlobs, n \in RefNames :
         \/ /\ LocalBlob(d) \notin Locals(desc) \/ ~GetBlobData(d) \/ (n.lookup /\ NewNamespaceFails)
            /\ CVReturn("err")
            /\ UNCHANGED <<nsvars, blobArg, globalRef>>
         \/ /\ LocalBlob(d) \in Locals(desc) /\ GetBlobData(d)
            /\ blobArg' = d
            /\ Begin(Updater, [NoCall EXCEPT !.op = "AddTaggedArtefact", !.digest = MainOf[d],
                                             !.tags = n.tags])
            /\ cvpc' = "global"
            /\ UNCHANGED <<blobs, manifests, tags, ret, calls, cvret, globalRef>>
    /\ UNCHANGED <<desc, stored>>

\* The reference's version: the tag, or the main artefact's digest.
RefVersion(x) == IF x.tags = <<>> THEN x.digest ELSE Head(x.tags)

\* A plausible bug: the error of TransferArtefact is not checked.
MutGlobalRefPushed ==
    /\ cvpc = "global" /\ pc[Updater] = "idle"
    /\ CVReturn("ok") /\ globalRef' = RefVersion(nscall[Updater])
    /\ UNCHANGED <<nsvars, desc, stored, blobArg, cvcalls>>

\* TransferArtefact returned: its error, or the OCI registry access spec for
\* <url><namespace>:<version>.
GlobalRefPushed ==
    /\ cvpc = "global" /\ pc[Updater] = "idle"
    /\ IF ret[Updater] = "ok"
         THEN CVReturn("ok") /\ globalRef' = RefVersion(nscall[Updater])
         ELSE CVReturn("err") /\ UNCHANGED globalRef
    /\ UNCHANGED <<nsvars, desc, stored, blobArg, cvcalls>>

CVNext ==
    \/ NsNext /\ UNCHANGED <<tagvars, cvvars>>
    \/ TagNext /\ UNCHANGED cvvars
    \/ /\ \/ Edit \/ AddBlob \/ AssureLayer \/ AssureGlobalRef \/ GlobalRefPushed
          \/ StartUpdate \/ EvalLayers \/ UpdateState \/ UpdatePushed
       /\ UNCHANGED tagvars

CVSpec == CVInit /\ [][CVNext]_vars

-----------------------------------------------------------------------------
(* Properties.                                                              *)

\* Every descriptor Update persisted is one whose every access spec
\* resolves and whose local blobs have digest references.
StoredLayersValid == \A a \in stored.resources \cup stored.sources : EvalLayer(a)

\* Every local blob a descriptor in memory refers to was pushed to the
\* namespace: AddBlob only returns a local access after a successful push,
\* whatever the other clients do meanwhile.
LocalBlobsPushed == \A a \in Locals(desc) : a.ref \in blobs

\* The reference assureGlobalRef returns resolves in the namespace (spec:
\* the new access spec points at a now globally resolvable reference),
\* whatever the other clients push and tag meanwhile and whichever of the
\* transfer's pushes fail.
GlobalRefResolvable == globalRef # NoDigest => Resolves(globalRef)

\* An Update that returns nil has stored a descriptor whose name and
\* version are the container's (spec: no error is silently swallowed).
UpdateChecksDescriptor ==
    [][(cvpc = "push" /\ cvpc' = "idle" /\ cvret' = "ok") => Check(stored)]_vars

=============================================================================
