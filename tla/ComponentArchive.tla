-------------------------- MODULE ComponentArchive --------------------------
(***************************************************************************)
(* The content-addressable component archive of                           *)
(* src/pkg/ocm/repositories/ctf/componentarchive.go and its access method  *)
(* for local blobs, src/pkg/ocm/repositories/ctf/accessmethod_localfs.go.  *)
(*                                                                         *)
(* An archive holds an in-memory component descriptor (resources and      *)
(* sources, each an identity with an access specification), the           *)
(* descriptor file written by writeCD, and a filesystem with a "blobs"    *)
(* directory holding one file per content digest.  Callers (Writers) add  *)
(* resources and sources concurrently; Readers resolve a resource's       *)
(* access specification and read its blob.                                *)
(*                                                                         *)
(* Data is abstracted to what the properties tell apart: a blob's bytes   *)
(* are its digest (a model value) and the file under blobs/<digest> is in *)
(* one of the states Absent, Empty (created and truncated), Partial (a    *)
(* copy that failed half way) or Complete (all bytes of the digest).      *)
(* Each syscall of AddResourceBlob / AddSourceBlob is its own step, so    *)
(* the Stat-then-OpenFile and Stat-then-Mkdir windows are explicit.       *)
(***************************************************************************)
EXTENDS Naturals, Sequences, SequencesExt

CONSTANTS
    Writers,        \* goroutines calling the Add* methods of one archive
    Readers,        \* goroutines reading resources back through AccessMethod
    Ids,            \* resource/source identities (name + type + extra identity)
    Digests,        \* content digests of the blobs callers add
    ExternalAccess, \* a decodable, non-local access spec (e.g. an OCI reference)
    UnknownAccess,  \* an access spec whose type no decoder is registered for
    DirectAccesses, \* the access specs callers pass to AddResource/AddSource
    IOFailures,     \* whether io.Copy and writeCD may fail
    MaxCalls        \* bound on the number of Add* calls, over all writers

ASSUME /\ ExternalAccess \notin Digests /\ UnknownAccess \notin Digests
       /\ DirectAccesses \subseteq {ExternalAccess, UnknownAccess}
       /\ IOFailures \in BOOLEAN
       /\ MaxCalls \in Nat

\* States of the file blobs/<digest>.
Absent == "Absent"
Empty == "Empty"
Partial == "Partial"
Complete == "Complete"
FileStates == {Absent, Empty, Partial, Complete}

\* NewLocalFilesystemBlobAccessSpecV1(digest, mime): a localFilesystemBlob/v1
\* spec whose Filename is the digest.
LocalAccess(d) == [type |-> "localFilesystemBlob", ref |-> d]
IsLocal(a) == a \in {LocalAccess(d) : d \in Digests}
Accesses == {LocalAccess(d) : d \in Digests} \cup {ExternalAccess, UnknownAccess}

Entry == [id : Ids, access : Accesses]

\* The serialized form of a local spec: localfsblobConverterV1.ConvertFrom
\* copies Type, Filename and MediaType into a LocalBlobAccessSpecV1, whose
\* Filename is the field fileName.
EncodedLocal == [type : {"localFilesystemBlob"}, fileName : Digests]
Encoded == [id : Ids, access : EncodedLocal \cup {ExternalAccess, UnknownAccess}]

BlobOps == {"AddResourceBlob", "AddSourceBlob"}
SpecOps == {"AddResource", "AddSource"}
Calls == [op : BlobOps, id : Ids, digest : Digests]
         \cup [op : SpecOps, id : Ids, access : Accesses]

NoCall == [op |-> "none"]
Results == {"none", "ok", "err"}
ReadResults == {"none", "err"} \cup FileStates

VARIABLES
    resources,  \* ca.ComponentDescriptor.Resources
    sources,    \* ca.ComponentDescriptor.Sources
    cdFile,     \* component-descriptor.yaml as last written by writeCD (encoded)
    blobsDir,   \* whether the directory "blobs" exists
    files,      \* digest -> state of the file blobs/<digest>
    pc,         \* writer -> the step of its current call
    call,       \* writer -> its current (or last) call
    ret,        \* writer -> the error result of its last call
    calls,      \* number of Add* calls started so far
    lastRead,   \* reader -> what its last read of a resource returned
    copyFailed, \* history: the digests whose write failed after the O_TRUNC open
    okAdds      \* history: [kind, id] of every call that added an entry and returned nil

vars == <<resources, sources, cdFile, blobsDir, files, pc, call, ret, calls, lastRead, copyFailed, okAdds>>

TypeOK ==
    \* at most one entry per identity, so the lists are bounded by Ids
    /\ resources \in BoundedSeq(Entry, Cardinality(Ids))
    /\ sources \in BoundedSeq(Entry, Cardinality(Ids))
    /\ cdFile \in [resources : BoundedSeq(Encoded, Cardinality(Ids)),
                   sources : BoundedSeq(Encoded, Cardinality(Ids))]
    /\ blobsDir \in BOOLEAN
    /\ files \in [Digests -> FileStates]
    /\ pc \in [Writers -> {"idle", "ensure", "mkdir", "stat", "open", "copy", "add", "write"}]
    /\ call \in [Writers -> Calls \cup {NoCall}]
    /\ ret \in [Writers -> Results]
    /\ calls \in 0..MaxCalls
    /\ lastRead \in [Readers -> ReadResults]
    /\ copyFailed \subseteq Digests
    /\ okAdds \subseteq [kind : {"resource", "source"}, id : Ids]

Init ==
    /\ resources = <<>> /\ sources = <<>>
    /\ cdFile = [resources |-> <<>>, sources |-> <<>>]
    /\ blobsDir = FALSE
    /\ files = [d \in Digests |-> Absent]
    /\ pc = [w \in Writers |-> "idle"]
    /\ call = [w \in Writers |-> NoCall]
    /\ ret = [w \in Writers |-> "none"]
    /\ calls = 0
    /\ lastRead = [r \in Readers |-> "none"]
    /\ copyFailed = {}
    /\ okAdds = {}

-----------------------------------------------------------------------------
(* Helpers translated from the descriptor code.                             *)

\* GetResourceIndex / GetSourceIndex: index of the entry with that identity, 0 if none.
IndexOf(list, id) == SelectInSeq(list, LAMBDA e : e.id = id)

\* A plausible bug: append without looking for an entry of the same identity.
MutUpsertAppend(list, e) == Append(list, e)

\* A plausible bug: replace by removing the old entry and appending the new one.
MutUpsertMoveToEnd(list, e) ==
    LET i == IndexOf(list, e.id)
    IN IF i = 0 THEN Append(list, e) ELSE Append(RemoveAt(list, i), e)

\* if idx := GetResourceIndex(meta); idx == -1 { append } else { list[idx] = e }
Upsert(list, e) ==
    LET i == IndexOf(list, e.id)
    IN IF i = 0 THEN Append(list, e) ELSE [list EXCEPT ![i] = e]

\* The name of the archive's repository specification (the repository
\* NewComponentArchive makes for a nil repo) and the access type of the
\* archive (GetAccessType) are the CTF repository type, whose value is
\* defined outside src/.
CTFRepositoryType == "CTF"
RepositoryName == CTFRepositoryType
AccessType == CTFRepositoryType

\* LocalFilesystemBlobAccessSpec.ValidFor: a local spec is valid for a CTF
\* repository only; the external spec's own ValidFor accepts it.
ValidFor(a) == IsLocal(a) => RepositoryName = CTFRepositoryType

\* checkAccessSpec: AccessSpecForSpec fails for a type no decoder knows;
\* then the decoded spec must be ValidFor the archive's repository.
AccessSpecValid(a) == a # UnknownAccess /\ ValidFor(a)

\* Ending a call: the writer is idle again and the caller gets the error result.
Return(w, r) ==
    /\ pc' = [pc EXCEPT ![w] = "idle"]
    /\ ret' = [ret EXCEPT ![w] = r]

\* localfsblobConverterV1.ConvertFrom: the spec as it is serialized.
ConvertFrom(a) == IF IsLocal(a) THEN [type |-> a.type, fileName |-> a.ref] ELSE a

\* A plausible bug: the decoded spec takes the registered v1 type name
\* instead of the serialized one.
MutConvertTo(s) ==
    IF s \in [type : {"localFilesystemBlob", "localFilesystemBlob/v1"}, fileName : Digests]
      THEN [type |-> "localFilesystemBlob/v1", ref |-> s.fileName] ELSE s

\* Decoding a serialized spec: both registered names, localFilesystemBlob and
\* localFilesystemBlob/v1, decode through localfsblobConverterV1.ConvertTo.
ConvertTo(s) ==
    IF s \in [type : {"localFilesystemBlob", "localFilesystemBlob/v1"}, fileName : Digests]
      THEN [type |-> s.type, ref |-> s.fileName] ELSE s

\* compdesc.Encode and Decode of a list of entries.
EncodeList(l) == [i \in 1..Len(l) |-> [id |-> l[i].id, access |-> ConvertFrom(l[i].access)]]
DecodeList(l) == [i \in 1..Len(l) |-> [id |-> l[i].id, access |-> ConvertTo(l[i].access)]]

\* Nothing in the archive locks the descriptor: GetResourceIndex, the append
\* and writeCD run unguarded.  Callers must serialize writes to one
\* descriptor (spec, section 5), so a writer starts its upsert only while no
\* other writer is between its upsert and the end of its writeCD.
DescriptorFree(w) == \A v \in Writers \ {w} : pc[v] # "write"

\* AddResource / AddSource after checkAccessSpec: upsert the entry into the
\* in-memory descriptor; writeCD follows as a step of its own.
AddEntry(w, kind, id, a) ==
    LET e == [id |-> id, access |-> a]
    IN /\ DescriptorFree(w)
       /\ resources' = IF kind = "resource" THEN Upsert(resources, e) ELSE resources
       /\ sources' = IF kind = "source" THEN Upsert(sources, e) ELSE sources
       /\ pc' = [pc EXCEPT ![w] = "write"]
       /\ UNCHANGED <<cdFile, ret>>

Kind(op) == IF op \in {"AddResource", "AddResourceBlob"} THEN "resource" ELSE "source"

-----------------------------------------------------------------------------
(* Writers.                                                                 *)

CountCall == calls' = calls + 1 /\ calls < MaxCalls

\* AddResource(meta, acc) / AddSource(meta, acc) called directly with a spec.
AddSpec(w) ==
    /\ pc[w] = "idle"
    /\ CountCall
    /\ \E op \in SpecOps, id \in Ids, a \in DirectAccesses :
         /\ call' = [call EXCEPT ![w] = [op |-> op, id |-> id, access |-> a]]
         /\ IF AccessSpecValid(a)
              THEN AddEntry(w, Kind(op), id, a)
              ELSE /\ Return(w, "err")
                   /\ UNCHANGED <<resources, sources, cdFile>>
    /\ UNCHANGED <<blobsDir, files, lastRead, copyFailed, okAdds>>

\* AddResourceBlob(meta, acc) / AddSourceBlob(meta, acc) with acc non-nil:
\* the call starts with ensureBlobsPath's Stat of "blobs".
StartAddBlob(w) ==
    /\ pc[w] = "idle"
    /\ CountCall
    /\ \E op \in BlobOps, id \in Ids, d \in Digests :
         call' = [call EXCEPT ![w] = [op |-> op, id |-> id, digest |-> d]]
    /\ pc' = [pc EXCEPT ![w] = "ensure"]
    /\ UNCHANGED <<resources, sources, cdFile, blobsDir, files, ret, lastRead, copyFailed, okAdds>>

\* ensureBlobsPath: Stat("blobs"); a missing directory is created next.
EnsureBlobsPath(w) ==
    /\ pc[w] = "ensure"
    /\ pc' = [pc EXCEPT ![w] = IF blobsDir THEN "stat" ELSE "mkdir"]
    /\ UNCHANGED <<resources, sources, cdFile, blobsDir, files, call, ret, calls, lastRead, copyFailed, okAdds>>

\* ensureBlobsPath: return ca.fs.Mkdir("blobs"); Mkdir fails if it exists by now.
MkdirBlobs(w) ==
    /\ pc[w] = "mkdir"
    /\ IF blobsDir
         THEN Return(w, "err") /\ UNCHANGED blobsDir
         ELSE blobsDir' = TRUE /\ pc' = [pc EXCEPT ![w] = "stat"] /\ UNCHANGED ret
    /\ UNCHANGED <<resources, sources, cdFile, files, call, calls, lastRead, copyFailed, okAdds>>

\* A plausible bug: the existence test inverted (err == nil).
MutStatBlob(w) ==
    /\ pc[w] = "stat"
    /\ pc' = [pc EXCEPT ![w] = IF files[call[w].digest] # Absent THEN "open" ELSE "add"]
    /\ UNCHANGED <<resources, sources, cdFile, blobsDir, files, call, ret, calls, lastRead, copyFailed, okAdds>>

\* Stat(blobs/<digest>): write the file only if it does not exist.
StatBlob(w) ==
    /\ pc[w] = "stat"
    /\ pc' = [pc EXCEPT ![w] = IF files[call[w].digest] = Absent THEN "open" ELSE "add"]
    /\ UNCHANGED <<resources, sources, cdFile, blobsDir, files, call, ret, calls, lastRead, copyFailed, okAdds>>

\* OpenFile(blobpath, O_WRONLY|O_CREATE|O_TRUNC): creates or truncates the file.
OpenBlob(w) ==
    /\ pc[w] = "open"
    /\ files' = [files EXCEPT ![call[w].digest] = Empty]
    /\ pc' = [pc EXCEPT ![w] = "copy"]
    /\ UNCHANGED <<resources, sources, cdFile, blobsDir, call, ret, calls, lastRead, copyFailed, okAdds>>

\* io.Copy(file, src) and file.Close() succeed.  AddSourceBlob goes on to
\* AddSource; AddResourceBlob returns nil right after file.Close() without
\* calling AddResource (componentarchive.go:421).
CopyBlob(w) ==
    /\ pc[w] = "copy"
    /\ files' = [files EXCEPT ![call[w].digest] = Complete]
    /\ IF call[w].op = "AddSourceBlob"
         THEN pc' = [pc EXCEPT ![w] = "add"] /\ UNCHANGED ret
         ELSE Return(w, "ok")
    /\ UNCHANGED <<resources, sources, cdFile, blobsDir, call, calls, lastRead, copyFailed, okAdds>>

\* io.Copy fails half way: the error is returned and the partial file stays.
CopyBlobFails(w) ==
    /\ pc[w] = "copy"
    /\ IOFailures
    /\ files' = [files EXCEPT ![call[w].digest] = Partial]
    /\ copyFailed' = copyFailed \cup {call[w].digest}
    /\ Return(w, "err")
    /\ UNCHANGED <<resources, sources, cdFile, blobsDir, call, calls, lastRead, okAdds>>

\* acc.Reader() fails after the O_TRUNC open: the error is returned and the
\* file the open truncated is left as it is now (empty, unless another
\* writer has written it since), where a later add's Stat finds it.
ReaderFails(w) ==
    /\ pc[w] = "copy"
    /\ IOFailures
    /\ copyFailed' = copyFailed \cup {call[w].digest}
    /\ Return(w, "err")
    /\ UNCHANGED <<resources, sources, cdFile, blobsDir, files, call, calls, lastRead, okAdds>>

\* AddResource / AddSource(meta, NewLocalFilesystemBlobAccessSpecV1(digest, mime)).
AddBlobEntry(w) ==
    /\ pc[w] = "add"
    /\ AddEntry(w, Kind(call[w].op), call[w].id, LocalAccess(call[w].digest))
    /\ UNCHANGED <<blobsDir, files, call, calls, lastRead, copyFailed, okAdds>>

\* A plausible bug: the error of a failing write is dropped.
MutWriteCD(w) ==
    /\ pc[w] = "write"
    /\ \/ cdFile' = [resources |-> EncodeList(resources), sources |-> EncodeList(sources)]
       \/ IOFailures /\ UNCHANGED cdFile
    /\ Return(w, "ok")
    /\ okAdds' = okAdds \cup {[kind |-> Kind(call[w].op), id |-> call[w].id]}
    /\ UNCHANGED <<resources, sources, blobsDir, files, call, calls, lastRead, copyFailed>>

\* writeCD: compdesc.Encode of the descriptor as it is in memory now (other
\* writers may have changed it since this call's upsert: nothing locks the
\* archive), then vfs.WriteFile of component-descriptor.yaml, which may
\* fail.  Its result is the result of the Add* call.
WriteCD(w) ==
    /\ pc[w] = "write"
    /\ \/ /\ cdFile' = [resources |-> EncodeList(resources), sources |-> EncodeList(sources)]
          /\ Return(w, "ok")
          /\ okAdds' = okAdds \cup {[kind |-> Kind(call[w].op), id |-> call[w].id]}
       \/ /\ IOFailures
          /\ UNCHANGED <<cdFile, okAdds>>
          /\ Return(w, "err")
    /\ UNCHANGED <<resources, sources, blobsDir, files, call, calls, lastRead, copyFailed>>

-----------------------------------------------------------------------------
(* Readers: resolve a resource of the descriptor and Get() its content.     *)

\* LocalFilesystemBlobAccessSpec.AccessMethod(c): the component access must
\* be of the CTF type (its GetAccessType); a *ComponentArchive gets the
\* local filesystem method over the spec.
LocalFsAccessMethod(a) == IF AccessType = CTFRepositoryType THEN "localfs" ELSE "err"

\* ComponentArchive.AccessMethod(a): a generic localBlob spec of version v1
\* is converted to the local filesystem method; any other spec gives its own
\* method, which for localFilesystemBlob checks that the archive is of the
\* CTF type and yields the local filesystem method.  An external access
\* reads from elsewhere; a spec of an unknown type fails to decode (addSpec
\* keeps such specs out of the descriptor).
AccessMethodOf(a) ==
    CASE IsLocal(a) -> LocalFsAccessMethod(a)
      [] a = UnknownAccess -> "err"
      [] OTHER -> "external"

\* LocalFilesystemBlobAccessMethod.Open: Stat blobs/<file> (an error if it
\* is missing; blobs/<file> is never a directory here), then Open it.
Open(d) == IF files[d] = Absent THEN "err" ELSE files[d]

\* Get: Open, then ReadAll.  No digest is verified: what is read is
\* whatever the file holds at that moment.  A reader resolves a resource of
\* the descriptor and gets its content.
ReadResource(r) ==
    /\ \E i \in 1..Len(resources) :
         LET a == resources[i].access
         IN lastRead' = [lastRead EXCEPT ![r] =
                CASE AccessMethodOf(a) = "localfs" -> Open(a.ref)
                  [] AccessMethodOf(a) = "err" -> "err"
                  [] OTHER -> lastRead[r]]
    /\ UNCHANGED <<resources, sources, cdFile, blobsDir, files, pc, call, ret, calls, copyFailed, okAdds>>

-----------------------------------------------------------------------------
(* Closing and opening the archive again.                                   *)

\* Filesystems an option may name, and the nil filesystem.  The archive
\* directory is on the OS filesystem, where CreateComponentArchive puts it
\* when no option names another one.
NoFs == "nil"
ArchiveFs == "osfs"
FsArgs == {"osfs", "memfs"}

\* The options OpenComponentArchive takes: PathFileSystem(fs) (opt_PFS),
\* ComponentFileSystem(fs) (opt_CFS), a *ComponentArchiveOptions (possibly
\* a nil pointer) and a nil option.  An ArchiveFormat is only ever set
\* through the struct here; it does not decide how an archive is opened.
Options ==
    [opt : {"pfs", "cfs"}, fs : FsArgs \cup {NoFs}]
    \cup [opt : {"struct"}, PathFileSystem : FsArgs \cup {NoFs},
           ComponentFileSystem : {NoFs}, ArchiveFormat : {"none"}]
    \cup {[opt |-> "nilstruct"], [opt |-> "nil"]}
OpenOptionLists == UNION {[1..n -> Options] : n \in 0..2}

\* ApplyOption of each option kind: opt_PFS and opt_CFS set their field even
\* to nil; the struct sets only its non-nil fields; a nil struct pointer
\* sets nothing.
ApplyOption(o, x) ==
    CASE x.opt = "pfs" -> [o EXCEPT !.PathFileSystem = x.fs]
      [] x.opt = "cfs" -> [o EXCEPT !.ComponentFileSystem = x.fs]
      [] x.opt = "struct" ->
           [f \in DOMAIN o |-> IF x[f] # NoFs /\ x[f] # "none" THEN x[f] ELSE o[f]]
      [] OTHER -> o

\* ApplyOptions: every non-nil option in order, later ones overriding.
ApplyOptions(o, opts) ==
    FoldLeft(LAMBDA acc, x : IF x.opt = "nil" THEN acc ELSE ApplyOption(acc, x), o, opts)

\* Default: a nil path filesystem is the OS filesystem, a nil format the
\* directory format.
Default(o) ==
    [o EXCEPT !.PathFileSystem = IF @ = NoFs THEN "osfs" ELSE @,
              !.ArchiveFormat = IF @ = "none" THEN "directory" ELSE @]

\* evaluateOptions: the options applied to an empty struct, then defaulted.
EvaluateOptions(opts) ==
    Default(ApplyOptions([PathFileSystem |-> NoFs, ComponentFileSystem |-> NoFs,
                          ArchiveFormat |-> "none"], opts))

\* Some option list makes OpenComponentArchive Stat the archive's own
\* filesystem (a constant: the options do not depend on the state).
OpensArchive == \E opts \in OpenOptionLists : EvaluateOptions(opts).PathFileSystem = ArchiveFs

\* Close() calls the closer of the archive's format, then
\* OpenComponentArchive(path, opts...): evaluateOptions, then Stat(path)
\* on the evaluated PathFileSystem, which fails unless that is the
\* filesystem holding the archive (the archive then stays closed and
\* nothing changes).  Otherwise Stat finds the directory, so the
\* directory format opens it, decodes component-descriptor.yaml and
\* NewComponentArchive wraps the decoded descriptor and the filesystem.
\* The archive is closed and opened when no call is in progress; blobs/
\* stays as it is and the descriptor in memory is the one last written.
Reopen ==
    /\ \A w \in Writers : pc[w] = "idle"
    /\ OpensArchive
    /\ resources' = DecodeList(cdFile.resources) /\ sources' = DecodeList(cdFile.sources)
    /\ UNCHANGED <<cdFile, blobsDir, files, pc, call, ret, calls, lastRead, copyFailed, okAdds>>

Next ==
    \/ Reopen
    \/ \E w \in Writers :
         \/ AddSpec(w) \/ StartAddBlob(w) \/ EnsureBlobsPath(w) \/ MkdirBlobs(w)
         \/ StatBlob(w) \/ OpenBlob(w) \/ ReaderFails(w) \/ CopyBlob(w) \/ CopyBlobFails(w)
         \/ AddBlobEntry(w) \/ WriteCD(w)
    \/ \E r \in Readers : ReadResource(r)

Spec == Init /\ [][Next]_vars

-----------------------------------------------------------------------------
(* Properties.                                                              *)

Entries == {resources[i] : i \in 1..Len(resources)} \cup {sources[i] : i \in 1..Len(sources)}
Quiescent == \A w \in Writers : pc[w] = "idle"
IdsOf(list) == [i \in 1..Len(list) |-> list[i].id]

\* Add* replaces an entry of the same identity instead of adding a second one
\* (GetResourceIndex/GetSourceIndex before append), whatever the interleaving.
IdentityUnique ==
    /\ \A i, j \in 1..Len(resources) : i # j => resources[i].id # resources[j].id
    /\ \A i, j \in 1..Len(sources) : i # j => sources[i].id # sources[j].id

\* Replacing an entry never reorders the others: while the archive is open,
\* the identities in the descriptor only ever grow by appending.
EntriesKeepOrder ==
    [][~Reopen =>
         /\ IsPrefix(IdsOf(resources), IdsOf(resources'))
         /\ IsPrefix(IdsOf(sources), IdsOf(sources'))]_vars

\* When no Add* call is in progress, every local blob the descriptor refers
\* to is a complete file under blobs/ (what the digest in its name promises),
\* unless a write of that digest failed after its O_TRUNC open (acc.Reader()
\* or io.Copy returned an error): concurrent adds of one digest,
\* the Stat-then-OpenFile window and failing writeCDs never leave a
\* truncated blob behind a reference.
ReferencedBlobsIntact ==
    Quiescent =>
        \A e \in Entries :
            IsLocal(e.access) => files[e.access.ref] = Complete \/ e.access.ref \in copyFailed

\* An Add* call that returned nil after putting an entry into the descriptor
\* (AddResource, AddSource, AddSourceBlob; AddResourceBlob adds none) has an
\* entry of that identity in component-descriptor.yaml from then on: writers
\* that interleave between their upsert and their writeCD, failing writes of
\* other calls and reopening the archive never lose it.
DurableAdds ==
    \A x \in okAdds :
        LET l == IF x.kind = "resource" THEN cdFile.resources ELSE cdFile.sources
        IN \E i \in 1..Len(l) : l[i].id = x.id

\* The spec converters round-trip (spec, sections 4.3 and 8: a spec converted to its
\* serialized version and back is the same spec): decoding what writeCD
\* encoded gives the descriptor in memory back, and encoding what
\* OpenComponentArchive decodes from component-descriptor.yaml reproduces
\* the file, so a reopen followed by a writeCD rewrites it unchanged.
DescriptorRoundTrip ==
    /\ DecodeList(EncodeList(resources)) = resources
    /\ DecodeList(EncodeList(sources)) = sources
    /\ EncodeList(DecodeList(cdFile.resources)) = cdFile.resources
    /\ EncodeList(DecodeList(cdFile.sources)) = cdFile.sources

\* Reading a resource through its access method either fails or returns
\* exactly the bytes of the digest it names (spec: getBlob after addBlob
\* returns exactly the content).
ReadBackExact == \A r \in Readers : lastRead[r] \in {"none", "err", Complete}

\* Concurrent AddResourceBlob/AddSourceBlob calls succeed unless an I/O
\* operation fails (spec: N parallel callers with identical content all succeed).
ConcurrentAddsSucceed ==
    ~IOFailures => \A w \in Writers : call[w].op \in BlobOps /\ pc[w] = "idle" => ret[w] = "ok"

=============================================================================
