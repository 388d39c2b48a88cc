# TLA+ models of OCM

These TLA+ modules model the parts of the OCM code under `src/` that hold state. They cover the parts where concurrent callers, failing I/O or multi-step operations make correctness hard to test. Every action is translated from the Go code it names. `PROJECT.json` maps each definition to its source lines. It also lists the runs, the mutants that show each property can fail, the findings and the hazards of the code.

Tools: `tlasany M.tla` parses a module. `tlc -workers 2 -config X.cfg M` checks a model.

## The parts and how they interact

- **CTF component archive** (`ctf/componentarchive.go`, `ctf/accessmethod_localfs.go`).
  - Writers add resources and sources, with or without a blob, to an in-memory component descriptor.
  - Blobs are stored under `blobs/<digest>`, and `writeCD` writes the descriptor file.
  - Readers resolve an access specification and read the blob it names.
- **OCI registry namespace** (`ocireg/namespace.go`).
  - Remote blobs, manifests and tags.
  - Clients push, tag and resolve, concurrently.
- **Component version in an OCI repository** (`genericocireg/componentversion.go`).
  - This is a client of the namespace.
  - `Update` evaluates the descriptor's layers, pushes a manifest and tags it.
  - `AddBlob` pushes blobs.
  - `assureGlobalRef` promotes an embedded artefact.
- **Artifact tag command** (`ocicmds/artifacts/tag/cmd.go`). A second client of the namespace: it resolves references and calls `AddTags`.
- **Repository cache** (`ocireg/cache.go`). Shares one repository handle per base URL between goroutines.
- **Action type registry** (`datacontext/action/api/registry.go`).
  - Actions, their versioned types, and the two type schemes that decode them.
  - Mutexed writers and lock-free decoders.
- **Type names** (`runtime/versionedtype.go`, `ocm/common/repospec.go`). The `kind/version` string functions.
- **Legacy local filesystem blob spec** (`contexts/ocm/accessmethods/localfsblob/method.go`, `contexts/ocm/repositories/comparch/accessmethod_localfs.go`). A typed object whose type the setters of `ObjectVersionedType` change. It is encoded through its own version scheme (`MarshalObjectVersionedType`), decoded by type name, and read through `GetBlobData(LocalReference)`.
- **Plugin install command** (`ocmcmds/plugins/install/cmd.go`). Resolves a component version, picks the plugin binary and installs it into the plugin directory.
- **r3trans plugin** (`src/plugin`). Its uploader writes blobs to transport directories, and its access method reads them back.

## Modules

| module | models | state | actions |
|---|---|---|---|
| `ComponentArchive` | CTF archive and localfs access method | descriptor entries, descriptor file (encoded by the spec converter), `blobs/` directory and files (Absent/Empty/Partial/Complete), per-writer pc, acknowledged adds | each syscall of `AddResourceBlob`/`AddSourceBlob` (Stat, ensureBlobsPath Stat/Mkdir, OpenFile, a failing `acc.Reader()` that leaves the truncated file, io.Copy), the upsert of `AddResource`/`AddSource` (after `checkAccessSpec` and `ValidFor`), `writeCD` as its own step, `Reopen` (`OpenComponentArchive`: option evaluation, Stat on the path filesystem, decoding through `ConvertTo`), reader `ReadResource` |
| `Namespace` | OCI namespace | remote blobs, manifests, tags; per-client call pc and result | `AddBlob`, `AddTaggedArtefact`, `AddTags` (one push per tag), `GetArtefact`; every resolve and push may fail |
| `TagCommand` (EXTENDS Namespace) | `tag artifact` command | step, tag, remaining refs, failure count | `TagStart` (Complete/Run), `TagResolve` (handler resolves one ref, calls AddTags), `TagAdded` (counts a failure) |
| `ComponentVersion` (EXTENDS TagCommand) | genericocireg component version | descriptor accesses, stored descriptor, updater step, promoted ref `globalRef` | `Check`, `Update` (evalLayer loop, manifest push, tag), `AddBlob`, `AssureGlobalRef`/`GlobalRefPushed`, descriptor edits; composed with all namespace and tag-command steps |
| `RepositoryCache` | `GetRepository` | mutex owner, cache map, per-thread pc | `Call`, `Lookup` (lock, hit or miss), `Create` (may fail, then store and unlock) |
| `AtomicRepositoryCache` | what the cache promises (spec section 5) | cache map, per-thread busy flag | `Invoke`, and `Return`, which performs the whole call in one step: hit, create-and-insert, or fail |
| `ActionRegistry` | action registry and `Copy` | actions, type-map heap, spec and result schemes, per-thread pc, a copied registry | `RegisterAction`, the three writes of `RegisterActionType`, `Copy`, `GetAction`, lock-free `Decode` |
| `VersionedType` | type-name functions and `ObjectVersionedType` setters | the type string | `SetType`, `SetKind`, `SetVersion` |
| `LocalFsBlobScheme` (EXTENDS VersionedType) | contexts-tree `localFilesystemBlob` spec, its scheme and comparch access method | the spec's type and `LocalReference`, the last encoding, the spec it was of (history), the last decoded spec and its input, the blob read | `Encode` (scheme lookup, `ConvertFrom`, or `ErrUnknown`), `Decode` of the encoded or a hand-written spec (lookup, `ConvertTo`), `Get`; the setters of `VersionedType` in between |
| `TypedObjectName` | abstract (kind, version) name | kind, version | the same three setters, stated on the pair |
| `PluginInstall` | install command | plugin directory files, command step, resolved resources | `Start`, `ResolveRef`, `ResolveFromRepo`, `Download`, `Install` (describe, no directory, exists check and `fs.Remove`), `OpenTarget` (`O_TRUNC` open), `CopyPlugin` (open of the temp file and `io.Copy`) |
| `R3Trans` | r3trans uploader and access method | files on disk, per-upload step, returned specs | `StartUpload` (validation, base path, MkdirAll, open), `Write`, `Close` (rename of hint-less uploads), `Read` (validate and open) |

Strings appear only where the code slices them. These are the type names and the r3trans paths, and there a string is a sequence over a small alphabet. Everywhere else, data is abstracted to model values:
- a blob is its digest;
- a file is a state;
- a descriptor's name and version are reduced to whether they match the container's.

Each `MC_*` module gives the constants of its model. Each `.cfg` gives the bounds of one run.

## Runs

| run | expect | what it shows |
|---|---|---|
| `archive` | pass | Concurrent writers, with failing `acc.Reader()` calls, failing copies and failing `writeCD`. The callers serialize their writes to one descriptor, as spec section 5 requires. The descriptor keeps one entry per identity (`IdentityUnique`). Replacing an entry keeps its position, except across a `Reopen` (`EntriesKeepOrder`). Every entry whose `Add*` call returned nil stays in `component-descriptor.yaml`, whatever other writers and reopens do (`DurableAdds`). The spec converters round-trip between the descriptor and its file (`DescriptorRoundTrip`). When all calls have returned, every referenced local blob is complete unless a write of that digest failed after its `O_TRUNC` open, in `acc.Reader()` or `io.Copy` (`ReferencedBlobsIntact`): the concurrent Stat-then-OpenFile window alone never leaves a reference to a truncated blob once the calls are done. |
| `archive_readback` | violation | A reader gets bytes that are not the blob its digest names. |
| `archive_mkdir` | violation | Two concurrent first blob adds race in `ensureBlobsPath`. |
| `namespace_partial` | violation | `AddTags` that fails on its second tag leaves the first tag set. |
| `compversion` | pass | The updater runs while a user and the tag command push and tag in the same namespace, with failing requests. Four invariants hold:<br>- `Update` stores only descriptors whose accesses evaluate (`StoredLayersValid`).<br>- Every local blob a stored descriptor refers to was pushed (`LocalBlobsPushed`).<br>- Every tag points to a manifest the namespace holds (`TagsResolvable`).<br>- A promoted reference resolves (`GlobalRefResolvable`). |
| `compversion_check` | violation | `Update` persists a descriptor with another name or version and returns nil. |
| `cache` | pass | `RepositoryCache` implements `AtomicRepositoryCache` (`CacheRefinement`). The refinement mapping keeps the cache map, handles and results, and maps a thread's pc to busy or idle. A hit `Lookup`, or the `Create` after a miss, is the step where the call takes effect; a miss under the lock is a stutter. So concurrent lookups of one base URL never create a second handle, and a cached handle is never replaced. The abstract spec's weak fairness on `Return` makes every call return. Releasing the lock before creating breaks the first part, and a failing creation that keeps the lock breaks the second. |
| `registry` | pass | Two threads register, copy, look up and decode. The schemes cover every registered type (`SchemesCoverTypes`). The copy is isolated from its base (`CopyIsolated`). Rejected calls change nothing (`RejectedCallsLeaveNoTrace`). Every call returns (`CallsReturn`). |
| `registry_copykeys` | violation | A copy keys type maps by full type name, so `SupportedActionVersions` on the copy returns names, not versions. |
| `naming` | pass | Every name the setters produce splits as a reference split defined without `LastIndex` would split it (`SplitMatchesReference`). For every kind, including kinds that contain a `/`, a name composed with a version splits back into kind and version; a bare name does so only when the kind has no `/` (`TypeNameRoundTrip`). The setters refine `TypedObjectName` (`NameRefinement`). The spec runs `SchemeSpec`: decoding what was encoded gives back the spec it was encoded from, whatever the setters did to the type (`SchemeRoundTrip`). |
| `plugininstall` | pass | The plugin directory holds only plugins for this platform, each under its own name (`InstalledPluginsValid`). A command that has returned changed at most the file of the plugin it downloaded: to exactly that binary when it returned nil; when it failed after removing, truncating or half copying the file, that file was new or the command had `--force`, so an installed plugin is lost only by a `--force` command that reports an error (`InstallOutcome`). |
| `r3trans` | pass | For concurrent uploads over configured and unconfigured systems, with default and explicit paths, hints and `..` paths, the returned access spec opens exactly the file that upload wrote (`SpecLocatesUpload`). |

Every property of a pass run has a mutant in `PROJECT.json`. A mutant is a plausible bug in the mapped code that TLC finds the property violated for. Examples:
- a dropped guard;
- a missing `break`;
- a kept separator;
- a layer pushed as if it were an artefact.

## Bounds

- `archive`: two writers, one reader, two identities, two digests, 3 calls.
  - This is the smallest setting in which two writers add the same digest.
  - A replacement follows an append.
  - A failed copy is reused.
  - `Reopen` ranges over every list of up to two `OpenComponentArchive` options: path and component filesystem options naming the OS filesystem, another one or nil, option structs and nil options.
- `compversion`:
  - Clients: the updater, one user and the tag command.
  - Data: two blobs, two manifests, two tags.
  - Calls: 1 namespace call by the user, 3 updater calls and 1 tag command.
  - With these bounds a tag is moved between the updater's resolve and use, and a push fails in the middle of `Update`.
  - The larger `_check` bounds are used only for the violation run.
- `cache`: three threads, two names and 5 calls, which lets a third caller contend while the first is creating.
- `registry`: two threads, two names, two versions and 3 calls.
  - The action types include a well-formed one and ones whose spec or result type is of another kind or version.
  - So both rejection paths and a copy followed by a base write occur.
- `naming`: strings up to length 4 over {a, b, v1, v2, /}, so that kinds containing a `/` are reached. The scheme's kind is `a`, with two `LocalReference` values, and hand-written specs carry the type `a` (registered) or `a/v2` (not registered); the setters reach `a/v1`, other kinds, and versions the scheme does not know, so encoding fails and succeeds. The round-trip property is computed once per type name `SetType` makes (`RoundTripTable`) and evaluated directly for other names.
- `plugininstall`: 4 commands, any flags, and three versions.
  - The versions list a foreign plugin before a match, a non-plugin before a newer build, and no match.
- `r3trans`: two uploads and the system and path cases in `MC_R3Trans`.

The archive's callers serialize their writes to one descriptor, as spec section 5 requires of them. Nothing in `componentarchive.go` locks the descriptor, so the model states this obligation as the guard `DescriptorFree`. A writer starts its upsert only while no other writer is between its upsert and the end of its `writeCD`. Without the guard, two writers of one identity both append; that case is listed as a hazard.

## Fairness

Only the runs with liveness properties assume fairness.
- `RepositoryCache`: strong fairness on taking the lock, because Go's `sync.Mutex` hands the lock over in FIFO order once it is starving. Weak fairness on creation, which takes no lock. `AtomicRepositoryCache` assumes weak fairness of `Return`: a call in progress returns.
- `ActionRegistry`: the same rule. Strong fairness on the mutexed calls, weak fairness on the scheme writes made while holding the lock and on lock-free `Decode`.

The other runs check safety only. They set `CHECK_DEADLOCK FALSE` because their call bounds end every behaviour.

## Findings

1. `ctf/componentarchive.go:433`: `ensureBlobsPath` runs Stat and then Mkdir. A concurrent creator makes Mkdir fail (`archive_mkdir`).
2. `ctf/componentarchive.go:400`: an existing `blobs/<digest>` file is taken as complete. The file can still be in the middle of a copy, or truncated by a failed copy, and `Get` does not check the digest (`archive_readback`).
3. `ocireg/namespace.go:152`: `AddTags` stops at the first failing push and leaves the earlier tags set (`namespace_partial`).
4. `genericocireg/componentversion.go:100`: the error from `Check()` is overwritten, so a mismatching descriptor is persisted (`compversion_check`).
5. `action/api/registry.go:88`: `Copy` re-keys type maps by type name instead of version (`registry_copykeys`).

## Not modelled

- The parts listed as `not_modelled` in `PROJECT.json`: element adapters, context type registries, utilities, CLI plumbing, configuration types, MIME helpers, the validation helper and examples. None of these has its own state or concurrency.
- Within the partly modelled parts:
  - archive `Close`, whose closer belongs to the archive formats outside `src/`, and the tar/tgz formats;
  - the non-CTF branch of the localfs `AccessMethod` is in the model but never taken: the only component access is the CTF archive;
  - `ComponentVersion`'s handler-based (`HasHandler`) access evaluation;
  - the r3trans config loading;
  - the version scheme behind `localFilesystemBlob` (`cpi.NewAccessTypeVersionScheme`), which is outside `src/`: `Lookup` is modelled after spec 4.3, and `MediaType` is not modelled.
