------------------------------ MODULE R3Trans ------------------------------
(***************************************************************************)
(* The r3trans plugin, src/plugin: its uploader (uploaders/r3trans.go,     *)
(* uploaders/writer.go), its access method (accessmethods/r3trans.go) and  *)
(* the base path of a transport system (config/config.go).                 *)
(*                                                                         *)
(* An upload gets a target spec (transportSystem, path) and a hint, opens *)
(* a file below the system's base directory, receives the blob, and on     *)
(* Close renames a hint-less upload to a name derived from the path and   *)
(* the blob's digest; it returns the access spec (transport, path,        *)
(* transportSystem) it wrote.  A reader validates an access spec and      *)
(* opens the file it names.  Uploads of several ocm processes run         *)
(* concurrently on one filesystem.                                        *)
(*                                                                         *)
(* Strings that the code slices or joins are sequences of characters over *)
(* a small alphabet; a path is the sequence of its segments, cleaned as   *)
(* filepath.Join cleans it.  A blob is a model value; the first eight hex *)
(* digits of its digest are one character.                                *)
(***************************************************************************)
EXTENDS Naturals, Sequences, SequencesExt, TLC

CONSTANTS
    Uploaders,   \* processes running an upload
    Readers,     \* processes reading through the access method
    SysArgs,     \* transportSystem values of upload target specs
    PathArgs,    \* path values of upload target specs
    Hints,       \* the hints uploads are given
    Contents,    \* blob contents
    DigestHex,   \* content -> strings.ToUpper(first 8 hex digits of its digest)
    Config,      \* system -> [address, path]: the plugin's config.Systems
    R3Root,      \* filepath.Join(os.TempDir(), "r3trans") as segments
    TempNames,   \* the names os.CreateTemp may pick ("r3trans.*.blob")
    UpperOf,     \* lower-case character -> upper-case character
    Failures,    \* whether MkdirAll and writes may fail
    MaxUploads   \* bound on the number of uploads

ASSUME /\ DigestHex \in [Contents -> STRING]
       /\ \A s \in SysArgs : s \in DOMAIN Config
       /\ Failures \in BOOLEAN

Empty == "Empty"       \* created or truncated, nothing written yet
Partial == "Partial"   \* a write that failed half way
Mixed == "Mixed"       \* two writers' bytes interleaved

-----------------------------------------------------------------------------
(* Strings and paths.                                                       *)

HasSlashPrefix(s) == s # <<>> /\ s[1] = "/"
ContainsSlash(s) == "/" \in ToSet(s)

\* strings.ToUpper
Upper(s) == [i \in 1..Len(s) |-> IF s[i] \in DOMAIN UpperOf THEN UpperOf[s[i]] ELSE s[i]]

\* The segments of s between its "/" characters.
Split(s) ==
    FoldLeft(LAMBDA acc, c : IF c = "/" THEN Append(acc, <<>>)
                             ELSE [acc EXCEPT ![Len(acc)] = Append(@, c)],
             <<<<>>>>, s)

\* filepath.Clean of an absolute path: empty and "." segments vanish, ".."
\* drops the segment before it (and stays at "/").
CleanSegs(segs) ==
    FoldLeft(LAMBDA acc, g : IF g \in {<<>>, <<".">>} THEN acc
                             ELSE IF g = <<".", ".">> THEN (IF acc = <<>> THEN acc ELSE Front(acc))
                             ELSE Append(acc, g),
             <<>>, segs)

\* filepath.Join(root, s) for an absolute, clean root.
Join(root, s) == CleanSegs(root \o Split(s))

Ancestors(p) == {SubSeq(p, 1, i) : i \in 0..Len(p)}

\* config.BasePath(p, name): the configured address or <tmp>/r3trans/<name>,
\* and the configured default path.
BasePath(name) ==
    [root |-> IF Config[name].address # <<>> THEN Join(<<>>, Config[name].address)
              ELSE Join(R3Root, name),
     path |-> Config[name].path]

\* Writer.Close: the name of a hint-less upload.
TransportName(tpath, c) ==
    IF Len(tpath) >= 3 THEN Upper(SubSeq(tpath, 1, 3)) \o <<"K", DigestHex[c]>>
    ELSE <<"T", "M", "P", "K", DigestHex[c]>>

-----------------------------------------------------------------------------

NoUpload == [pc |-> "idle", sys |-> <<>>, hint |-> <<>>, content |-> Empty,
             def |-> <<>>, root |-> <<>>, file |-> <<>>]
NoReturned == [spec |-> [transport |-> <<>>, path |-> <<>>, system |-> <<>>],
               file |-> <<>>, content |-> Empty]
NoRead == [opened |-> FALSE, of |-> NoReturned, path |-> <<>>, got |-> "none"]

VARIABLES
    dirs,      \* the directories of the filesystem
    files,     \* path -> what the file holds
    up,        \* uploader -> its current upload
    ret,       \* uploader -> the result of its last upload
    returned,  \* history: [spec, file, content] of every upload that returned a spec
    lastRead,  \* reader -> its last read
    uploads

vars == <<dirs, files, up, ret, returned, lastRead, uploads>>

Init ==
    /\ dirs = Ancestors(R3Root)
    /\ files = <<>>
    /\ up = [u \in Uploaders |-> NoUpload]
    /\ ret = [u \in Uploaders |-> "none"]
    /\ returned = {}
    /\ lastRead = [r \in Readers |-> NoRead]
    /\ uploads = 0

\* os.MkdirAll(p) fails if a file is in the way.
MkdirAllBlocked(p) == \E a \in Ancestors(p) : a \in DOMAIN files

\* ... or for any other reason (permissions, space) when Failures.
MkdirAllFails(p) == Failures \/ MkdirAllBlocked(p)

\* files with f set to x
SetFile(f, x) == (f :> x) @@ files

Done(u, x) == up' = [up EXCEPT ![u].pc = "idle"] /\ ret' = [ret EXCEPT ![u] = x]

-----------------------------------------------------------------------------
(* Uploader.                                                                *)

\* Uploader.ValidateSpecification rejects a transportSystem with "/" and an
\* absolute path.  Then Uploader.Writer: BasePath creates the system's base
\* directory, the spec's path (else the configured one) is joined to it and
\* created, and the file is created: a fresh temp file without a hint, or
\* <root>/<hint> opened with O_CREATE|O_TRUNC, which fails for a directory
\* or a missing parent directory.
StartUpload(u) ==
    /\ up[u].pc = "idle" /\ uploads < MaxUploads
    /\ uploads' = uploads + 1
    /\ \E sys \in SysArgs, p \in PathArgs, h \in Hints, c \in Contents :
         LET base == BasePath(sys)
             def == IF p # <<>> THEN p ELSE base.path
             root == IF def # <<>> THEN Join(base.root, def) ELSE base.root
             made == dirs \cup Ancestors(base.root) \cup Ancestors(root)
             Open(f) ==
                 /\ files' = SetFile(f, Empty)
                 /\ up' = [up EXCEPT ![u] = [pc |-> "write", sys |-> sys, hint |-> h, content |-> c,
                                             def |-> def, root |-> root, file |-> f]]
                 /\ UNCHANGED ret
         IN
         \/ /\ ContainsSlash(sys) \/ HasSlashPrefix(p)
            /\ Done(u, "err") /\ UNCHANGED <<dirs, files>>
         \/ /\ ~ContainsSlash(sys) /\ ~HasSlashPrefix(p)
            /\ MkdirAllFails(base.root) \/ MkdirAllFails(root)
            /\ Done(u, "err") /\ UNCHANGED <<dirs, files>>
         \/ /\ ~ContainsSlash(sys) /\ ~HasSlashPrefix(p)
            /\ ~MkdirAllBlocked(base.root) /\ ~MkdirAllBlocked(root)
            /\ dirs' = made
            /\ IF h = <<>>
                 THEN \E t \in TempNames : Append(root, <<t>>) \notin DOMAIN files /\ Open(Append(root, <<t>>))
                 ELSE LET f == Join(root, h) IN
                      IF f \in made \/ Front(f) \notin made
                        THEN Done(u, "err") /\ UNCHANGED files
                        ELSE Open(f)
    /\ UNCHANGED <<returned, lastRead>>

\* The blob is written through the DigestWriter into the file.  A file that
\* another upload has open as well may end up with both writers' bytes.
Write(u) ==
    LET f == up[u].file
        shared == \E v \in Uploaders \ {u} : up[v].pc \in {"write", "close"} /\ up[v].file = f
    IN
    /\ up[u].pc = "write"
    /\ \/ /\ \E x \in IF shared THEN {up[u].content, Mixed} ELSE {up[u].content} :
                 files' = SetFile(f, x)
          /\ up' = [up EXCEPT ![u].pc = "close"] /\ UNCHANGED ret
       \/ /\ Failures
          /\ files' = SetFile(f, Partial)
          /\ Done(u, "err")
    /\ UNCHANGED <<dirs, returned, lastRead, uploads>>

\* Writer.Close: a hint-less upload is renamed to TransportName(tpath, digest)
\* in its directory (os.Rename fails if the target's directory is missing or
\* the target is a directory, and replaces a file); then the access spec
\* [transport: name, path: tpath, transportSystem] is set and returned.
Close(u) ==
    LET x == up[u]
        name == IF x.hint # <<>> THEN x.hint ELSE TransportName(x.def, x.content)
        n == Join(x.root, name)
        Returned(f) ==
            /\ returned' = returned \cup
                 {[spec |-> [transport |-> name, path |-> x.def, system |-> x.sys],
                   file |-> f, content |-> x.content]}
            /\ Done(u, "ok")
    IN
    /\ x.pc = "close"
    /\ IF x.hint # <<>>
         THEN Returned(x.file) /\ UNCHANGED files
         ELSE IF n \in dirs \/ Front(n) \notin dirs
           THEN Done(u, "err") /\ UNCHANGED <<files, returned>>
           ELSE /\ files' = [q \in (DOMAIN files \ {x.file}) \cup {n} |->
                               IF q = n THEN files[x.file] ELSE files[q]]
                /\ Returned(n)
    /\ UNCHANGED <<dirs, lastRead, uploads>>

-----------------------------------------------------------------------------
(* Access method.                                                           *)

\* AccessMethod.ValidateSpecification: transport set and without "/",
\* transportSystem set, the transport again not absolute (the check meant
\* for the transportSystem), the path relative.
SpecValid(s) ==
    /\ s.transport # <<>> /\ ~ContainsSlash(s.transport)
    /\ s.system # <<>>
    /\ ~HasSlashPrefix(s.transport)
    /\ ~HasSlashPrefix(s.path)

\* A plausible bug: Reader ignores the spec's path.
MutRead(r) ==
    \E x \in returned :
      LET base == BasePath(x.spec.system)
          p == Join(base.root, x.spec.transport)
      IN /\ SpecValid(x.spec) /\ ~MkdirAllBlocked(base.root)
         /\ dirs' = dirs \cup Ancestors(base.root)
         /\ lastRead' = [lastRead EXCEPT ![r] = [opened |-> TRUE, of |-> x, path |-> p,
                                                 got |-> IF p \in DOMAIN files THEN files[p] ELSE "err"]]
         /\ UNCHANGED <<files, up, ret, returned, uploads>>

\* A spec an upload returned is validated; then AccessMethod.Reader:
\* BasePath (creating the base directory), the spec's path joined to it,
\* os.Open(<root>/<transport>).
Read(r) ==
    /\ \E x \in returned :
         LET base == BasePath(x.spec.system)
             root == IF x.spec.path # <<>> THEN Join(base.root, x.spec.path) ELSE base.root
             p == Join(root, x.spec.transport)
             Result(o, q, g) == lastRead' = [lastRead EXCEPT ![r] = [opened |-> o, of |-> x, path |-> q, got |-> g]]
         IN
         \/ ~SpecValid(x.spec) /\ Result(FALSE, <<>>, "invalid") /\ UNCHANGED dirs
         \/ SpecValid(x.spec) /\ MkdirAllFails(base.root) /\ Result(FALSE, <<>>, "err") /\ UNCHANGED dirs
         \/ /\ SpecValid(x.spec) /\ ~MkdirAllBlocked(base.root)
            /\ dirs' = dirs \cup Ancestors(base.root)
            /\ Result(TRUE, p, IF p \in DOMAIN files THEN files[p] ELSE "err")
    /\ UNCHANGED <<files, up, ret, returned, uploads>>

Next ==
    \/ \E u \in Uploaders : StartUpload(u) \/ Write(u) \/ Close(u)
    \/ \E r \in Readers : Read(r)

Spec == Init /\ [][Next]_vars

-----------------------------------------------------------------------------
(* Properties.                                                              *)

\* The file the access method opens for a spec an upload returned is the
\* file that upload wrote: writer and reader derive the location from the
\* system's base path, the spec's path (or the configured default, which the
\* writer records in the spec) and the transport name alike, ".." included.
SpecLocatesUpload ==
    \A r \in Readers : lastRead[r].opened => lastRead[r].path = lastRead[r].of.file

=============================================================================
