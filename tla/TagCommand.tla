---------------------------- MODULE TagCommand ----------------------------
(***************************************************************************)
(* The `ocm tag artifact` command,                                         *)
(* src/cmds/ocm/commands/ocicmds/artifacts/tag/cmd.go, as a client of the  *)
(* namespace of Namespace.tla.                                             *)
(*                                                                         *)
(* The command takes a tag and artefact references in one namespace.  The *)
(* artefact handler (artifacthdlr, not under src/) resolves each reference *)
(* to an artefact; action.Add then calls Namespace.AddTags(digest, tag),  *)
(* counting the references it failed for, and action.Out reports an      *)
(* error if there was any.  Resolving a reference is one remote request   *)
(* and the AddTags call runs through the namespace's own steps, so other  *)
(* clients may move tags in between.  A reference that does not resolve   *)
(* ends the command with the handler's error.                             *)
(***************************************************************************)
EXTENDS Namespace

CONSTANTS
    Tagger,       \* the goroutine running the command
    RefLists,     \* the reference lists it is called with (tags or digests)
    MaxTagCmds    \* bound on the number of commands

ASSUME /\ Tagger \in Clients \ Users
       /\ \A l \in RefLists : l \in Seq(TagNames \cup Manifests)

VARIABLES
    tpc,       \* the command's step
    tag,       \* o.Tag
    refs,      \* the references still to handle
    failed,    \* a.failed
    tret,      \* the command's result
    tcmds

tagvars == <<tpc, tag, refs, failed, tret, tcmds>>

TagTypeOK ==
    /\ tpc \in {"idle", "resolve", "add"}
    /\ tag \in TagNames \cup {NoDigest}
    /\ refs \in Seq(TagNames \cup Manifests)
    /\ failed \in Nat
    /\ tret \in {"none", "ok", "err"}
    /\ tcmds \in 0..MaxTagCmds

TagInit ==
    /\ tpc = "idle" /\ tag = NoDigest /\ refs = <<>>
    /\ failed = 0 /\ tret = "none" /\ tcmds = 0

TagFinish(x) == tpc' = "idle" /\ tret' = x

\* The digest a reference resolves to: a digest is itself, a tag what it
\* points to.
DigestOf(v) == IF v \in Manifests THEN v ELSE tags[v]

\* Complete(args): fewer than two arguments (a tag and a reference) is an
\* error.  Run: ProcessOnOptions (the --repo option) may fail; otherwise
\* the handler goes through o.Refs.
TagStart ==
    /\ tpc = "idle" /\ pc[Tagger] = "idle"
    /\ tcmds < MaxTagCmds /\ tcmds' = tcmds + 1
    /\ \E g \in TagNames, l \in RefLists :
         /\ tag' = g /\ refs' = l /\ failed' = 0
         /\ \/ l = <<>> /\ TagFinish("err")
            \/ l # <<>> /\ NetFailures /\ TagFinish("err")
            \/ l # <<>> /\ tpc' = "resolve" /\ UNCHANGED tret
    /\ UNCHANGED nsvars

\* The handler resolves the next reference, and action.Add calls
\* p.Namespace.AddTags(p.Artifact.Digest(), a.cmd.Tag); when no reference
\* is left, action.Out returns an error if any AddTags failed.
TagResolve ==
    /\ tpc = "resolve" /\ pc[Tagger] = "idle"
    /\ IF refs = <<>>
         THEN TagFinish(IF failed > 0 THEN "err" ELSE "ok") /\ UNCHANGED <<nsvars, refs>>
         ELSE LET v == Head(refs) IN
              \/ /\ ~Resolves(v)
                 /\ TagFinish("err") /\ UNCHANGED <<nsvars, refs>>
              \/ /\ Resolves(v)
                 /\ Begin(Tagger, [NoCall EXCEPT !.op = "AddTags", !.digest = DigestOf(v),
                                                 !.tags = <<tag>>])
                 /\ refs' = Tail(refs) /\ tpc' = "add"
                 /\ UNCHANGED <<blobs, manifests, tags, ret, calls, tret>>
    /\ UNCHANGED <<tag, failed, tcmds>>

\* AddTags returned: a.ok++ on nil, a.failed++ otherwise; Add itself
\* returns nil either way, so the handler goes on with the next reference.
TagAdded ==
    /\ tpc = "add" /\ pc[Tagger] = "idle"
    /\ failed' = IF ret[Tagger] = "ok" THEN failed ELSE failed + 1
    /\ tpc' = "resolve"
    /\ UNCHANGED <<nsvars, tag, refs, tret, tcmds>>

TagNext == TagStart \/ TagResolve \/ TagAdded

=============================================================================
