----------------------------- MODULE Namespace -----------------------------
(***************************************************************************)
(* One namespace of an OCI registry as the ocireg backend uses it,         *)
(* src/pkg/oci/repositories/ocireg/namespace.go.                           *)
(*                                                                         *)
(* The remote namespace holds blobs and manifests by digest and tags that *)
(* point to manifest digests.  Clients call AddBlob, AddTaggedArtefact,   *)
(* AddTags and GetArtefact concurrently; every resolve and every push is  *)
(* one remote request and one step, and a push may fail (the network or  *)
(* the registry) when NetFailures is TRUE.  The registry applies each     *)
(* request atomically, as an OCI registry does.                           *)
(***************************************************************************)
EXTENDS Naturals, Sequences, SequencesExt

CONSTANTS
    Clients,      \* goroutines using the namespace
    Users,        \* the clients that call the namespace directly
    Blobs,        \* layer blob digests
    Manifests,    \* artefact (manifest) digests
    TagNames,     \* tag names
    TagLists,     \* the tag lists callers pass, sequences over TagNames
    NetFailures,  \* whether remote requests may fail
    MaxCalls,     \* bound on the number of calls, over all users
    NoDigest

ASSUME /\ Users \subseteq Clients
       /\ NetFailures \in BOOLEAN
       /\ \A l \in TagLists : l \in Seq(TagNames)

NsOps == {"AddBlob", "AddTaggedArtefact", "AddTags", "GetArtefact"}
NoCall == [op |-> "none", digest |-> NoDigest, tags |-> <<>>, vers |-> NoDigest]

VARIABLES
    blobs,      \* blob digests the namespace holds
    manifests,  \* manifest digests the namespace holds
    tags,       \* tag -> the manifest digest it points to
    pc,         \* client -> step of its current call
    nscall,     \* client -> its current call
    todo,       \* client -> the tags its AddTags loop has still to push
    tagsBefore, \* client -> the tags when its current call started
    ret,        \* client -> the result of its last call
    calls       \* number of calls started

nsvars == <<blobs, manifests, tags, pc, nscall, todo, tagsBefore, ret, calls>>

TypeOK ==
    /\ blobs \subseteq Blobs /\ manifests \subseteq Manifests
    /\ tags \in [TagNames -> Manifests \cup {NoDigest}]
    /\ pc \in [Clients -> {"idle", "push", "resolve", "tag", "get"}]
    /\ nscall \in [Clients -> [op : NsOps \cup {"none"}, digest : Blobs \cup Manifests \cup {NoDigest},
                              tags : Seq(TagNames), vers : TagNames \cup Manifests \cup {NoDigest}]]
    /\ todo \in [Clients -> Seq(TagNames)]
    /\ tagsBefore \in [Clients -> [TagNames -> Manifests \cup {NoDigest}]]
    /\ ret \in [Clients -> {"none", "ok", "err", "notfound"}]
    /\ calls \in 0..MaxCalls

Init ==
    /\ blobs = {} /\ manifests = {}
    /\ tags = [g \in TagNames |-> NoDigest]
    /\ pc = [c \in Clients |-> "idle"]
    /\ nscall = [c \in Clients |-> NoCall]
    /\ todo = [c \in Clients |-> <<>>]
    /\ tagsBefore = [c \in Clients |-> tags]
    /\ ret = [c \in Clients |-> "none"]
    /\ calls = 0

-----------------------------------------------------------------------------

NsReturn(c, x) ==
    /\ pc' = [pc EXCEPT ![c] = "idle"]
    /\ ret' = [ret EXCEPT ![c] = x]

\* Client c begins call x; the first step of each method.
Begin(c, x) ==
    /\ nscall' = [nscall EXCEPT ![c] = x]
    /\ tagsBefore' = [tagsBefore EXCEPT ![c] = tags]
    /\ todo' = [todo EXCEPT ![c] = x.tags]
    /\ pc' = [pc EXCEPT ![c] = CASE x.op \in {"AddBlob", "AddTaggedArtefact"} -> "push"
                                 [] x.op = "AddTags" -> "resolve"
                                 [] OTHER -> "get"]

\* The calls users make, with the arguments each method takes.
UserCalls ==
    {[NoCall EXCEPT !.op = "AddBlob", !.digest = b] : b \in Blobs}
    \cup {[NoCall EXCEPT !.op = o, !.digest = m, !.tags = l] :
            o \in {"AddTaggedArtefact", "AddTags"}, m \in Manifests, l \in TagLists}
    \cup {[NoCall EXCEPT !.op = "GetArtefact", !.vers = v] : v \in TagNames \cup Manifests}

Call(c) ==
    /\ c \in Users /\ pc[c] = "idle"
    /\ calls < MaxCalls /\ calls' = calls + 1
    /\ \E x \in UserCalls : Begin(c, x)
    /\ UNCHANGED <<blobs, manifests, tags, ret>>

\* A plausible bug: AddBlob pushes the layer as if it were an artefact.
MutPushBlob(c) ==
    LET x == nscall[c] IN
    /\ pc[c] = "push"
    /\ manifests' = manifests \cup {x.digest}
    /\ IF x.op = "AddBlob" THEN NsReturn(c, "ok") ELSE pc' = [pc EXCEPT ![c] = "resolve"] /\ UNCHANGED ret
    /\ UNCHANGED <<blobs, tags, nscall, todo, tagsBefore, calls>>

\* AddBlob: push(ctx, n.pusher, blob).  AddTaggedArtefact, first half:
\* AddArtefact pushes the artefact's manifest under its digest.  A push of a
\* digest the registry holds is a no-op.
PushBlob(c) ==
    LET x == nscall[c] IN
    /\ pc[c] = "push"
    /\ \/ /\ x.op = "AddBlob"
          /\ blobs' = blobs \cup {x.digest}
          /\ NsReturn(c, "ok")
          /\ UNCHANGED manifests
       \/ /\ x.op = "AddTaggedArtefact"
          /\ manifests' = manifests \cup {x.digest}
          /\ pc' = [pc EXCEPT ![c] = "resolve"]
          /\ UNCHANGED <<blobs, ret>>
    /\ UNCHANGED <<tags, nscall, todo, tagsBefore, calls>>

\* The push of a blob or manifest, or of the next tag of AddTags' loop, fails;
\* the error is returned.  With no tag left the loop is over and AddTags
\* returns nil (PushTag).
PushFails(c) ==
    /\ \/ pc[c] = "push"
       \/ pc[c] = "tag" /\ todo[c] # <<>>
    /\ NetFailures
    /\ NsReturn(c, "err")
    /\ UNCHANGED <<blobs, manifests, tags, nscall, todo, tagsBefore, calls>>

\* A plausible bug: the tagged digest is not resolved first.
MutResolveTagged(c) ==
    /\ pc[c] = "resolve"
    /\ pc' = [pc EXCEPT ![c] = "tag"]
    /\ UNCHANGED <<blobs, manifests, tags, nscall, todo, tagsBefore, ret, calls>>

\* AddTags: resolver.Resolve(name@digest); a digest the namespace does not
\* hold is NotFound and returned.  Otherwise the loop over the tags starts.
ResolveTagged(c) ==
    /\ pc[c] = "resolve"
    /\ IF nscall[c].digest \in manifests
         THEN pc' = [pc EXCEPT ![c] = "tag"] /\ UNCHANGED ret
         ELSE NsReturn(c, "notfound")
    /\ UNCHANGED <<blobs, manifests, tags, nscall, todo, tagsBefore, calls>>

\* for _, tag := range tags { n.push(tag, blob) }: one tag per step; an
\* error of a push returns at once (PushFails), after the earlier tags.
PushTag(c) ==
    /\ pc[c] = "tag"
    /\ IF todo[c] = <<>>
         THEN NsReturn(c, "ok") /\ UNCHANGED <<tags, todo>>
         ELSE /\ tags' = [tags EXCEPT ![Head(todo[c])] = nscall[c].digest]
              /\ todo' = [todo EXCEPT ![c] = Tail(@)]
              /\ UNCHANGED <<pc, ret>>
    /\ UNCHANGED <<blobs, manifests, nscall, tagsBefore, calls>>

\* NewNamespace (what LookupNamespace opens): getResolver, then the
\* resolver's Fetcher and Pusher for the namespace's reference; any of them
\* may fail.
NewNamespaceFails == NetFailures

\* GetBlobData(digest): a data access over the fetcher; reading it fails
\* for a blob the namespace does not hold.
GetBlobData(d) == d \in blobs

\* resolver.Resolve of name:vers or name@vers: a manifest of that digest or
\* a tag that is set.
Resolves(v) == v \in manifests \/ (v \in TagNames /\ tags[v] # NoDigest)

\* GetArtefact(vers): Resolve name:vers or name@vers; NotFound if neither a
\* tag nor a manifest of that name exists.
GetArtefact(c) ==
    LET v == nscall[c].vers IN
    /\ pc[c] = "get"
    /\ NsReturn(c, IF Resolves(v) THEN "ok" ELSE "notfound")
    /\ UNCHANGED <<blobs, manifests, tags, nscall, todo, tagsBefore, calls>>

NsStep(c) ==
    \/ PushBlob(c) \/ PushFails(c) \/ ResolveTagged(c) \/ PushTag(c) \/ GetArtefact(c)

NsNext == \E c \in Clients : Call(c) \/ NsStep(c)

NsSpec == Init /\ [][NsNext]_nsvars

-----------------------------------------------------------------------------
(* Properties.                                                              *)

\* Every tag points to a manifest the namespace holds: AddTags resolves the
\* digest before it pushes a tag (spec: tagging requires the target digest
\* to be resolvable), whatever other clients push in between.
TagsResolvable == \A g \in TagNames : tags[g] # NoDigest => tags[g] \in manifests

\* A tagging call that fails leaves every tag it was to set as it was
\* (spec: a failed multi-step operation must not leave the destination
\* namespace partially tagged).
NoPartialTagging ==
    [][\A c \in Clients :
         (pc[c] = "tag" /\ pc'[c] = "idle" /\ ret'[c] = "err")
            => \A i \in 1..Len(nscall[c].tags) :
                 tags'[nscall[c].tags[i]] = tagsBefore[c][nscall[c].tags[i]]]_nsvars

=============================================================================
