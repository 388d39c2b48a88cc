--------------------------- MODULE PluginInstall ---------------------------
(***************************************************************************)
(* The `ocm install plugin` command,                                       *)
(* src/cmds/ocm/commands/ocmcmds/plugins/install/cmd.go.                   *)
(*                                                                         *)
(* The command resolves a component version (through a reference, or a   *)
(* component in the --repo repository), picks the ocmPlugin resource for *)
(* the running platform, downloads it into a temp file, asks the binary   *)
(* for its plugin descriptor and copies it into the plugin directory      *)
(* under the plugin's name, replacing an existing plugin only with        *)
(* --force.  Commands run one after another against one plugin directory; *)
(* every remote call and file operation may fail when Failures is TRUE.   *)
(*                                                                         *)
(* A resource is abstracted to its type, whether its extra identity       *)
(* matches runtime.GOOS/GOARCH, the plugin name its binary reports and    *)
(* which build of that plugin it is.                                      *)
(* A plugin file holds the binary of a resource, or is empty or partial   *)
(* after a failed write.  errors.Wrapf(err, ...) returns nil for a nil    *)
(* err, as its package documents.                                         *)
(***************************************************************************)
EXTENDS Naturals, Sequences, SequencesExt

CONSTANTS
    PluginNames,   \* the names plugin binaries report (desc.PluginName)
    Builds,        \* builds of a plugin: binaries that report the same name
    Versions,      \* versions of the component in the --repo repository
    CVOf,          \* version -> the resource list of that component version
    VersionLists,  \* the version lists comp.ListVersions() may return
    Failures,      \* whether remote calls and file operations may fail
    MaxRuns        \* bound on the number of commands

Resources == [type : {"ocmPlugin", "other"}, platform : {"this", "other"},
              plugin : PluginNames, build : Builds]
NoRes == [type |-> "none", platform |-> "none", plugin |-> "none", build |-> "none"]

ASSUME /\ CVOf \in [Versions -> Seq(Resources)]
       /\ VersionLists \subseteq Seq(Versions)
       /\ Failures \in BOOLEAN

\* The file states of <plugindir>/<name> other than the binary of a resource.
FileState(x) == [type |-> x, platform |-> "none", plugin |-> "none", build |-> "none"]
NoFile == FileState("NoFile")
EmptyFile == FileState("Empty")
PartialFile == FileState("Partial")

\* The command line: the number of positional arguments, --force,
\* --describe, whether a --repo repository is given and whether the plugin
\* directory attribute is set.
Cmds == [args : {1, 2}, force : BOOLEAN, describe : BOOLEAN, repo : BOOLEAN, dir : BOOLEAN]
NoCmd == [args |-> 1, force |-> FALSE, describe |-> FALSE, repo |-> FALSE, dir |-> FALSE]

VARIABLES
    plugins,  \* plugin name -> the file <plugindir>/<name>
    pc,       \* the step of the running command
    cmd,      \* the running command
    cv,       \* the resources of the component version it resolved
    found,    \* the resource it downloaded
    ret,      \* the result of the last command
    runs,
    before    \* history: the plugin directory when the last command started

vars == <<plugins, pc, cmd, cv, found, ret, runs, before>>

Init ==
    /\ plugins = [n \in PluginNames |-> NoFile]
    /\ pc = "idle"
    /\ cmd = NoCmd
    /\ cv = <<>> /\ found = NoRes /\ ret = "none" /\ runs = 0
    /\ before = plugins

Finish(x) == pc' = "idle" /\ ret' = x

\* A call that may fail.
Fails == Failures /\ Finish("err")

-----------------------------------------------------------------------------
(* The resource loop of download().                                        *)

\* A plausible bug: the platform check is missing.
MutMatches(r) == r.type = "ocmPlugin"

\* if r.Meta().Type == "ocmPlugin" and its extra identity's os and
\* architecture are runtime.GOOS and runtime.GOARCH.
Matches(r) == r.type = "ocmPlugin" /\ r.platform = "this"

\* for _, r := range cv.GetResources(): the first ocmPlugin for this OS and
\* architecture is found and ends the loop.  (A resource of another name is
\* skipped, but the name is always "": see Start.  The resources the loop
\* remembers as `wrong` only choose the wording of the not-found error.)
RECURSIVE Scan(_)
Scan(rs) ==
    IF rs = <<>> THEN NoRes
    ELSE IF Matches(Head(rs)) THEN Head(rs)
    ELSE Scan(Tail(rs))


-----------------------------------------------------------------------------
(* The command.                                                             *)

\* Complete(args) then Run(): Complete reads o.Name from args[2], out of
\* range for the two arguments cobra.RangeArgs(1, 2) admits, and panics.
Start ==
    /\ pc = "idle" /\ runs < MaxRuns
    /\ runs' = runs + 1
    /\ \E c \in Cmds :
         /\ cmd' = c
         /\ IF c.args = 2 THEN Finish("panic") ELSE pc' = "resolve" /\ UNCHANGED ret
    /\ cv' = <<>> /\ found' = NoRes
    /\ before' = plugins
    /\ UNCHANGED plugins

\* downloadRef: EvaluateVersionRef fails, or yields no version ("component
\* version required"), or a version, whose resources download() scans.
ResolveRef ==
    /\ pc = "resolve" /\ ~cmd.repo
    /\ \/ Fails /\ UNCHANGED cv
       \/ Finish("err") /\ UNCHANGED cv
       \/ \E v \in Versions : cv' = CVOf[v] /\ pc' = "download" /\ UNCHANGED ret
    /\ UNCHANGED <<plugins, cmd, found, runs, before>>

\* downloadFromRepo: ParseComp, LookupComponent and GetComponentVersion may
\* fail.  A reference with a version takes that version; otherwise
\* ListVersions must give exactly one, and for none or several the error
\* is errors.Wrapf(err, ...) of the nil err, so the command returns nil.
ResolveFromRepo ==
    /\ pc = "resolve" /\ cmd.repo
    /\ \/ Fails /\ UNCHANGED cv
       \/ \E v \in Versions : cv' = CVOf[v] /\ pc' = "download" /\ UNCHANGED ret
       \/ \E l \in VersionLists :
            IF Len(l) = 1 THEN cv' = CVOf[l[1]] /\ pc' = "download" /\ UNCHANGED ret
            ELSE Finish("ok") /\ UNCHANGED cv
    /\ UNCHANGED <<plugins, cmd, found, runs, before>>

\* download(), up to the plugin descriptor: no matching resource is an
\* error; otherwise os.CreateTemp, Download and cache.GetPluginInfo may
\* fail, or the binary is in the temp file and its descriptor is known.
Download ==
    /\ pc = "download"
    /\ LET f == Scan(cv) IN
       IF f = NoRes THEN Finish("err") /\ UNCHANGED found
       ELSE \/ Fails /\ UNCHANGED found
            \/ found' = f /\ pc' = "install" /\ UNCHANGED ret
    /\ UNCHANGED <<plugins, cmd, cv, runs, before>>

\* A plausible bug: an existing plugin is replaced without --force.
MutInstall ==
    LET n == found.plugin IN
    /\ pc = "install" /\ ~cmd.describe /\ cmd.dir
    /\ pc' = "open" /\ UNCHANGED <<plugins, ret>>
    /\ UNCHANGED <<cmd, cv, found, runs, before>>

\* --describe only prints the descriptor (yaml.Marshal may fail); without a
\* plugin directory nothing is installed.  Otherwise vfs.FileExists of
\* <dir>/<desc.PluginName>: an existing plugin is an error without --force,
\* and with it fs.Remove(target), whose error is ignored.
Install ==
    LET n == found.plugin IN
    /\ pc = "install"
    /\ \/ /\ cmd.describe
          /\ (Finish("ok") \/ Fails)
          /\ UNCHANGED plugins
       \/ /\ ~cmd.describe /\ ~cmd.dir
          /\ Finish("ok") /\ UNCHANGED plugins
       \/ /\ ~cmd.describe /\ cmd.dir /\ plugins[n] # NoFile /\ ~cmd.force
          /\ Finish("err") /\ UNCHANGED plugins
       \/ /\ ~cmd.describe /\ cmd.dir /\ plugins[n] = NoFile
          /\ pc' = "open" /\ UNCHANGED <<plugins, ret>>
       \/ /\ ~cmd.describe /\ cmd.dir /\ plugins[n] # NoFile /\ cmd.force
          /\ \/ plugins' = [plugins EXCEPT ![n] = NoFile]
             \/ Failures /\ UNCHANGED plugins
          /\ pc' = "open" /\ UNCHANGED ret
    /\ UNCHANGED <<cmd, cv, found, runs, before>>

\* fs.OpenFile(target, O_CREATE|O_TRUNC|O_WRONLY): creates or truncates it.
OpenTarget ==
    /\ pc = "open"
    /\ \/ plugins' = [plugins EXCEPT ![found.plugin] = EmptyFile] /\ pc' = "copy" /\ UNCHANGED ret
       \/ Fails /\ UNCHANGED plugins
    /\ UNCHANGED <<cmd, cv, found, runs, before>>

\* fs.OpenFile(temp file, O_RDONLY), then io.Copy(dst, src): the open may
\* fail, leaving the target empty, and the copy may fail half way.
CopyPlugin ==
    /\ pc = "copy"
    /\ \/ plugins' = [plugins EXCEPT ![found.plugin] = found] /\ Finish("ok")
       \/ Fails /\ UNCHANGED plugins
       \/ Fails /\ plugins' = [plugins EXCEPT ![found.plugin] = PartialFile]
    /\ UNCHANGED <<cmd, cv, found, runs, before>>

Next == Start \/ ResolveRef \/ ResolveFromRepo \/ Download \/ Install \/ OpenTarget \/ CopyPlugin

Spec == Init /\ [][Next]_vars

-----------------------------------------------------------------------------
(* Properties.                                                              *)

\* What the command is to install: a plugin built for the running platform.
ForThisPlatform(r) == r.type = "ocmPlugin" /\ r.platform = "this"

\* Every complete file in the plugin directory is the binary of an ocmPlugin
\* resource for this platform, stored under the name its own descriptor
\* reports, whatever commands, failures and --force were used before.
InstalledPluginsValid ==
    \A n \in PluginNames :
        plugins[n] \in Resources => ForThisPlatform(plugins[n]) /\ plugins[n].plugin = n

\* Once a command has returned, it has changed at most the file of the plugin
\* it downloaded: if it returned nil, that file is exactly the downloaded
\* binary; if it failed half way, the file was either new or replaced with
\* --force (fs.Remove, O_TRUNC and io.Copy are not atomic), so an installed
\* plugin is only ever lost by a --force command that reports an error.
InstallOutcome ==
    pc = "idle" =>
        \A n \in PluginNames : plugins[n] # before[n] =>
            /\ n = found.plugin /\ cmd.dir /\ ~cmd.describe
            /\ \/ ret = "ok" /\ plugins[n] = found
               \/ ret = "err" /\ (before[n] = NoFile \/ cmd.force)

=============================================================================
