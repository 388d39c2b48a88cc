\* Up to four install commands with any flags against one plugin directory;
\* remote calls and file operations may fail.
CONSTANTS
    PluginNames <- MCPluginNames
    Builds <- MCBuilds
    Versions <- MCVersions
    CVOf <- MCCVOf
    VersionLists <- MCVersionLists
    Failures = TRUE
    MaxRuns = 4
SPECIFICATION Spec
INVARIANT InstalledPluginsValid InstallOutcome
CHECK_DEADLOCK FALSE
