CONSTANTS
    s1 = s1  s2 = s2
    langinfo = langinfo  osinfo = osinfo
    Servers <- TwoServers
    Plugins <- TwoPlugins
    Name <- Names
    Loads <- Good
    Shown <- Displayed
    Pages <- FewPages
    Restart = "/restart"
SPECIFICATION Spec
INVARIANTS AloneIsExact SomeServerWatches
PROPERTIES RunsAgain
CHECK_DEADLOCK FALSE
