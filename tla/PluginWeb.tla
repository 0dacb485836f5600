----------------------------- MODULE PluginWeb -----------------------------
(***************************************************************************)
(* The plugin web server of 022_go_web.  main starts a Server whenever it  *)
(* finds Running = 0, a request for /restart sets it to 0, and a Server    *)
(* loads the plugins, registers their pages, sets Running to 1 and looks   *)
(* once a second whether it is still 1; if not, it wipes every route and   *)
(* returns.  Nothing keeps two Servers apart.                              *)
(***************************************************************************)
EXTENDS Integers, Sequences

CONSTANTS
    Servers,   \* goroutines that run Server; a place is used again
    Plugins,   \* the .so files there may be, in the order of ReadDir
    Name,      \* what Get_plugin_name of a plugin returns
    Loads,     \* the plugins that can be opened and have the two functions
    Shown,     \* those whose IsDisplay says so
    Pages,     \* "/", "/upload", "/uploadfile" and "/restart"
    Restart    \* the last of them

ASSUME WebAssumption ==
    /\ Shown \subseteq Loads /\ Loads \subseteq {Plugins[k] : k \in DOMAIN Plugins}
    /\ \E k \in DOMAIN Pages : Pages[k] = Restart

VARIABLES
    dir,          \* the plugin files in the directory
    Running,
    listening,    \* the http and https listeners, which are never closed
    plugin_list,  \* the links of the index page
    routes,       \* DefaultServeMux.m: who handles a pattern
    main,         \* "look" at Running, or "start" a Server
    server,       \* the Servers, each with the files or pages it still has to see to
    found,        \* history: the files a Server's ReadDir returned
    kept,         \* history: those not removed until it had loaded them all
    overlapped    \* history: a Server was started before the last one returned

seen == <<found, kept>>
vars == <<dir, Running, listening, plugin_list, routes, main, server, found, kept, overlapped>>

Idle == [pc |-> "idle", todo |-> {}]

\* The element of S, if there is one, that comes first in the list.
First(list, S) == {list[k] : k \in {i \in DOMAIN list : list[i] \in S /\ \A j \in 1..(i - 1) : list[j] \notin S}}

\* A pattern that is there already stays with its handler (notes.md).
HandleFunc(pattern, f) ==
    routes' = [p \in DOMAIN routes \cup {pattern} |-> IF p \in DOMAIN routes THEN routes[p] ELSE f]

-----------------------------------------------------------------------------
(* main's loop.                                                            *)

\* Mutant: main looks only until the first Server has come up.
LookOnce ==
    /\ main = "look" /\ Running = 0 /\ ~listening
    /\ main' = "start"
    /\ UNCHANGED <<dir, Running, listening, plugin_list, routes, server, seen, overlapped>>

Look ==
    /\ main = "look" /\ Running = 0
    /\ main' = "start"
    /\ UNCHANGED <<dir, Running, listening, plugin_list, routes, server, seen, overlapped>>

GoServer ==
    /\ main = "start"
    /\ \E s \in Servers :
        /\ server[s].pc = "idle"
        /\ server' = [server EXCEPT ![s].pc = "readdir"]
    /\ main' = "look"
    /\ overlapped' = (overlapped \/ \E s \in Servers : server[s].pc # "idle")
    /\ UNCHANGED <<dir, Running, listening, plugin_list, routes, seen>>

-----------------------------------------------------------------------------
(* Server.                                                                 *)

\* Mutant: Running is set first, so that main starts no second Server.
ReadDirClaims(s) ==
    /\ server[s].pc = "readdir"
    /\ server' = [server EXCEPT ![s] = [pc |-> "load", todo |-> dir]]
    /\ Running' = 1
    /\ plugin_list' = <<>>
    /\ found' = [found EXCEPT ![s] = dir] /\ kept' = [kept EXCEPT ![s] = dir]
    /\ UNCHANGED <<dir, listening, routes, main, overlapped>>

ReadDir(s) ==
    /\ server[s].pc = "readdir"
    /\ server' = [server EXCEPT ![s] = [pc |-> "load", todo |-> dir]]
    /\ plugin_list' = <<>>
    /\ found' = [found EXCEPT ![s] = dir] /\ kept' = [kept EXCEPT ![s] = dir]
    /\ UNCHANGED <<dir, Running, listening, routes, main, overlapped>>

\* plugin.Open fails for a file that is gone by now.
Load(s) ==
    /\ server[s].pc = "load"
    /\ \E f \in First(Plugins, server[s].todo) :
        /\ IF f \in Loads \cap dir
           THEN /\ HandleFunc(Name[f], f)
                /\ plugin_list' = IF f \in Shown THEN Append(plugin_list, Name[f]) ELSE plugin_list
           ELSE UNCHANGED <<routes, plugin_list>>
        /\ server' = [server EXCEPT ![s].todo = @ \ {f}]
    /\ UNCHANGED <<dir, Running, listening, main, seen, overlapped>>

EndLoad(s) ==
    /\ server[s].pc = "load" /\ server[s].todo = {}
    /\ server' = [server EXCEPT ![s] = [pc |-> "pages", todo |-> {Pages[k] : k \in DOMAIN Pages}]]
    /\ UNCHANGED <<dir, Running, listening, plugin_list, routes, main, seen, overlapped>>

AddPage(s) ==
    /\ server[s].pc = "pages"
    /\ \E p \in First(Pages, server[s].todo) :
        /\ HandleFunc(p, p)
        /\ server' = [server EXCEPT ![s].todo = @ \ {p}]
    /\ UNCHANGED <<dir, Running, listening, plugin_list, main, seen, overlapped>>

\* The listeners of a second Server find the ports taken, and the first ones
\* go on.
Serve(s) ==
    /\ server[s].pc = "pages" /\ server[s].todo = {}
    /\ listening' = TRUE
    /\ Running' = 1
    /\ server' = [server EXCEPT ![s].pc = "watch"]
    /\ UNCHANGED <<dir, plugin_list, routes, main, seen, overlapped>>

\* Once a second: Running is not 1 any more.
Watch(s) ==
    /\ server[s].pc = "watch" /\ Running # 1
    /\ server' = [server EXCEPT ![s].pc = "clean"]
    /\ UNCHANGED <<dir, Running, listening, plugin_list, routes, main, seen, overlapped>>

\* Mutant: the routes stay.
ReturnOnly(s) ==
    /\ server[s].pc = "clean"
    /\ server' = [server EXCEPT ![s] = Idle]
    /\ UNCHANGED <<dir, Running, listening, plugin_list, routes, main, seen, overlapped>>

\* CleanServeMuxMap
Clean(s) ==
    /\ server[s].pc = "clean"
    /\ routes' = <<>>
    /\ server' = [server EXCEPT ![s] = Idle]
    /\ found' = [found EXCEPT ![s] = {}] /\ kept' = [kept EXCEPT ![s] = {}]
    /\ UNCHANGED <<dir, Running, listening, plugin_list, main, overlapped>>

-----------------------------------------------------------------------------
(* Requests, and the one who looks after the directory.                    *)

restart ==
    /\ listening /\ Restart \in DOMAIN routes
    /\ Running' = 0
    /\ UNCHANGED <<dir, listening, plugin_list, routes, main, server, seen, overlapped>>

uploadfile ==
    /\ listening
    /\ \E k \in DOMAIN Plugins : dir' = dir \cup {Plugins[k]}
    /\ UNCHANGED <<Running, listening, plugin_list, routes, main, server, seen, overlapped>>

RemoveFile ==
    /\ \E f \in dir :
        /\ dir' = dir \ {f}
        /\ kept' = [s \in Servers |-> IF server[s].pc = "load" THEN kept[s] \ {f} ELSE kept[s]]
    /\ UNCHANGED <<Running, listening, plugin_list, routes, main, server, found, overlapped>>

-----------------------------------------------------------------------------
Init ==
    /\ dir = {Plugins[k] : k \in DOMAIN Plugins}
    /\ Running = 0 /\ listening = FALSE
    /\ plugin_list = <<>> /\ routes = <<>>
    /\ main = "look"
    /\ server = [s \in Servers |-> Idle]
    /\ found = [s \in Servers |-> {}] /\ kept = [s \in Servers |-> {}]
    /\ overlapped = FALSE

Main      == Look \/ GoServer
Server(s) == ReadDir(s) \/ Load(s) \/ EndLoad(s) \/ AddPage(s) \/ Serve(s) \/ Watch(s) \/ Clean(s)
Outside   == restart \/ uploadfile \/ RemoveFile

Next == Main \/ (\E s \in Servers : Server(s)) \/ Outside

\* main and every Server go on whenever they can.
Spec == Init /\ [][Next]_vars /\ WF_vars(Main) /\ \A s \in Servers : WF_vars(Server(s))

-----------------------------------------------------------------------------
(* Properties.                                                             *)

\* As long as no Server was started before the last one had wiped its routes,
\* what is served is what the directory held: every plugin that was there all
\* the while, none that was not, the pages, and only links that lead somewhere.
AloneIsExact ==
    ~overlapped => \A s \in Servers : server[s].pc = "watch" =>
        LET names(F) == {Name[f] : f \in Loads \cap F}
            pages    == {Pages[k] : k \in DOMAIN Pages}
        IN  /\ names(kept[s]) \cup pages \subseteq DOMAIN routes
            /\ DOMAIN routes \subseteq names(found[s]) \cup pages
            /\ {plugin_list[k] : k \in DOMAIN plugin_list} \subseteq DOMAIN routes
            /\ \A f \in Shown \cap kept[s] : \E k \in DOMAIN plugin_list : plugin_list[k] = Name[f]

\* However many Servers run, while Running is 1 one of them is there to see it
\* change, and has not decided to leave.
SomeServerWatches == Running = 1 => \E s \in Servers : server[s].pc = "watch"

\* A restart comes to an end: main's next look leads to a Server that runs.
RunsAgain == Running # 1 ~> Running = 1
=============================================================================
