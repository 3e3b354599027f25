---------------------------- MODULE MCVsCodeHost ----------------------------
(* An instance of VsCodeHost for TLC. *)
EXTENDS VsCodeHost, TLC

Rec(v, ok, g) == [version |-> v, runs |-> ok, granted |-> g]
Cmd(kind, e) == [kind |-> kind, ext |-> e]
Get(e, r) == [kind |-> "install", ext |-> e, record |-> r]

Full    == Rec(1, TRUE, {"net"})
Newer   == Rec(2, TRUE, {})
PageOnly == Rec(1, FALSE, {})
Legacy  == Rec(1, TRUE, None)
Beyond  == Rec(1, TRUE, {"fs"})

\* An extension is installed, or two are; then they are activated, replaced,
\* deactivated or removed by commands that may overlap, and the window may close.
MCCommandLists ==
    {"c1" :> a @@ "c2" :> b @@ "c3" :> d :
        a \in {Get("e1", r) : r \in {Full, Legacy, PageOnly, Beyond}},
        b \in {Cmd("activate", "e1"), Cmd("deactivate", "e1"), Cmd("uninstall", "e1"),
               Get("e1", Newer), Get("e2", Full)},
        d \in {Cmd("activate", "e1"), Cmd("deactivate", "e1"), Cmd("uninstall", "e1"),
               Cmd("shutdown", None)}}

Ask(kind) == [kind |-> kind]
On(kind, i) == [kind |-> kind, instance |-> i]

\* An extension is loaded; then it is used or unloaded, another one is loaded,
\* or the process is stopped.
MCCallLists ==
    {"c1" :> Ask("load") @@ "c2" :> a @@ "c3" :> b :
        a \in {Ask("load"), On("activate", "c1"), On("unload", "c1"), Ask("dispose")},
        b \in {On("command", "c1"), On("deactivate", "c1"), On("unload", "c1"),
               Ask("load"), Ask("event"), Ask("dispose")}}

MCFilesOf == <<{"page", "style"}, {"page"}, {"page"}>>
=============================================================================
