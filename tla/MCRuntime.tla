----------------------------- MODULE MCRuntime -----------------------------
(* Instances of Runtime for TLC. *)
EXTENDS Runtime

MCHash == [x \in Exts |-> 1]

\* A host that initializes and loads an extension, and then calls it, answers
\* it, unloads it and ends the session in any order it likes.
SafetyScript ==
    << {"initialize", "malformed"},
       {"load"},
       {"activate", "command", "event", "exit"},
       {"unload", "deactivate", "response", "shutdown"},
       {"response", "load"} >>

\* The same session cut to what a handler can wait for.  With a counter of
\* period 1 the second load takes the place of the first.
LivenessScript ==
    << {"initialize"}, {"load", "exit"}, {"command", "activate"},
       {"unload", "command", "response", "reload", "load"} >>

\* A host that shuts down while a request is in flight.
ShutdownScript == << {"initialize"}, {"load"}, {"shutdown"} >>
=============================================================================
