---------------------------- MODULE MCHostStore ----------------------------
(* Instances of HostStore for TLC. *)
EXTENDS HostStore, Sequences

MCPublisherOf == [e \in Exts |-> "pub"]

Item(e, v, k, p) == [ext |-> e, version |-> v, key |-> k, perms |-> p, covered |-> TRUE]

\* Two extensions of one publisher: an upgrade that asks for more, a version
\* signed with another key, one with an ambient permission only, and one whose
\* component imports more than its manifest says.
First   == Item("e1", 1, "k1", {"read"})
Upgrade == Item("e1", 2, "k1", {"read", "fetch"})
Rotated == Item("e1", 3, "k2", {"read", "fetch"})
Sibling == Item("e2", 1, "k1", {"toast"})
Foreign == Item("e2", 2, "k2", {"toast"})
Gap     == [Item("e2", 3, "k1", {"toast"}) EXCEPT !.covered = FALSE]

MCOffered == {First, Upgrade, Rotated, Sibling, Foreign, Gap}

Install(S)   == [kind : {"install"}, bundle : S]
Uninstall(S) == [kind : {"uninstall"}, ext : S]
Clear(S)     == [kind : {"clear"}, ext : S]

\* Any first install, then any operation, then an install or an uninstall.
MCMenu ==
    SubSeq(<< Install({First, Upgrade, Sibling}),
              Install(MCOffered) \cup Uninstall(Exts) \cup Clear({"e1"}),
              Install({First, Upgrade, Rotated, Sibling}) \cup Uninstall({"e1"}) >>,
           1, MaxOps)
=============================================================================
