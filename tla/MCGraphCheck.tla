---------------------------- MODULE MCGraphCheck ----------------------------
(***************************************************************************)
(* All graphs of three nodes that read, write, or coordinate.              *)
(***************************************************************************)
EXTENDS GraphCheck

CONSTANTS kind, file, dir, other, strategy

MCOverlapping == {<<file, file>>, <<dir, dir>>, <<other, other>>,
                  <<file, dir>>, <<dir, file>>}

Profile(role, writes, merge) ==
    [role |-> role, write_scopes |-> writes, merge |-> merge]

Profiles == {Profile("atomic", {}, NoMerge),
             Profile("atomic", {file, other}, NoMerge),
             Profile("atomic", {dir}, strategy),
             Profile("atomic", {file}, strategy),
             Profile("composite", {}, NoMerge)}

MCNode(deps, profile) ==
    [depends_on |-> deps, role |-> profile.role, kind |-> kind,
     write_scopes |-> profile.write_scopes, merge |-> profile.merge]

MCGiven == {MCNode(deps, profile) : deps \in SUBSET Nodes, profile \in Profiles}

=============================================================================
