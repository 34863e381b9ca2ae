-------------------------------- MODULE MCDrives --------------------------------
(* Small instances of Drives: plans that each let one part of the helper do    *)
(* its worst, two vaults, and a folder with a file and a folder with a file.   *)
EXTENDS Drives, TLC

CONSTANTS v1, v2

MountOf(x)     == [cmd |-> "mount", vault |-> x]
UnmountOf(x, f) == [cmd |-> "unmount", vault |-> x, force |-> f]
Job(cmd)       == [cmd |-> cmd, vault |-> v1]
CancelOf(id)   == [cmd |-> "cancel", vault |-> v1, target |-> id]

MCFile  == [kind |-> "file", no |-> 1, readOnly |-> FALSE, data |-> TRUE]
MCTree  == (<<"d">> :> Dir) @@ (<<"d", "x">> :> File(<<0, 1>>)) @@ (<<"y">> :> File(<<1>>))
MCLink  == (<<"l">> :> [kind |-> "link", data |-> <<>>]) @@ MCTree

Plan(commands, faults) ==
    [commands |-> commands, faults |-> faults, programs |-> FALSE,
     start |-> MCFile, source |-> <<>>, edits |-> 0]

MCPlans ==
    { Plan(<<MountOf(v1), MountOf(v2), UnmountOf(v1, TRUE)>>, {"refuse", "eject"}),
      Plan(<<MountOf(v1), MountOf(v1), UnmountOf(v1, TRUE)>>, {"slowClose"}),
      Plan(<<MountOf(v1), UnmountOf(v1, TRUE), UnmountOf(v1, TRUE)>>, {"slowClose"}),
      Plan(<<MountOf(v1), MountOf(v2)>>, {"slowMount", "refuse", "close"}),
      Plan(<<MountOf(v1), UnmountOf(v1, TRUE)>>, {"close", "slowClose", "eject"}),
      [Plan(<<MountOf(v1), UnmountOf(v1, FALSE)>>, {}) EXCEPT !.programs = TRUE],
      [Plan(<<Job("import")>>, {}) EXCEPT !.source = MCTree, !.edits = 2],
      [Plan(<<Job("import"), CancelOf(1)>>, {"close"}) EXCEPT !.source = MCTree],
      [Plan(<<Job("import")>>, {}) EXCEPT !.source = MCLink],
      [Plan(<<Job("export")>>, {}) EXCEPT !.source = MCTree, !.edits = 1] }

MCNames    == {"d", "l", "x", "y", "z"}
MCPaths    == {<<"d", "x">>, <<"d", "z">>, <<"y">>}
MCContents == {<<0>>, <<1, 1>>}
MCLetters  == <<"V", "W">>
=================================================================================
