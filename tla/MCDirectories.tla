--------------------------- MODULE MCDirectories ---------------------------
(* A directory a with a directory and a file, and a place to rename to.    *)
EXTENDS Directories

MCNodes == {<<"a">>, <<"a", "b">>, <<"a", "f">>, <<"b">>}
MCInitialTrees == {{}, {<<"a">>, <<"a", "f">>}}
MCEnvironments ==
    {{"list", "mkdir", "upload"},
     {"list", "rmd", "rename"},
     {"delete", "chmod", "upload", "list"},
     {"list", "others", "cancel"},
     {"mkdir", "upload", "rmd", "refuse"},
     {"mkdir", "upload", "rename", "cancel"}}
MCMaxOps(v) == IF {"mkdir", "upload"} \subseteq v /\ "list" \notin v THEN 2 ELSE 3
MCLimits == {[files |-> -1, entries |-> 2], [files |-> 2, entries |-> 1]}
=============================================================================
