-------------------------------- MODULE MCTab --------------------------------
(* A directory a with a file, a directory and a link to c; beside it c,    *)
(* with a link to a file, and a link to a.                                 *)
EXTENDS Tab

MCTree == {<<"a">>, <<"a", "f">>, <<"a", "b">>, <<"a", "l">>, <<"c">>, <<"c", "l">>, <<"l">>}
MCTargets == (<<"a", "l">> :> {<<"c">>}) @@ (<<"c", "l">> :> {}) @@ (<<"l">> :> {<<"a">>})
MCEnvironments ==
    {{"fail", "drop", "borrow"}, {"browse", "cancel"}, {"browse", "drop", "evict"},
     {"browse", "borrow", "withdraw"}, {"browse", "browseLinks"}}
=============================================================================
