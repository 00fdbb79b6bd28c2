---------------------------- MODULE MCTransferQueue ----------------------------
(* Site s allows one connection: a directory to make and a download.  Site *)
(* t has no limit: downloads.                                              *)
EXTENDS TransferQueue

MCSiteOf == [i \in Items |-> IF i \in {"d", "e"} THEN "t" ELSE "s"]
MCKind == [i \in Items |-> IF i = "a" THEN "mkdir" ELSE "download"]
MCLimit == [s \in Sites |-> IF s = "s" THEN 1 ELSE 0]
MCLoaded == <<"b", "d", "e">>
FewLoaded == <<"b", "d">>
MCEnvironments == {{"fail", "drop"}, {"stop"}, {"tab", "drop"}, {"idle", "tab"}}
WithdrawOnly == {{"stop", "tab", "withdraw"}}
================================================================================
