--------------------------- MODULE MCOpLockManager ---------------------------
(* Three control sockets, two of them on the same server; a directory and  *)
(* its child.                                                              *)
EXTENDS OpLockManager, TLC

MCSockets == {"s1", "s2", "s3"}
MCServers == {"A", "B"}
MCServerOf == "s1" :> "A" @@ "s2" :> "A" @@ "s3" :> "B"
MCReasons == {"list"}
MCPaths == {"dir", "sub"}
MCParent == {<<"dir", "sub">>}
=============================================================================
