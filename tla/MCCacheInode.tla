---------------------------- MODULE MCCacheInode ----------------------------
(* Instances of CacheInode: the root, two directories and a file. *)
EXTENDS CacheInode

Tree == [d \in {"root", "d", "e"} |->
            CASE d = "root" -> <<"d", None>>
              [] d = "d" -> <<"f", None>>
              [] d = "e" -> <<None, None>>]
=============================================================================
