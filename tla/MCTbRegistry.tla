---------------------------- MODULE MCTbRegistry ----------------------------
(* Two tables, two directories and one sibling.  One table's files are     *)
(* good in the first directory and missing in the second; of the other's   *)
(* the WDL file is corrupt and the DTZ file cannot be parsed, and both are *)
(* shadowed by, or shadow, a good file in the second directory.            *)
EXTENDS TbRegistry

CONSTANTS KQK, KRK, a, b, s1

Disk == [x \in Tables \X Kinds \X Dirs |->
            CASE x[1] = KQK -> IF x[3] = a THEN "good" ELSE "absent"
              [] x[1] = KRK -> IF x[3] = b THEN "good" ELSE IF x[2] = "wdl" THEN "corrupt" ELSE "unparsable"]
MCDisks == {Disk}
MCPaths == {<<a, b>>}
=============================================================================
