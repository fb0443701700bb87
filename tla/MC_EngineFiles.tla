--------------------------- MODULE MC_EngineFiles ---------------------------
(* EngineFiles with an asset that may be kept in memory, an absolute name  *)
(* too large for that, an empty file of the engine that an asset's name    *)
(* also finds, a directory with a file, and a save left in the old folder. *)
EXTENDS EngineFiles

CONSTANTS n1, n2, d, m

PassedPaths == {<<"files", n1>>, <<"files", d>>, <<"files", m>>,
                <<"game", n1>>, <<"files2", n1>>}

Files == {<<"assets", n1>>, <<"root", n2>>, <<"files", n1>>, <<"files2", n1>>,
          <<"game", n1>>, <<"game", d>>, <<"game", m>>}

Bytes == [s \in Files |->
            CASE s = <<"assets", n1>> -> 1 [] s[2] = n2 -> 2 [] OTHER -> 0]

SeekOffsets == {-1, 0, 1}

Tree == [n \in {n1, d, m} |-> IF n = m THEN d ELSE TOP]

FolderEntries == [p \in {"bgm", "absent"} |->
    IF p = "absent" THEN {} ELSE {<<n1, "file">>, <<n2, "directory">>}]
=============================================================================
