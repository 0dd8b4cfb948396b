---------------------------- MODULE MCPortable ------------------------------
(* Instances of Portable for TLC: a program, a file only the old release has, *)
(* one only the new release has, and the manifest.                            *)
EXTENDS Portable

MCNames == {"ZzLogg.exe", "zzlogg.exe", "old.dll", "new.dll", "files.json"}

MCFolded == [n \in MCNames |-> IF n = "ZzLogg.exe" THEN "zzlogg.exe" ELSE n]

MCKeys == {MCFolded[n] : n \in MCNames}

MCOldFiles == <<"ZzLogg.exe", "old.dll", "files.json">>
MCNewFiles == <<"ZzLogg.exe", "new.dll", "files.json">>
=============================================================================
