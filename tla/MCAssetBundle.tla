---------------------------- MODULE MCAssetBundle ----------------------------
(* Small instances of AssetBundle. *)
EXTENDS AssetBundle

\* `1/b' and `2/a', seen from the directory 1 as `b' and `../2/a'; a reader
\* also asks for a name that is in no bundle.
MCInFiles1 == << <<1, 2>> >>
MCInFiles2 == << <<1, 2>>, <<2, 1>> >>
MCAskedNames == {<<2>>, <<0, 2, 1>>, <<7>>}
=============================================================================
