--------------------------- MODULE MCBundleBuilder ---------------------------
(* Small instances of BundleBuilder. *)
EXTENDS BundleBuilder

\* `1/b', `1/a', `2/a.9': sorting has something to do, one file is outside
\* the directory 1, and no input has the name of the temporary of another.
MCInFiles3 == << <<1, 2>>, <<1, 1>>, <<2, 1, 9>> >>
MCInFiles2 == << <<1, 2>>, <<1, 1>> >>
=============================================================================
