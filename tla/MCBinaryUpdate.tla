--------------------------- MODULE MCBinaryUpdate ----------------------------
(* Small instances of BinaryUpdate for TLC.                                 *)
EXTENDS BinaryUpdate

\* The server, the chip daemon, and the command line tool, which comes with an
\* update.
DefaultSize == 3
DefaultFresh == {3}
=============================================================================
