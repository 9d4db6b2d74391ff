-------------------------- MODULE MCFormatLauncher --------------------------
(* FormatLauncher for TLC: two files the formatter owns and one it does    *)
(* not.                                                                    *)
EXTENDS FormatLauncher

CONSTANTS a, b, doc

MCPaths == {a, b, doc}
MCOwned == {a, b}

=============================================================================
