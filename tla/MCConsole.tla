----------------------------- MODULE MCConsole -----------------------------
(* Two lines of four characters, on a frame buffer without padding and on one *)
(* with longer lines and a rest at the end.                                   *)
EXTENDS Console

Geometry(stride, size) == [stride |-> stride, size |-> size]
MCGeometries == {Geometry(4, 8), Geometry(6, 14)}
MCLeftovers == {{}, {104}}

Text(chars, n) == [chars |-> chars, left |-> n]
MCTexts == {Text({"A", "\n"}, 3), Text({"A", "\t", "erase"}, 3), Text({"\r", "clear"}, 2)}
=============================================================================
