---------------------------- MODULE MCX11Screen ----------------------------
(***************************************************************************)
(* An instance of X11Screen for TLC: windows of two characters, and of     *)
(* three for wide glyphs, two glyphs, and a key event that starts with a   *)
(* character of no width and is one key longer than the queue.             *)
(***************************************************************************)
EXTENDS X11Screen

MCGlyphs == {1, 2}
MCSizes == {<<2, 1>>, <<1, 2>>}
MCWideSizes == {<<3, 1>>}
MCWidePlaces == {<<0, 0>>, <<2, 0>>}
MCPlaces == {<<0, 0>>, <<1, 0>>}
MCKeys == {"b", "zw", "ESC", RESIZE}
MCPresses == {<<"zw", "ESC", "b">>}
=============================================================================
