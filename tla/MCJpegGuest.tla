----------------------------- MODULE MCJpegGuest -----------------------------
(* Three rows, blocks of 2, 4, 8 bytes; a long of three bits and its sign.   *)
EXTENDS JpegGuest

MCNumbers == {-9, 0, 7, 16}
=============================================================================
