------------------------------ MODULE MCBitmap ------------------------------
(* Two bytes: the first one can fill up, so that the loop skips it, and a  *)
(* release can land in either; requests reach past both ends of the pool.  *)
EXTENDS Bitmap

MCRequests == {-1, 0, 3, 7, 8, 9, 15, 16}
=============================================================================
