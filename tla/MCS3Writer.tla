----------------------------- MODULE MCS3Writer -----------------------------
(* Instances of S3Writer for TLC: parts of two bytes, a channel of two or three. *)
EXTENDS S3Writer

SmallWrites == {1, 3}   \* below a part, and more than one part at once
=============================================================================
