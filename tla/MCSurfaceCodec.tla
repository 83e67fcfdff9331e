--------------------------- MODULE MCSurfaceCodec ---------------------------
(* Two frames, as many as sfdec_max_frames, and one picture more than that.  *)
EXTENDS SurfaceCodec

CONSTANTS f1, f2

MCFrames == <<f1, f2>>
=============================================================================
