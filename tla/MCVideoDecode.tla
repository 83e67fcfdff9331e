---------------------------- MODULE MCVideoDecode ----------------------------
(* Three frames: one being decoded, one on display, one to spare.           *)
EXTENDS VideoDecode
=============================================================================
