----------------------------- MODULE MCRecorder -----------------------------
(* An instance of Recorder for TLC.                                        *)
EXTENDS Recorder

\* No limit, one a single message reaches, and one within the stream.
MCLimits == {NoLimit, 1, 2}
=============================================================================
