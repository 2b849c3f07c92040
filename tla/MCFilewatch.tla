---------------------------- MODULE MCFilewatch ----------------------------
(* Two watchers, of either tool and with either kind of output. *)
EXTENDS Filewatch
=============================================================================
