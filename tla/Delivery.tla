------------------------------ MODULE Delivery ------------------------------
(***************************************************************************)
(* What a decoder promises: the units that are wanted are delivered in     *)
(* their order, and in the end there is a verdict on them.  Sound input    *)
(* is delivered whole and called "ok", unless the memory or a stream of    *)
(* the caller failed.                                                      *)
(***************************************************************************)
EXTENDS Sequences, SequencesExt

VARIABLES wanted, sound, delivered, verdict

Init == delivered = <<>> /\ verdict = "none"

Deliver ==
    /\ verdict = "none"
    /\ IsPrefix(delivered, delivered') /\ IsPrefix(delivered', wanted)
    /\ UNCHANGED <<wanted, sound>>
    /\ verdict' \in {"none", "fault"}

Judge ==
    /\ verdict = "none"
    /\ verdict' \in {"ok", "refused", "fault"}
    /\ verdict' # "fault" /\ sound => verdict' = "ok" /\ delivered' = wanted
    /\ IsPrefix(delivered, delivered') /\ IsPrefix(delivered', wanted)
    /\ UNCHANGED <<wanted, sound>>

Spec == Init /\ [][Deliver \/ Judge]_<<wanted, sound, delivered, verdict>>
=============================================================================
