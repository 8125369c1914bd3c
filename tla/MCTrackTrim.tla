---------------------------- MODULE MCTrackTrim ----------------------------
(* TLC instance of TrackTrim: references that lead from heap to heap, so     *)
(* that marking takes several rounds, and in a cycle neither heap sees whole. *)
EXTENDS TrackTrim

CONSTANTS a, b

MCPhoneRefs == {<<b, a>>}
MCServerRefs == {<<a, b>>}
=============================================================================
