------------------------- MODULE MCVerificationDesk -------------------------
(* Four records: all modalities, a face and an iris, a finger without a     *)
(* photo, a face alone.                                                    *)
EXTENDS VerificationDesk

CONSTANTS full, eye, finger, plain

MCCandidates == {full, eye, finger, plain}
MCEnrolled ==
  [c \in MCCandidates |-> CASE c = full   -> Modalities
                            [] c = eye    -> {"face", "iris"}
                            [] c = finger -> {"fp"}
                            [] c = plain  -> {"face"}]
=============================================================================
