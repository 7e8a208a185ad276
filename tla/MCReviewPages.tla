---------------------------- MODULE MCReviewPages ----------------------------
(* Essences of up to four outputs with the remainder at every position.           *)
EXTENDS ReviewPages

MCEssences == { e \in [outputs_count : 1..4, has_remainder : BOOLEAN, remainder_index : 0..3,
                       is_internal_transfer : BOOLEAN] :
                  IF e.has_remainder THEN e.remainder_index < e.outputs_count
                                     ELSE e.remainder_index = 0 }
================================================================================
