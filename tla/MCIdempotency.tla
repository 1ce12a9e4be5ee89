--------------------------- MODULE MCIdempotency ---------------------------
(* Three requests with one payload and one with another, all with the same *)
(* key.                                                                    *)
EXTENDS Idempotency

CONSTANTS r1, r2, r3, r4, Same, Other

MCPayloadOf == [r \in {r1, r2, r3, r4} |-> IF r = r4 THEN Other ELSE Same]
============================================================================
