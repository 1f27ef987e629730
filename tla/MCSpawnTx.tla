----------------------------- MODULE MCSpawnTx ------------------------------
(* Model-checking instance of SpawnTx: payloads around every boundary of the *)
(* length encodings and of the 520-byte chunks, rates from none to one that  *)
(* overflows, values around the thresholds they give.                        *)
EXTENDS SpawnTx

MCPayloads == 0..12 \cup 70..82 \cup 205..215 \cup 250..260 \cup 515..525
                \cup {1039, 1040, 1041, 64800}

MCRates == {0, 1, 2, 100}

MCValues == 1..3 \cup 110..116 \cup 220..228 \cup 325..335 \cup {440, 441, 442}
              \cup 550..590 \cup 770..800 \cup {5000, 10000}
=============================================================================
