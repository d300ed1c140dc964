----------------------------- MODULE MCGateway -----------------------------
(* Gateway for TLC: two spellings of one query and another query.          *)
EXTENDS Gateway

TwoKeys == [q \in {"cats OR dogs", "cats or dogs", "birds"} |->
              IF q = "birds" THEN "birds" ELSE "cats or dogs"]
=============================================================================
