------------------------------ MODULE MCWebUI ------------------------------
(* The page, a user who does everything it offers, and one who only enrolls *)
(* the gateway again while its service runs.                               *)
EXTENDS WebUI

Everything == Buttons \cup {"edit", "reenroll"}
Enrolling == {"enroll", "pair", "start", "reenroll"}
=============================================================================
