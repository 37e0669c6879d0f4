--------------------------- MODULE MCInputCapture ---------------------------
(* Two clients, two devices and three timers: enough for a partial grab, a *)
(* hand-over from one client to the other and an orphaned timer.           *)
EXTENDS InputCapture
MCIds == 1..2
=============================================================================
