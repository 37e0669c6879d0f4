------------------------- MODULE MCOutputManagement -------------------------
(* OutputManagement with the registries of compositors with no seat, one and   *)
(* two, and one without the output manager.  Seats with a keyboard (2), both   *)
(* (3), a keyboard and touch (6), all three (7); with two seats the last two   *)
(* are the ids of the manager and of a callback.  With no seat the manager is  *)
(* object 4, which is also a serial.  TLC's integers are too small for         *)
(* 0xff000000.                                                                 *)
EXTENDS OutputManagement

Manager == "zwlr_output_manager_v1"
MCRegistries ==
  {<<Manager, "wl_seat">>, <<Manager, "wl_seat", "wl_seat">>, <<Manager>>, <<"wl_seat">>}
=============================================================================
