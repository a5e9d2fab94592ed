------------------------------- MODULE MCSessions -------------------------------
(***************************************************************************)
(* Three requests of one browser.                                          *)
(***************************************************************************)
EXTENDS Sessions

=============================================================================
