------------------------------ MODULE MCIngest ------------------------------
(***************************************************************************)
(* Two feeds and two channels, each with a few contents.                   *)
(***************************************************************************)
EXTENDS Ingest

MCPages == {<<"listing", "listing">>, <<"malformed", "listing">>}
MCHistories == {<<"listing", "ignored">>, << >>}
=============================================================================
