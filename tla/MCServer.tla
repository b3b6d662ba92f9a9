------------------------------ MODULE MCServer ------------------------------
(***************************************************************************)
(* Server for TLC.  MCServerLimited.cfg has a connection limit smaller     *)
(* than the number of clients, MCServerUnlimited.cfg none.                 *)
(***************************************************************************)
EXTENDS Server
=============================================================================
