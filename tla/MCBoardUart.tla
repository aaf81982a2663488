----------------------------- MODULE MCBoardUart ------------------------------
(* BoardUart with a ring shorter than a frame and a work item that takes   *)
(* less than a frame, so that frames are split everywhere.                 *)
EXTENDS BoardUart
===============================================================================
