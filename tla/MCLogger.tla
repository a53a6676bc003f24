------------------------------ MODULE MCLogger ------------------------------
(* Small instances of Logger: which message has which level.                *)
EXTENDS Logger, TLC

CONSTANTS m1, m2, m3, m4, info, error

(* Two levels, alternating, so that the front's level changes. *)
TwoLevels == m1 :> info @@ m2 :> error @@ m3 :> info @@ m4 :> error
FewLevels == m1 :> info @@ m2 :> error @@ m3 :> info
=============================================================================
