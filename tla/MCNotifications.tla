---------------------------- MODULE MCNotifications ----------------------------
(***************************************************************************)
(* Instances of Notifications for TLC: whom the jobs are for.              *)
(***************************************************************************)
EXTENDS Notifications, TLC

CONSTANTS j1, j2, u1, u2

(* One job for two users. *)
OneJob == j1 :> <<u1, u2>>
(* One user, told by two jobs. *)
TwoJobs == (j1 :> <<u1>>) @@ (j2 :> <<u1>>)
===============================================================================
