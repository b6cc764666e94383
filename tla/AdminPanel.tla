----------------------------- MODULE AdminPanel -----------------------------
(* Auto-dumping and the gist command in one process: they share the settings   *)
(* with their rollbacks, the dialogs, the threads of the handlers, and what a   *)
(* restart forgets.                                                           *)
EXTENDS AutoDumping, GistCommand

AdminInit == Init /\ GistInit

AdminNext ==
    \/ Step /\ UNCHANGED gistVars
    \/ GistStep /\ UNCHANGED <<pages, astray, scheduler, cycle, price, profile, storage, history>>
    \/ Restart /\ GistRestart

AdminSpec == AdminInit /\ [][AdminNext]_<<vars, gistVars>>
=============================================================================
