------------------------------ MODULE LaneTable ------------------------------
(***************************************************************************)
(* The states, events and transition table of lanes/state_machine.ts.      *)
(***************************************************************************)

(* TRANSITION_TABLE: <<from, event, to>>. The states active and recovering  *)
(* of LaneState have no row and are never entered.                          *)
Table ==
  { <<"new",          "create",             "provisioning">>,
    <<"provisioning", "provision_complete", "ready">>,
    <<"provisioning", "provision_failed",   "closed">>,
    <<"ready",        "start_running",      "running">>,
    <<"ready",        "share",              "shared">>,
    <<"ready",        "request_cleanup",    "cleaning">>,
    <<"running",      "command_complete",   "ready">>,
    <<"running",      "block",              "blocked">>,
    <<"running",      "request_cleanup",    "cleaning">>,
    <<"blocked",      "unblock",            "running">>,
    <<"blocked",      "request_cleanup",    "cleaning">>,
    <<"shared",       "unshare",            "ready">>,
    <<"shared",       "request_cleanup",    "cleaning">>,
    <<"cleaning",     "cleanup_complete",   "closed">>,
    <<"cleaning",     "request_cleanup",    "cleaning">> }

LaneState == {"new", "provisioning", "ready", "running", "blocked", "shared",
              "cleaning", "closed"}

LaneEvent == {"create", "provision_complete", "provision_failed", "start_running",
              "command_complete", "block", "unblock", "share", "unshare",
              "request_cleanup", "cleanup_complete"}

(* States a lane can be in once a worktree was provisioned for it. *)
Provisioned == {"ready", "running", "blocked", "shared", "cleaning"}
===============================================================================
