---------------------------- MODULE MCSupervisor ----------------------------
(* Small instances of the main process and its workers. *)
EXTENDS Supervisor

\* What an operator does from another terminal or with the keyboard, one thing
\* at a time, and workers that crash.
GentleEvents == {"kill_int", "ctrl_c", "kill_quit", "lose_file", "crash"}

\* Everything, at any moment.
AllEvents == GentleEvents \cup {"ctrl_z", "ctrl_quit", "exit_0", "broken_pipe",
                                "fork_fails", "option_t", "option_r"}
=============================================================================
