---------------------------- MODULE MCThreadPool ----------------------------
(* Small instances of the pool: ThreadPool's constants get values in the    *)
(* configurations, nothing else is needed.                                  *)
EXTENDS ThreadPool
=============================================================================
