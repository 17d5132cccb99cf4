-------------------------------- MODULE Ids ---------------------------------
(* The identities every component of the judge refers to.                  *)
CONSTANTS
  Jobs,     \* job ids (Uuid::new_v4 in run_handle)
  Workers,  \* worker processes, by worker_id (their hostname)
  NULL      \* SQL NULL, Rust None

ASSUME NobodyAssumption == NULL \notin Jobs \cup Workers
=============================================================================
