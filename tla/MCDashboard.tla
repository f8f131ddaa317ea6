----------------------------- MODULE MCDashboard -----------------------------
(* An instance of Dashboard for TLC: every list, with and without a filter. *)
EXTENDS Dashboard, TLC

EveryView ==
  [list : {"users"}, filter : {"all", "blocked", "unblocked"}]
  \cup [list : {"active", "completed", "rate"}, filter : {"all"}]
  \cup [list : {"reports", "meetup_reports"}, filter : {"all", "pending"}]
=============================================================================
