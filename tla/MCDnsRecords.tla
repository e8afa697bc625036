---------------------------- MODULE MCDnsRecords ----------------------------
(* One or two publishes of a few rows.                                     *)
EXTENDS DnsRecords

MCSettings ==
  {[rows |-> {"spf"}, syncs |-> 2, checks |-> FALSE], [rows |-> {"mx", "caa"}, syncs |-> 1, checks |-> FALSE]}
=============================================================================
