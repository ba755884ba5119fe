------------------------------ MODULE MCFirewall ------------------------------
(* Firewall with small constants, for TLC. *)
EXTENDS Firewall

\* Two rules for one source that share a port, for two seconds and for three and a
\* half (which is beyond MaxSecs); two for another source, for one and a half and
\* for half a second; and one the backend does not support.
MCRules ==
    { [source |-> "home", family |-> "v4", ports |-> {"ssh"}, timeout |-> 4],
      [source |-> "home", family |-> "v4", ports |-> {"ssh", "web"}, timeout |-> 7],
      [source |-> "work", family |-> "v4", ports |-> {"ssh"}, timeout |-> 3],
      [source |-> "work", family |-> "v4", ports |-> {"ssh"}, timeout |-> 1],
      [source |-> "home6", family |-> "v6", ports |-> {"ssh"}, timeout |-> 4] }
=============================================================================
