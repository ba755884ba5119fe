------------------------------- MODULE MCDaemon -------------------------------
(***************************************************************************)
(* Constants for the TLC runs of both daemons: two stanzas, and datagrams  *)
(* that take every branch of process_packet and validate_capture_msg.      *)
(***************************************************************************)
EXTENDS DaemonCore

MCAccess ==
    << [key |-> "k1", openPorts |-> {"ssh"}, sources |-> {"home"},
        requireSourceMatch |-> TRUE, fwTimeout |-> 9],
       [key |-> "k2", openPorts |-> {"ssh", "web"}, sources |-> {"home", "work"},
        requireSourceMatch |-> FALSE, fwTimeout |-> Unset] >>

Datagram(nonce, ts, key, form, kind, source, ports, from) ==
    [nonce |-> nonce, ts |-> ts, key |-> key, form |-> form, kind |-> kind,
     source |-> source, ports |-> ports, from |-> from]

\* Two copies of one packet, of which the second comes in from another address
\* than the payload names; two copies of a packet for the second stanza, of which
\* the second comes in from an address that is not on its allowlist; a packet
\* with a port its stanza does not open; and a packet in three forms that are
\* turned away.
MCPackets ==
    { Datagram("n1", 1, "k1", "ok", "access", "home", {"ssh"}, "home"),
      Datagram("n1", 1, "k1", "ok", "access", "home", {"ssh"}, "work"),
      Datagram("n2", 2, "k2", "ok", "access", "home", {"web"}, "work"),
      Datagram("n2", 2, "k2", "ok", "access", "home", {"web"}, "cafe"),
      Datagram("n3", 3, "k1", "ok", "access", "home", {"ssh", "web"}, "home"),
      Datagram("n4", 1, "k2", "corrupt", "access", "home", {"web"}, "home"),
      Datagram("n4", 1, "k2", "badsize", "access", "home", {"web"}, "home"),
      Datagram("n4", 1, "k2", "ok", "other", "home", {"web"}, "home") }
=============================================================================
