-------------------------------- MODULE WgConf --------------------------------
(***************************************************************************)
(* The gateway's side of the WireGuard tunnel, as onboardd drives it: the  *)
(* cryptokey routing table of the wg interface (which peer key an address  *)
(* of the tunnel is delivered to) and the file wg0.conf the peers are      *)
(* written back to.                                                        *)
(*                                                                         *)
(* The file is text that onboardd cuts at blank lines.  All that matters   *)
(* of the text is which blank-line-separated block each peer sits in, in   *)
(* which order the peers were written, whether the [Interface] section is  *)
(* still there, and whether the last block ends with a newline, because    *)
(* the newline remove_peer_from_conf writes at the end then opens a block. *)
(***************************************************************************)
EXTENDS Naturals

CONSTANTS Keys,      \* public keys of the sites' WireGuard peers
          IPs,       \* host numbers next_wg_ip may hand out (11..250 in the code)
          None       \* SQL NULL, "no row", "no peer", "idle"

ASSUME KeysAssumption == None \notin Keys /\ None \notin IPs
ASSUME IPsAssumption == IPs \subseteq Nat

\* The block deploy.sh writes [Interface] into.
IfaceBlock == 0

PeerEntry == [key : Keys, ip : IPs, block : Nat, line : Nat]

Conf == [peers  : SUBSET PeerEntry,
         iface  : BOOLEAN,        \* the [Interface] section is in the file
         blocks : SUBSET Nat,     \* the blocks of the file, empty ones too
         last   : Nat,            \* the last of them
         nl     : BOOLEAN,        \* the file ends with a newline
         lines  : Nat]            \* position of the next appended peer

\* deploy.sh writes the interface section alone: one block, no blank line.
FreshConf == [peers |-> {}, iface |-> TRUE, blocks |-> {IfaceBlock},
              last |-> IfaceBlock, nl |-> TRUE, lines |-> 0]

KeysOf(conf) == {p.key : p \in conf.peers}

\* The greatest element of S, or default when S has none.
Greatest(S, default) ==
    LET IsGreatest(b) == b \in S /\ \A c \in S : c <= b
    IN  IF \E b \in S : IsGreatest(b) THEN CHOOSE b \in S : IsGreatest(b)
                                      ELSE default

\* PEER_BLOCK has no leading blank line: it joins the block the file ends in.
append_peer_to_conf(conf, key, ip) ==
    IF key \in KeysOf(conf) THEN conf
    ELSE [conf EXCEPT !.peers = @ \cup {[key |-> key, ip |-> ip,
                                         block |-> conf.last,
                                         line |-> conf.lines]},
                      !.nl    = TRUE,
                      !.lines = @ + 1]

\* A slip: the file is left as it is.
remove_peer_from_conf_Forgotten(conf, key) == conf

\* Every block that mentions the key goes, with whatever else it holds.
remove_peer_from_conf(conf, key) ==
    LET dropped  == {p.block : p \in {q \in conf.peers : q.key = key}}
        kept     == conf.blocks \ dropped
        lastKept == conf.last \notin dropped
        opensNew == lastKept /\ conf.nl
        newLast  == IF opensNew THEN conf.last + 1
                    ELSE IF lastKept THEN conf.last
                    ELSE Greatest(kept, conf.last)
    IN  [peers  |-> {p \in conf.peers : p.block \notin dropped},
         iface  |-> conf.iface /\ IfaceBlock \notin dropped,
         blocks |-> kept \cup {newLast},
         last   |-> newLast,
         nl     |-> ~opensNew,
         lines  |-> conf.lines]

-------------------------------------------------------------------------------
Routes == [IPs -> Keys \cup {None}]

\* `wg set IFACE peer KEY remove`
WgRemovePeer(route, key) ==
    [i \in IPs |-> IF route[i] = key THEN None ELSE route[i]]

\* `wg set IFACE peer KEY allowed-ips IP/32`: the list is replaced, and the
\* address is taken away from the peer that had it.
WgSetPeer(route, key, ip) ==
    [i \in IPs |-> IF i = ip THEN key
                   ELSE IF route[i] = key THEN None ELSE route[i]]

\* `wg-quick up`: the peers of the file, a later one taking an address over
\* from an earlier one.  A file without [Interface] gives no working tunnel.
WgQuickUp(conf) ==
    [i \in IPs |->
        LET claims == {p \in conf.peers : p.ip = i}
            winner == {p \in claims : \A q \in claims : q.line <= p.line}
        IN  IF conf.iface /\ winner # {} THEN (CHOOSE p \in winner : TRUE).key
                                         ELSE None]
===============================================================================
