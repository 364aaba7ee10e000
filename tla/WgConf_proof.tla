----------------------------- MODULE WgConf_proof -----------------------------
(***************************************************************************)
(* What the operations on wg0.conf and on the routing table return, for    *)
(* every file and every table.  Onboarding_proof cites these lemmas.       *)
(***************************************************************************)
EXTENDS WgConf, TLAPS

\* The greatest element of a set of numbers, or the default, is a number.
LEMMA GreatestType ==
    ASSUME NEW S \in SUBSET Nat, NEW default \in Nat
    PROVE  Greatest(S, default) \in Nat
BY DEF Greatest

\* append_peer_to_conf leaves a well-formed file.
LEMMA AppendType ==
    ASSUME NEW conf \in Conf, NEW key \in Keys, NEW ip \in IPs
    PROVE  append_peer_to_conf(conf, key, ip) \in Conf
<1> DEFINE entry == [key |-> key, ip |-> ip, block |-> conf.last, line |-> conf.lines]
<1>1. entry \in PeerEntry
    BY DEF Conf, PeerEntry
<1> HIDE DEF entry
<1> DEFINE longer == [peers |-> conf.peers \cup {entry}, iface |-> conf.iface,
                      blocks |-> conf.blocks, last |-> conf.last,
                      nl |-> TRUE, lines |-> conf.lines + 1]
<1>2. longer \in Conf
    BY <1>1 DEF Conf
<1>3. key \notin KeysOf(conf) => append_peer_to_conf(conf, key, ip) = longer
    BY DEF append_peer_to_conf, Conf, entry
<1> QED
    BY <1>2, <1>3 DEF append_peer_to_conf

\* append_peer_to_conf adds the key it is given and no other.
LEMMA AppendKeys ==
    ASSUME NEW conf \in Conf, NEW key \in Keys, NEW ip \in IPs
    PROVE  KeysOf(append_peer_to_conf(conf, key, ip)) = KeysOf(conf) \cup {key}
<1>1. CASE key \in KeysOf(conf)
    BY <1>1 DEF append_peer_to_conf
<1>2. CASE key \notin KeysOf(conf)
    <2> DEFINE entry == [key |-> key, ip |-> ip, block |-> conf.last, line |-> conf.lines]
    <2>1. append_peer_to_conf(conf, key, ip).peers = conf.peers \cup {entry}
        BY <1>2 DEF append_peer_to_conf, Conf
    <2>2. entry.key = key
        OBVIOUS
    <2> QED
        BY <2>1, <2>2 DEF KeysOf
<1> QED
    BY <1>1, <1>2

\* remove_peer_from_conf leaves a well-formed file.
LEMMA RemoveType ==
    ASSUME NEW conf \in Conf, NEW key
    PROVE  remove_peer_from_conf(conf, key) \in Conf
<1> DEFINE dropped == {p.block : p \in {q \in conf.peers : q.key = key}}
           kept    == conf.blocks \ dropped
<1>1. Greatest(kept, conf.last) \in Nat
    BY GreatestType DEF Conf
<1> HIDE DEF kept
<1>2. /\ kept \in SUBSET Nat
      /\ conf.last \in Nat /\ conf.lines \in Nat
      /\ conf.peers \in SUBSET PeerEntry /\ conf.iface \in BOOLEAN /\ conf.nl \in BOOLEAN
    BY DEF Conf, kept
<1> DEFINE lastKept == conf.last \notin dropped
           opensNew == lastKept /\ conf.nl
           newLast  == IF opensNew THEN conf.last + 1
                       ELSE IF lastKept THEN conf.last
                       ELSE Greatest(kept, conf.last)
<1>3. newLast \in Nat
    BY <1>1, <1>2
<1>4. {p \in conf.peers : p.block \notin dropped} \in SUBSET PeerEntry
    BY <1>2
<1>5. opensNew \in BOOLEAN /\ (conf.iface /\ IfaceBlock \notin dropped) \in BOOLEAN
    OBVIOUS
<1>6. remove_peer_from_conf(conf, key) =
        [peers |-> {p \in conf.peers : p.block \notin dropped},
         iface |-> conf.iface /\ IfaceBlock \notin dropped,
         blocks |-> kept \cup {newLast}, last |-> newLast,
         nl |-> ~opensNew, lines |-> conf.lines]
    BY Zenon DEF remove_peer_from_conf, kept
<1> HIDE DEF dropped, newLast, opensNew
<1>7. kept \cup {newLast} \in SUBSET Nat
    BY <1>2, <1>3
<1> QED
    BY <1>2, <1>3, <1>4, <1>5, <1>6, <1>7 DEF Conf

\* remove_peer_from_conf takes the key out, and brings none in.
LEMMA RemoveKeys ==
    ASSUME NEW conf \in Conf, NEW key
    PROVE  KeysOf(remove_peer_from_conf(conf, key)) \subseteq KeysOf(conf) \ {key}
<1> DEFINE dropped == {p.block : p \in {q \in conf.peers : q.key = key}}
<1>1. remove_peer_from_conf(conf, key).peers = {p \in conf.peers : p.block \notin dropped}
    BY DEF remove_peer_from_conf
<1>2. \A p \in conf.peers : p.block \notin dropped => p.key # key
    OBVIOUS
<1> QED
    BY <1>1, <1>2 DEF KeysOf

-------------------------------------------------------------------------------
\* `wg set ... remove` takes the key off, and routes nothing elsewhere.
LEMMA RemovePeerRoutes ==
    ASSUME NEW route \in Routes, NEW key
    PROVE  /\ WgRemovePeer(route, key) \in Routes
           /\ \A i \in IPs : /\ WgRemovePeer(route, key)[i] \in {route[i], None}
                             /\ key # None => WgRemovePeer(route, key)[i] # key
BY DEF WgRemovePeer, Routes

\* `wg set ... allowed-ips` routes one address to the key, and nothing else
\* but away from it.
LEMMA SetPeerRoutes ==
    ASSUME NEW route \in Routes, NEW key \in Keys, NEW ip \in IPs
    PROVE  /\ WgSetPeer(route, key, ip) \in Routes
           /\ WgSetPeer(route, key, ip)[ip] = key
           /\ \A i \in IPs \ {ip} : /\ WgSetPeer(route, key, ip)[i] \in {route[i], None}
                                    /\ WgSetPeer(route, key, ip)[i] # key
BY KeysAssumption DEF WgSetPeer, Routes

\* `wg-quick up` delivers only to keys of the file.
LEMMA QuickUpRoutes ==
    ASSUME NEW conf \in Conf
    PROVE  /\ WgQuickUp(conf) \in Routes
           /\ \A i \in IPs : WgQuickUp(conf)[i] \in KeysOf(conf) \cup {None}
<1> DEFINE claims(i) == {p \in conf.peers : p.ip = i}
           winner(i) == {p \in claims(i) : \A q \in claims(i) : q.line <= p.line}
           at(i) == IF conf.iface /\ winner(i) # {}
                    THEN (CHOOSE p \in winner(i) : TRUE).key ELSE None
<1>1. \A i \in IPs : at(i) \in KeysOf(conf) \cup {None}
    <2> TAKE i \in IPs
    <2>1. CASE winner(i) # {}
        <3>1. (CHOOSE p \in winner(i) : TRUE) \in winner(i)
            BY <2>1
        <3>2. (CHOOSE p \in winner(i) : TRUE) \in conf.peers
            BY <3>1
        <3> QED
            BY <3>2 DEF KeysOf
    <2>2. CASE winner(i) = {}
        BY <2>2
    <2> QED
        BY <2>1, <2>2
<1>2. WgQuickUp(conf) = [i \in IPs |-> at(i)]
    BY DEF WgQuickUp
<1>3. KeysOf(conf) \subseteq Keys
    BY DEF KeysOf, Conf, PeerEntry
<1> HIDE DEF at
<1> QED
    BY <1>1, <1>2, <1>3 DEF Routes
===============================================================================
