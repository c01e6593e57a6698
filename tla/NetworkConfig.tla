----------------------------- MODULE NetworkConfig -----------------------------
(***************************************************************************)
(* network.js: the interfaces of the configuration, what refers to them,   *)
(* and the devices and wireless networks that belong to them.              *)
(*                                                                         *)
(* An interface is deleted after a promise has been waited for; whatever   *)
(* refers to it then is looked for in five configurations, of which two    *)
(* may not be loaded.  A wireless network goes by its place among those of *)
(* its radio.                                                              *)
(*                                                                         *)
(* Simplifications.  Interfaces are neither bridges nor virtual, and have  *)
(* no running state.  What is said of routes holds for aliases as well.    *)
(***************************************************************************)
EXTENDS Naturals, Sequences, FiniteSets

Seqs == INSTANCE SequencesExt
Order == INSTANCE InOrder

CONSTANTS
  Iface,   \* names of interfaces
  Device,  \* wired devices
  Radio,   \* wireless devices
  Wifi,    \* sections of type wifi-iface
  MaxRefs  \* bound on the references

RefType == {"ifstate", "route", "rule", "dhcp", "zone"}

VARIABLES
  ifaces,   \* the interfaces: their devices, in order, as far as they have any
  refs,     \* sections that name an interface
  wifi,     \* the wireless networks, in order: section, radio, interfaces
  deleting, \* interfaces that are being deleted
  reached,   \* which of the configurations dhcp and firewall could be loaded
  renamed   \* names that were given up

networkVars == <<ifaces, refs, wifi, deleting, reached, renamed>>

NetworkTypeOK ==
  /\ DOMAIN ifaces \subseteq Iface /\ \A n \in DOMAIN ifaces : ifaces[n] \in Seq(Device)
  /\ refs \subseteq RefType \X Iface
  /\ \A i \in DOMAIN wifi : wifi[i] \in [sid : Wifi, radio : Radio, networks : SUBSET Iface]
  /\ deleting \subseteq Iface /\ renamed \subseteq Iface
  /\ reached \subseteq {"dhcp", "zone"}

NetworkInit ==
  /\ \E d \in Device : ifaces \in [Iface -> {<<>>, <<d>>}]
  /\ refs = {} /\ wifi = <<>> /\ deleting = {} /\ renamed = {}
  /\ reached \in SUBSET {"dhcp", "zone"}

-----------------------------------------------------------------------------
(* Wireless networks by their places                                       *)

\* The number of the i-th section among those of its radio.
Number(i) == Cardinality({j \in 1..i : wifi[j].radio = wifi[i].radio})

\* getWifiSidByNetid: the n-th of the radio.
WifiSidByNetid(netid) ==
  {wifi[i].sid : i \in {j \in DOMAIN wifi : wifi[j].radio = netid[1] /\ Number(j) = netid[2]}}

\* getWifiNetidBySid
WifiNetidBySid(sid) ==
  {<<wifi[i].radio, Number(i)>> : i \in {j \in DOMAIN wifi : wifi[j].sid = sid}}

Netid == Radio \X (1..Cardinality(Wifi))

Place(sid) == CHOOSE i \in DOMAIN wifi : wifi[i].sid = sid

\* containsDevice compares the whole option with the device.
ContainsDevice(n, d) ==
  \/ d \notin Netid /\ ifaces[n] = <<d>>
  \/ \E sid \in (IF d \in Netid THEN WifiSidByNetid(d) ELSE {}) : n \in wifi[Place(sid)].networks

-----------------------------------------------------------------------------
(* Interfaces                                                              *)

\* addNetwork: of an interface that is there only options change.
AddNetwork(n) ==
  /\ n \notin DOMAIN ifaces
  /\ ifaces' = [m \in DOMAIN ifaces \cup {n} |-> IF m = n THEN <<>> ELSE ifaces[m]]
  /\ UNCHANGED <<refs, wifi, deleting, reached, renamed>>

\* The pages for routes, rules, DHCP and zones offer the interfaces there are.
AddReference(type, n) ==
  /\ n \in DOMAIN ifaces /\ Cardinality(refs) < MaxRefs
  /\ refs' = refs \cup {<<type, n>>}
  /\ UNCHANGED <<ifaces, wifi, deleting, reached, renamed>>

\* deleteNetwork waits for firewall.js, dhcp and the state of the network.
StartDelete(n) ==
  /\ n \in DOMAIN ifaces
  /\ deleting' = deleting \cup {n}
  /\ UNCHANGED <<ifaces, refs, wifi, reached, renamed>>

\* What is found of an interface, in the configurations that are loaded.
Found(n) == {r \in refs : r[2] = n /\ (r[1] \in {"dhcp", "zone"} => r[1] \in reached)}

WifiWithout(n) == [i \in DOMAIN wifi |-> [wifi[i] EXCEPT !.networks = @ \ {n}]]

\* An interface that has been deleted meanwhile is not looked for.
DeleteNetwork(n) ==
  /\ n \in deleting /\ deleting' = deleting \ {n}
  /\ IF n \in DOMAIN ifaces
       THEN /\ ifaces' = [m \in DOMAIN ifaces \ {n} |-> ifaces[m]]
            /\ refs' = refs \ Found(n)
            /\ wifi' = WifiWithout(n)
       ELSE UNCHANGED <<ifaces, refs, wifi>>
  /\ UNCHANGED <<reached, renamed>>

\* renameNetwork: rules, DHCP and zones keep the old name.
Renamed(old, new) ==
  {IF r[2] = old /\ r[1] \in {"ifstate", "route"} THEN <<r[1], new>> ELSE r : r \in refs}

RenameNetwork(old, new) ==
  /\ old \in DOMAIN ifaces /\ new \notin DOMAIN ifaces
  /\ ifaces' = [m \in (DOMAIN ifaces \cup {new}) \ {old} |-> IF m = new THEN ifaces[old] ELSE ifaces[m]]
  /\ refs' = Renamed(old, new)
  /\ wifi' = [i \in DOMAIN wifi |-> IF old \in wifi[i].networks
                THEN [wifi[i] EXCEPT !.networks = (@ \ {old}) \cup {new}] ELSE wifi[i]]
  /\ renamed' = renamed \cup {old}
  /\ UNCHANGED <<deleting, reached>>

-----------------------------------------------------------------------------
(* Devices and wireless networks                                           *)

\* appendValue and removeValue
Appended(seq, v) == IF v \in {seq[i] : i \in DOMAIN seq} THEN seq ELSE Append(seq, v)

Removed(seq, v) == Order!Selected(seq, {i \in DOMAIN seq : seq[i] # v})

\* addDevice of a name that is that of a wireless network joins the network.
AddDevice(n, d) ==
  /\ n \in DOMAIN ifaces
  /\ IF d \in Netid /\ WifiSidByNetid(d) # {}
       THEN /\ \E sid \in WifiSidByNetid(d) : wifi' = [wifi EXCEPT ![Place(sid)].networks = @ \cup {n}]
            /\ UNCHANGED ifaces
       ELSE d \in Device /\ ifaces' = [ifaces EXCEPT ![n] = Appended(@, d)] /\ UNCHANGED wifi
  /\ UNCHANGED <<refs, deleting, reached, renamed>>

DeleteDevice(n, d) ==
  /\ n \in DOMAIN ifaces
  /\ ifaces' = [ifaces EXCEPT ![n] = IF d \in Device THEN Removed(@, d) ELSE @]
  /\ wifi' = [i \in DOMAIN wifi |->
                IF d \in Netid /\ wifi[i].sid \in WifiSidByNetid(d)
                  THEN [wifi[i] EXCEPT !.networks = @ \ {n}] ELSE wifi[i]]
  /\ UNCHANGED <<refs, deleting, reached, renamed>>

AddWifiNetwork(sid, r) ==
  /\ \A i \in DOMAIN wifi : wifi[i].sid # sid
  /\ wifi' = Append(wifi, [sid |-> sid, radio |-> r, networks |-> {}])
  /\ UNCHANGED <<ifaces, refs, deleting, reached, renamed>>

\* The places of those behind it change.
DeleteWifiNetwork(netid) ==
  /\ \E sid \in WifiSidByNetid(netid) : wifi' = Seqs!RemoveAt(wifi, Place(sid))
  /\ UNCHANGED <<ifaces, refs, deleting, reached, renamed>>

\* The network option of wireless.js: the interfaces that contain the network
\* and are not among ns lose it, the others get it, and are added if they must.
SetNetworks(sid, ns) ==
  /\ \E i \in DOMAIN wifi : wifi[i].sid = sid
  /\ LET netid == CHOOSE id \in WifiNetidBySid(sid) : TRUE
         old == {n \in DOMAIN ifaces : ContainsDevice(n, netid)}
     IN wifi' = [wifi EXCEPT ![Place(sid)].networks = (@ \ (old \ ns)) \cup (ns \ old)]
  /\ ifaces' = [n \in DOMAIN ifaces \cup ns |-> IF n \in DOMAIN ifaces THEN ifaces[n] ELSE <<>>]
  /\ UNCHANGED <<refs, deleting, reached, renamed>>

NetworkNext ==
  \/ \E n \in Iface : AddNetwork(n) \/ StartDelete(n) \/ DeleteNetwork(n)
  \/ \E type \in RefType, n \in Iface : AddReference(type, n)
  \/ \E old, new \in Iface : RenameNetwork(old, new)
  \/ \E n \in Iface, d \in Device : AddDevice(n, d) \/ DeleteDevice(n, d)
  \/ \E n \in Iface, netid \in Netid : AddDevice(n, netid) \/ DeleteDevice(n, netid)
  \/ \E sid \in Wifi, r \in Radio : AddWifiNetwork(sid, r)
  \/ \E netid \in Netid : DeleteWifiNetwork(netid)
  \/ \E sid \in Wifi, ns \in SUBSET Iface : SetNetworks(sid, ns)

NetworkSpec == NetworkInit /\ [][NetworkNext]_networkVars

-----------------------------------------------------------------------------
(* Properties                                                              *)

Dangling == {r \in refs : r[2] \notin DOMAIN ifaces}

\* Nothing refers to an interface that is gone, however deletions, references
\* and renames cross, but for rules, DHCP and zones of a name that was renamed
\* away and what is in a configuration that could not be loaded.
NothingDangles ==
  /\ \A r \in Dangling : \/ r[1] \in {"rule", "dhcp", "zone"} /\ r[2] \in renamed
                         \/ r[1] \in {"dhcp", "zone"} \ reached
  /\ \A i \in DOMAIN wifi : wifi[i].networks \subseteq DOMAIN ifaces

\* The names of wireless networks by place, and sections by name, are inverse.
NetidsFit ==
  \A i \in DOMAIN wifi :
    Cardinality(WifiNetidBySid(wifi[i].sid)) = 1
      /\ \A netid \in WifiNetidBySid(wifi[i].sid) : WifiSidByNetid(netid) = {wifi[i].sid}

-----------------------------------------------------------------------------
(* Why                                                                     *)

\* Interfaces and references by their names, and wireless networks in order.
NamesFit ==
  /\ DOMAIN ifaces \subseteq Iface /\ refs \subseteq RefType \X Iface
  /\ wifi \in Seq([sid : Wifi, radio : Radio, networks : SUBSET Iface])
  /\ deleting \subseteq Iface

\* No section is there twice.
SidsDiffer == \A i, j \in DOMAIN wifi : wifi[i].sid = wifi[j].sid => i = j

ReferencesFit == NamesFit /\ SidsDiffer /\ NothingDangles

=============================================================================
