----------------------------- MODULE FirewallZones -----------------------------
(***************************************************************************)
(* firewall.js, and the zone dialog of zones.js that is built on it: zones *)
(* of the firewall, the networks in them, and the rules between them.      *)
(*                                                                         *)
(* A zone is known by its name, of which there may be two, or none.  What  *)
(* the dialog saves is written option by option; the methods of            *)
(* firewall.js are promises, so what an option reads while it is written   *)
(* is read before what an earlier option has asked for is done.  Nothing   *)
(* but these methods runs in between: firewall is loaded, and a promise    *)
(* that is settled lets nobody in.                                         *)
(*                                                                         *)
(* Simplifications.  Policies and other options are left out.  The id of a *)
(* section is not the name of a zone.                                      *)
(***************************************************************************)
EXTENDS Naturals, Sequences, FiniteSets

Seqs == INSTANCE SequencesExt

CONSTANTS
  ZoneName,  \* names of zones
  Network,   \* networks
  MaxZones,  \* bound on the zones
  ZonesThere, \* zones at the start
  RulesThere  \* rules at the start

VARIABLES
  zones,    \* sections of type zone: their names and networks
  rules,    \* sections of type rule, redirect and forwarding
  networks, \* interfaces in the configuration network
  loaded    \* whether the configuration firewall could be loaded

zoneVars == <<zones, rules, networks, loaded>>

None == "none"

Zone == [name : ZoneName \cup {None}, networks : SUBSET Network]

Rule == [type : {"rule", "forwarding"}, src : ZoneName \cup {None}, dest : ZoneName \cup {None}]

ZoneTypeOK ==
  /\ zones \in Seq(Zone) /\ rules \subseteq Rule
  /\ networks \subseteq Network /\ loaded \in BOOLEAN

ZoneInit ==
  /\ zones = ZonesThere /\ rules = RulesThere
  /\ networks = UNION {ZonesThere[i].networks : i \in DOMAIN ZonesThere}
  /\ loaded \in BOOLEAN

-----------------------------------------------------------------------------

\* lookupZone: the first zone of that name, as a set of at most one place.
LookupZone(zs, name) ==
  {i \in DOMAIN zs : zs[i].name = name /\ \A j \in DOMAIN zs : zs[j].name = name => i <= j}

Forwarding(src, dest) == [type |-> "forwarding", src |-> src, dest |-> dest]

\* addForwardingTo and addForwardingFrom, of a zone to itself or twice: none.
AddForwarding(rs, src, dest) == IF src = dest THEN rs ELSE rs \cup {Forwarding(src, dest)}

ForwardingsBy(rs, what, name) ==
  {r \in rs : /\ r.type = "forwarding" /\ r.src # None /\ r.dest # None
              /\ name = IF what = "src" THEN r.src ELSE r.dest}

\* The dialog leaves the forwardings to the zones in out, and from those in in.
WriteForwards(rs, name, out, in) ==
  LET kept == (rs \ {r \in ForwardingsBy(rs, "src", name) : r.dest \notin out})
      both == kept \cup {Forwarding(name, d) : d \in out \ {name}}
      left == both \ {r \in ForwardingsBy(both, "dest", name) : r.src \notin in}
  IN left \cup {Forwarding(s, name) : s \in in \ {name}}

IsUsed(zs, name) == \E i \in DOMAIN zs : zs[i].name = name

\* renameZone: every zone of that name, and the rules.  A name in use is not
\* given again, and nobody is told.
RenameZones(zs, old, new) ==
  IF IsUsed(zs, new) THEN zs
  ELSE [i \in DOMAIN zs |-> IF zs[i].name = old THEN [zs[i] EXCEPT !.name = new] ELSE zs[i]]

RenameInRules(zs, rs, old, new) ==
  IF IsUsed(zs, new) \/ ~IsUsed(zs, old) THEN rs
  ELSE LET Renamed(name) == IF name = old THEN new ELSE name
       IN {[r EXCEPT !.src = Renamed(@), !.dest = Renamed(@)] : r \in rs}

\* The networks option looks the zone up by the name it read when it was
\* written; without a zone of that name it does nothing.
WriteNetworks(zs, name, nets) ==
  [i \in DOMAIN zs |-> IF i \in LookupZone(zs, name) THEN [zs[i] EXCEPT !.networks = nets] ELSE zs[i]]

\* The dialog of the last zone of zs, or of zone z, is saved.  A zone without a
\* name gets it at once, one that has a name only after the other options have
\* been written.
Saved(zs, z, name, nets, out, in) ==
  LET read == IF zs[z].name = None THEN name ELSE zs[z].name
      named == [zs EXCEPT ![z].name = read]
      renamed == RenameZones(named, read, name)
  IN [zones |-> IF nets = zs[z].networks THEN renamed ELSE WriteNetworks(renamed, read, nets),
      rules |-> RenameInRules(named, WriteForwards(rules, read, out, in), read, name)]

Zoned == {zones[i].name : i \in DOMAIN zones} \ {None}

\* The name is not compared with those of other zones.
SaveZone(z, name, nets, out, in) ==
  /\ loaded /\ out \cup in \subseteq Zoned
  /\ LET saved == Saved(zones, z, name, nets, out, in)
     IN zones' = saved.zones /\ rules' = saved.rules
  /\ networks' = networks \cup nets
  /\ UNCHANGED loaded

NewZone == [name |-> None, networks |-> {}]

AddZone(name, nets) ==
  /\ loaded /\ Len(zones) < MaxZones
  /\ LET saved == Saved(Append(zones, NewZone), Len(zones) + 1, name, nets, {}, {})
     IN zones' = saved.zones /\ rules' = saved.rules
  /\ networks' = networks \cup nets
  /\ UNCHANGED loaded

\* Mutant of RulesWithout: the destination is not looked at.
RulesWithoutSource(z) == {r \in rules : zones[z].name # r.src}

\* deleteZone by the id of a section: what names the zone goes with it.  For a
\* zone without a name these are the rules without a source or destination.
RulesWithout(z) == {r \in rules : zones[z].name \notin {r.src, r.dest}}

DeleteZone(z) ==
  /\ loaded
  /\ zones' = Seqs!RemoveAt(zones, z) /\ rules' = RulesWithout(z)
  /\ UNCHANGED <<networks, loaded>>

Without(zs, net) == [i \in DOMAIN zs |-> [zs[i] EXCEPT !.networks = @ \ {net}]]

\* deleteNetwork, when the interface is deleted.
DeleteNetwork(net) ==
  /\ net \in networks
  /\ networks' = networks \ {net}
  /\ zones' = (IF loaded THEN Without(zones, net) ELSE zones)
  /\ UNCHANGED <<rules, loaded>>

\* Joining a wireless network (wireless.js): its interface is taken out of every
\* zone and put into the chosen one, which may be new.  Without the
\* configuration nothing is found, and the zone is added to what is there.
JoinNetwork(net, name) ==
  /\ networks' = networks \cup {net}
  /\ LET cleared == IF loaded THEN Without(zones, net) ELSE zones
         found == IF loaded THEN LookupZone(cleared, name) ELSE {}
     IN IF found # {}
          THEN zones' = [i \in DOMAIN cleared |->
                           IF i \in found THEN [cleared[i] EXCEPT !.networks = @ \cup {net}] ELSE cleared[i]]
          ELSE Len(zones) < MaxZones
               /\ zones' = Append(cleared, [name |-> name, networks |-> {net}])
  /\ UNCHANGED <<rules, loaded>>

ZoneNext ==
  \/ \E z \in DOMAIN zones, name \in ZoneName, nets \in SUBSET Network, out, in \in SUBSET Zoned :
       SaveZone(z, name, nets, out, in)
  \/ \E name \in ZoneName, nets \in SUBSET Network : AddZone(name, nets)
  \/ \E z \in DOMAIN zones : DeleteZone(z)
  \/ \E net \in Network : DeleteNetwork(net)
  \/ \E net \in Network, name \in ZoneName : JoinNetwork(net, name)

ZoneSpec == ZoneInit /\ [][ZoneNext]_zoneVars

-----------------------------------------------------------------------------
(* Properties                                                              *)

\* Rules are only ever about zones there are: whatever is renamed, deleted or
\* saved, no rule is left with the name of a zone that is gone.
RulesHaveZones == \A r \in rules : {r.src, r.dest} \subseteq {zones[i].name : i \in DOMAIN zones} \cup {None}

Twins(z) == \E y \in DOMAIN zones \ {z} : zones[y].name = zones[z].name

\* The dialog does what it says unless it renames its zone or the zone has a
\* namesake: the zone gets the networks chosen, and the other zones keep theirs.
DialogIsObeyed ==
  \A z \in DOMAIN zones, nets \in SUBSET Network :
    LET saved == Saved(zones, z, zones[z].name, nets, {}, {}).zones
    IN ~Twins(z) => /\ saved[z].networks = nets
                    /\ \A y \in DOMAIN zones \ {z} : saved[y] = zones[y]

-----------------------------------------------------------------------------
(* Why                                                                     *)

ZonesFit == ZoneTypeOK /\ RulesHaveZones

=============================================================================
