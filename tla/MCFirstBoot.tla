---------------------------- MODULE MCFirstBoot ----------------------------
(* Instances of FirstBoot for TLC.                                         *)
EXTENDS FirstBoot, Sequences

\* One script of each kind; a script of the user's fails.
MCOrder ==
  <<"00_uhttpd_ubus", "01_custom", "10_disable_services", "15_odhcpd">>

MCScript == {MCOrder[i] : i \in DOMAIN MCOrder}

MCPosition == [s \in MCScript |-> CHOOSE i \in DOMAIN MCOrder : MCOrder[i] = s]

=============================================================================
