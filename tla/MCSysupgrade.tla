---------------------------- MODULE MCSysupgrade ----------------------------
(* Instances of Sysupgrade for TLC.                                        *)
EXTENDS Sysupgrade, MCImages

MCAbout == [i \in Image |-> Catalogue[i]]

Upload ==
  [source |-> "upload", n |-> FALSE, force |-> FALSE, test |-> FALSE,
   f |-> FALSE, ignoreMinor |-> FALSE]

Anything ==
  {[Upload EXCEPT !.source = "url"],
   [Upload EXCEPT !.source = "copy"],
   [Upload EXCEPT !.source = "url", !.test = TRUE],
   [Upload EXCEPT !.n = TRUE],
   [Upload EXCEPT !.n = TRUE, !.force = TRUE],
   [Upload EXCEPT !.f = TRUE],
   [Upload EXCEPT !.f = TRUE, !.n = TRUE],
   [Upload EXCEPT !.f = TRUE, !.test = TRUE],
   [Upload EXCEPT !.ignoreMinor = TRUE]}

\* Command lines that share /tmp/sysupgrade.img.
Meddling == {[Upload EXCEPT !.source = "url"],
             [Upload EXCEPT !.source = "url", !.n = TRUE]}

=============================================================================
