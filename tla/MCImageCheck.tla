---------------------------- MODULE MCImageCheck ----------------------------
(* Instances of ImageCheck for TLC.                                        *)
EXTENDS ImageCheck, MCImages

MCAbout == [i \in Image |-> Catalogue[i]]

=============================================================================
