------------------------------ MODULE MCImages ------------------------------
(* The images and the device that the instances of TLC use.                *)
EXTENDS FirmwareImage

MCDeviceCompat == <<1, 0>>

MCMtdSize == [kernel |-> 8, dtb |-> 1, root |-> 241]

\* The release pack_sysupgrade.sh builds.
Release ==
  [metadata |-> "present",
   devices |-> [l \in DeviceList |->
                  IF l = "supported_devices" THEN {"zte,133"} ELSE {}],
   compat |-> <<1, 0>>, members |-> Member, control |-> "zte,133",
   sums |-> TRUE,
   size |-> [m \in Payload |-> IF m = "board.dtb" THEN 1
                               ELSE IF m = "uImage" THEN 8 ELSE 241],
   build |-> 0]

NewRelease == [Release EXCEPT !.build = 1]

\* Its payload does not match its checksums.
Corrupt == [Release EXCEPT !.build = 2, !.sums = FALSE]

\* It has no device tree.
NoDtb == [Release EXCEPT !.build = 3, !.members = @ \ {"board.dtb"}]

\* Its kernel does not fit.
BigKernel == [Release EXCEPT !.build = 4, !.size["uImage"] = 9]

\* Made for another minor configuration version of the same device.
MinorBump ==
  [Release EXCEPT !.build = 5, !.compat = <<1, 1>>,
                  !.devices["new_supported_devices"] = {"zte,133"}]

\* Made for another board.
Foreign ==
  [Release EXCEPT !.build = 6, !.control = "other",
                  !.devices["supported_devices"] = {"other"}]

\* The tar archive without the metadata fwtool appends.
NoMetadata == [Release EXCEPT !.build = 7, !.metadata = "absent"]

Catalogue ==
  [old |-> Release, new |-> NewRelease, corrupt |-> Corrupt, nodtb |-> NoDtb,
   bigkernel |-> BigKernel, minorbump |-> MinorBump, foreign |-> Foreign,
   nometa |-> NoMetadata]

=============================================================================
