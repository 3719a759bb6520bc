---------------------------- MODULE DsoDevicesMC ----------------------------
\* A RAID5 set of three disks and a mirror of two, and one spare.
EXTENDS DsoDevices, TLC

CONSTANTS r5, r1, d1, d2, d3, d4, d5, d6

MCKind      == (r5 :> "raid45") @@ (r1 :> "mirror")
MCInitially == (r5 :> <<d4, d1, d2>>) @@ (r1 :> <<d5, d3>>)
MCByName    == <<d1, d2, d3, d4, d5, d6>>
=============================================================================
