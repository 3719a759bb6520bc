---------------------------- MODULE IswVolumesMC ----------------------------
\* Three disks, one smaller; a pair in both orders, and all three.
EXTENDS IswVolumes

CONSTANTS a, b, c

MCSectors == [d \in Disk |-> IF d = c THEN 700001 ELSE 900000]
MCLists   == {<<a, b>>, <<b, a>>, <<c, b, a>>, <<c>>}
=============================================================================
