---------------------------- MODULE ActivationMC ----------------------------
\* One isw group with a RAID5 volume and a RAID10 volume of two mirrors.
EXTENDS Activation

MCSets   == {"group", "raid5", "raid10", "mirror1", "mirror2"}
MCTops   == {"group"}
MCGroups == {"group"}
MCSub    == [s \in MCSets |-> CASE s = "group"  -> <<"raid5", "raid10">>
                                [] s = "raid10" -> <<"mirror1", "mirror2">>
                                [] OTHER        -> << >>]
MCRaid45  == {"raid5"}
MCRaid0   == {"raid10"}
MCHandled == MCSets
=============================================================================
