---------------------------- MODULE IswRebuildMC ----------------------------
\* A group of two mirrors over the disks a and b, a spare s and a new disk n.
EXTENDS IswRebuild

CONSTANTS a, b, s, n

MCOriginal == <<a, b>>
=============================================================================
