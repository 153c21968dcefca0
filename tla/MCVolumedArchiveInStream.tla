----------------------- MODULE MCVolumedArchiveInStream -----------------------
EXTENDS VolumedArchiveInStream, TLC

ThreeVolumes == <<0, 2, 3, 6>>
AllOffsets == (-6)..8
=============================================================================
