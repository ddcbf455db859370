------------------------------ MODULE MCDisks ------------------------------
EXTENDS Disks
\* Empty, a filesystem in a partition, and another system's pool in a partition and on the bare device.
MCCarried == {On("blank", "blank"), On("table", "fs"), On("table", "tank"), On("tank", "blank")}
=============================================================================
