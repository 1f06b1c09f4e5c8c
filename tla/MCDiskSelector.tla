--------------------------- MODULE MCDiskSelector ---------------------------
(* The four places of a PC, one of them a removable drive.                 *)
EXTENDS DiskSelector

At(bus, unit) == [io_base |-> bus, drive |-> unit]
MCProbes      == <<At("primary", 0), At("primary", 1),
                   At("secondary", 0), At("secondary", 1)>>
MCRemovable   == {At("primary", 1)}
=============================================================================
