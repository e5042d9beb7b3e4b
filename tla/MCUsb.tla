------------------------------- MODULE MCUsb -------------------------------
(* Values for the constants of UsbDisk, for model checking.                *)
EXTENDS UsbDisk

CONSTANTS Stick, FourK

MCDrives == {Stick, FourK}
MCSectors == {0, 1}
MCSectorCount == [d \in Drives |-> 1]
MCOdd == {FourK}

=============================================================================
