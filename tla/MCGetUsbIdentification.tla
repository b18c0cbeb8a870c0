----------------------- MODULE MCGetUsbIdentification -----------------------
(***************************************************************************)
(* The drive of a stick without a serial number: its registry value holds  *)
(* an instance that Windows made up.                                       *)
(***************************************************************************)
EXTENDS GetUsbIdentification, UsbWorlds

MC_NoSerial == {WorldWithoutSerial}
=============================================================================
