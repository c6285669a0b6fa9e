---------------------------- MODULE MCDeviceHigh ----------------------------
(* Instances of DeviceHigh for TLC. *)
EXTENDS DeviceHigh

MCExtents == {<<12, 6>>, <<19, 5>>}

MCLines ==
    {DeviceLine,
     [DeviceLine EXCEPT !.size = 4],
     [DeviceLine EXCEPT !.explicit = TRUE, !.mask = {1, 2}, !.shrink = TRUE,
                        !.minimum = <<3, 4>>, !.size = 4],
     [DeviceLine EXCEPT !.explicit = TRUE, !.mask = {2}, !.shrink = TRUE,
                        !.minimum = <<0, 3>>, !.size = 3]}

Char == [units |-> 0, block |-> FALSE, badBpb |-> FALSE]
Block == [units |-> 1, block |-> TRUE, badBpb |-> FALSE]
NoUnits == [Block EXCEPT !.units = 0]
BigSector == [Block EXCEPT !.badBpb = TRUE]

File(image, keep, devices) ==
    [found |-> TRUE, image |-> image, keep |-> keep, devices |-> devices]

(* Drivers whose resident part and DPBs fit where their image was, and     *)
(* whose devices fail, if at all, at the first one.  The two that do not   *)
(* are too large to be loaded high.                                        *)
MCDrivers ==
    {NoDriver, File(1, 1, <<Char>>), File(2, 1, <<Block>>),
     File(2, 2, <<Char, Char>>), File(2, 0, <<Char>>), File(4, 0, <<NoUnits>>),
     File(5, 1, <<BigSector>>), File(5, 5, <<Block>>)}

ASSUME MCDriversFit == Drivers = MCDrivers => DriversFit

(* A file of two devices, the second of which finds no unit. *)
MCSecondFails == {File(2, 1, <<Char, NoUnits>>)}

(* A driver that keeps its whole image and then gets a DPB. *)
MCKeepsAll == {File(2, 2, <<Block>>)}
=============================================================================
