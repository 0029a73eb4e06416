----------------------------- MODULE MCFirehose -----------------------------
(* Instances of Firehose for TLC: a small queue of every kind of operation. *)
EXTENDS Firehose

MCOps == << Op("e1", "erase", 0, TRUE), Op("p1", "program", 2, TRUE),
            Op("p0", "program", 1, FALSE), Op("r1", "read", 2, TRUE),
            Op("x1", "patch", 0, TRUE), Op("x0", "patch", 0, FALSE) >>
MCEraseAllOps == << Op("ea1", "erase", 0, TRUE), Op("ea2", "erase", 0, TRUE) >>
MCProbes == << Op("s512", "probe", 1, TRUE), Op("s4096", "probe", 1, TRUE) >>

Usb == [serial |-> FALSE, erase_all |-> FALSE, renegotiates |-> TRUE,
        slow |-> {}, faults |-> {"nak", "link"}]
ComPort == [Usb EXCEPT !.serial = TRUE, !.renegotiates = FALSE]
WithEraseAll == [Usb EXCEPT !.erase_all = TRUE, !.renegotiates = FALSE]

\* A programmer that is in time, and a link and images that may fail.
InTime == {Usb, ComPort, WithEraseAll}

\* Everything may be slow and everything may fail.
Worst == { [Usb EXCEPT !.slow = Kinds \cup {"data"}, !.renegotiates = FALSE,
                       !.faults = {"nak", "file", "link"}] }

SlowConfigure == { [Usb EXCEPT !.slow = {"configure"}, !.faults = {}] }
UnreadableImage == { [Usb EXCEPT !.faults = {"file"}, !.renegotiates = FALSE] }
=============================================================================
