------------------------------ MODULE MCSahara ------------------------------
(* Instances of Sahara for TLC: every device asks for two units of an image. *)
EXTENDS Sahara

Asked == [i \in {7, 13, 21, 34} |-> 2]

Units(ids) == [i \in ids |-> 2]
Boots(needs) == [mode |-> "image", needs |-> needs]
Crashed == [mode |-> "dump", needs |-> << >>]
Region(size, skip) == [size |-> size, skip |-> skip]

\* Two images over USB with a device in time, and a dump of one region.
Usb == [images |-> Units({13, 21}), ramdump |-> FALSE,
        device |-> Boots(<<21, 13>>), regions |-> << >>, serial |-> FALSE,
        slow |-> FALSE, lost |-> FALSE, pending |-> FALSE, faults |-> {}]
Dump == [Usb EXCEPT !.images = Units({}), !.ramdump = TRUE, !.device = Crashed,
                    !.regions = << Region(1, TRUE), Region(3, FALSE) >>]

\* A COM port, whatever device answers on it: image 34 is cut short and
\* image 7 not given.
ComPort(d) ==
    [Usb EXCEPT !.images = [i \in {13, 21, 34} |-> IF i = 34 THEN 1 ELSE 2],
                !.device = d, !.regions = Dump.regions, !.serial = TRUE,
                !.lost = TRUE, !.faults = {"link", "image"}]
Quirk == [Usb EXCEPT !.images = Units({13}), !.device = Boots(<<13>>),
                     !.lost = TRUE, !.pending = TRUE,
                     !.faults = {"link", "image"}]

MCSetups ==
    { ComPort(d) : d \in { Boots(<<21, 13>>), Boots(<<13>>), Boots(<<34>>),
                           Boots(<<21, 7>>), Crashed } }
    \cup { [ComPort(d) EXCEPT !.faults = {"link"}] :
             d \in { Boots(<<21, 13>>), Boots(<<13>>) } }
    \cup { Quirk, [Dump EXCEPT !.faults = {"link"}] }
    \cup { [Dump EXCEPT !.device = d, !.serial = TRUE, !.lost = TRUE,
                        !.faults = {"link", "disk"}] :
              d \in { Boots(<<13>>), Crashed } }

TwoRegions ==
    { [Dump EXCEPT !.regions = << Region(1, FALSE), Region(2, FALSE) >>] }
ImageMissing == { [Usb EXCEPT !.images = Units({13})] }
=============================================================================
