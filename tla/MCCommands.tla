------------------------------- MODULE MCCommands -------------------------------
(* Command lines and surroundings for the commands of src/qdl.c. *)
EXTENDS Commands

Part(label) == [label |-> label, active |-> FALSE]
Boot(label) == [label |-> label, active |-> TRUE]
Lun(kind, parts) == [kind |-> kind, parts |-> parts]

Single == << Lun("gpt", << Part("a"), Boot("boot_b") >>) >>
Double == << Lun("gpt", << Part("a") >>), Lun("blank", << >>),
             Lun("gpt", << Part("b"), Part("a") >>) >>
Broken == << Lun("gpt", << Part("a") >>), Lun("invalid", << Part("b") >>) >>
Twice == << Lun("gpt", << Part("b"), Part("a"), Part("a") >>) >>
NandDisk == << Lun("gpt", << Part("a"), Part("b"), Part("a") >>) >>

Base ==
    [cmd |-> "", storage |-> "emmc", link |-> "usb", bus |-> "edl", other |-> FALSE,
     programmer |-> TRUE, labels |-> << >>, disk |-> Single, docs |-> << >>,
     xml |-> FALSE, raw |-> FALSE, mode |-> "reset", image |-> "ok",
     erase_all |-> FALSE, firmware |-> FALSE, allow_missing |-> FALSE,
     allow_fusing |-> FALSE, skip_md5 |-> FALSE, finalize |-> FALSE]
Of(cmd) == [Base EXCEPT !.cmd = cmd]
On(disk, c) == [c EXCEPT !.disk = disk]
OnNand(c) == [c EXCEPT !.disk = NandDisk, !.storage = "nand"]
Labels(cmd, labels) == [Of(cmd) EXCEPT !.labels = labels]

\* The ways to the modem.
Reached ==
    {[Of("storageinfo") EXCEPT !.bus = at, !.other = odd] :
        at \in {"off", "diag", "edl"}, odd \in BOOLEAN}
    \cup {[Of("storageinfo") EXCEPT !.link = link, !.bus = at] :
            link \in {"mhi", "com"}, at \in {"off", "diag", "edl"}}
    \cup {[Of(cmd) EXCEPT !.bus = at] :
            cmd \in {"diag2edl"}, at \in {"off", "diag"}}
    \cup {Of("ramdump"), [Of("reset") EXCEPT !.programmer = FALSE]}

Plain ==
    {[Of("reset") EXCEPT !.mode = mode] : mode \in {"reset", "edl"}}
    \cup {Of("setslot"), Of("getslot"), On(Double, Of("getslot")), OnNand(Of("getslot"))}
    \cup {On(disk, Of("partinfo")) : disk \in {Double, Broken}}
    \cup {OnNand(Of("partinfo")), [OnNand(Of("partinfo")) EXCEPT !.disk[1].kind = "blank"], On(Double, [Of("printgpt") EXCEPT !.xml = TRUE])}

Reading ==
    {Labels("read", << "a" >>), On(Double, Labels("read", << "b", "a" >>)),
     On(Broken, Labels("read", << "a" >>)),
     OnNand(Labels("read", << "a", "b" >>)), OnNand(Labels("read", << "a" >>)), On(Double, Of("readall")),
     OnNand(Of("readall")), On(Double, Of("dump")),
     [OnNand(Of("dump")) EXCEPT !.disk = << Lun("gpt", << Part("a") >>) >>]}

Changing ==
    {On(Double, Labels("erase", << "a", "b" >>)), [Of("erase") EXCEPT !.raw = TRUE],
     On(Broken, Labels("erase", << "b", "a" >>)),
     OnNand(Labels("erase", << "a" >>)),
     On(Twice, Labels("write", << "a" >>)), On(Twice, Labels("erase", << "b", "a" >>)),
     Labels("write", << "a" >>), On(Double, Labels("write", << "a" >>)),
     [Labels("write", << "a" >>) EXCEPT !.image = "missing"],
     OnNand(Labels("write", << "a" >>)), On(Double, Of("eraseall")), OnNand(Of("eraseall"))}
-----------------------------------------------------------------------------
(* The documents of a flash. *)
Tag(kind, part, label) ==
    [kind |-> kind, part |-> part, label |-> label, gpt |-> "", file |-> "ok",
     sparse |-> "no", md5 |-> FALSE, bad |-> FALSE, vendor |-> FALSE, live |-> FALSE]
Prog(part, label) == Tag("program", part, label)
Doc(type, tags) == [type |-> type, tags |-> tags, lock |-> FALSE]
Command(kind, label) == Doc("command", << [Tag(kind, << >>, "file") EXCEPT !.gpt = label] >>)
A == << 1, 1 >>
B == << 1, 2 >>

Reads == Doc("read", << Tag("read", A, "a") >>)
Erases == Doc("program", << Tag("erase", A, ""),
                            [Tag("erase", B, "") EXCEPT !.vendor = TRUE],
                            [Prog(A, "xbl_a") EXCEPT !.md5 = TRUE] >>)
Sparse == Doc("program", << [Prog(A, "a") EXCEPT !.sparse = "yes"], Prog(B, "sbl1") >>)
Patches == Doc("patch", << Tag("patch", B, ""), [Tag("patch", A, "") EXCEPT !.file = "altered"] >>)
OneProg(tag) == << Doc("program", << tag >>) >>
Ufs(tags) == Doc("ufs", tags)
GoodUfs == Ufs(<< "body", "common", "body", "epilogue" >>)

FlashOf(dd) == [Of("flash") EXCEPT !.docs = dd]
Flashing ==
    {FlashOf(<< Patches, Erases, Reads >>),
     [FlashOf(<< Patches, Erases, Reads >>) EXCEPT !.firmware = TRUE],
     [FlashOf(<< Sparse, Patches, Reads >>) EXCEPT !.erase_all = TRUE],
     [FlashOf(<< Sparse, Reads >>) EXCEPT !.erase_all = TRUE, !.firmware = TRUE],
     FlashOf(<< Command("read", "a"), Command("program", "boot_b") >>),
     FlashOf(<< Command("program", "c") >>),
     FlashOf(<< Doc("unknown", << >>) >>),
     FlashOf(<< Doc("command", << [Tag("read", A, "") EXCEPT !.bad = TRUE] >>) >>),
     FlashOf(<< Doc("patch", << [Tag("patch", B, "") EXCEPT !.bad = TRUE] >>) >>),
     FlashOf(OneProg([Prog(A, "a") EXCEPT !.file = "altered", !.md5 = TRUE])),
     [FlashOf(OneProg([Prog(A, "a") EXCEPT !.file = "altered", !.md5 = TRUE]))
        EXCEPT !.skip_md5 = TRUE],
     FlashOf(OneProg([Prog(A, "a") EXCEPT !.file = "missing"])),
     [FlashOf(OneProg([Prog(A, "a") EXCEPT !.file = "missing"])) EXCEPT !.allow_missing = TRUE],
     FlashOf(OneProg([Prog(A, "a") EXCEPT !.sparse = "broken"])),
     FlashOf(OneProg([Prog(A, "a") EXCEPT !.sparse = "typo"])),
     [FlashOf(OneProg([Prog(A, "a") EXCEPT !.sparse = "typo"])) EXCEPT !.allow_fusing = TRUE],
     FlashOf(<< Doc("program", << [Prog(A, "a") EXCEPT !.sparse = "typo"], Prog(B, "b") >>) >>),
     [FlashOf(OneProg([Prog(A, "a") EXCEPT !.sparse = "typo"]))
        EXCEPT !.allow_fusing = TRUE, !.skip_md5 = TRUE],
     [FlashOf(<< Doc("program", << Prog(A, "a"), Prog(B, "secdata") >>) >>)
        EXCEPT !.firmware = TRUE],
     FlashOf(OneProg(Prog(B, "secdata"))),
     [FlashOf(OneProg(Prog(B, "secdata"))) EXCEPT !.allow_fusing = TRUE],
     [FlashOf(<< Erases >>) EXCEPT !.link = "mhi", !.bus = "diag"],
     [FlashOf(<< GoodUfs >>) EXCEPT !.storage = "ufs"],
     [FlashOf(<< GoodUfs, GoodUfs >>) EXCEPT !.storage = "ufs"],
     [FlashOf(<< GoodUfs, Reads, Erases >>) EXCEPT !.storage = "ufs"],
     [FlashOf(<< GoodUfs >>) EXCEPT !.storage = "ufs", !.finalize = TRUE],
     [FlashOf(<< Ufs(<< "common", "epilogue" >>) >>) EXCEPT !.storage = "ufs"],
     FlashOf(<< GoodUfs >>)}

\* Two LUNs have a partition of the name that is to be erased.
Ambiguous == {On(Double, Labels("erase", << "a" >>))}

\* An entry for secdata without an image before one with an image.
Behind ==
    {[FlashOf(<< Doc("program", << [Prog(A, "secdata") EXCEPT !.file = "missing"],
                                   Prog(B, "secdata") >>) >>) EXCEPT !.allow_missing = TRUE]}

\* Labels that are not there.
Missing ==
    {Labels(cmd, labels) : cmd \in {"read", "erase"}, labels \in {<< "c" >>, << "c", "a" >>}}
    \cup {OnNand(Labels(cmd, labels)) :
             cmd \in {"read", "erase"}, labels \in {<< "c" >>, << "c", "a" >>}}
    \cup {Labels("write", << "c" >>), OnNand(Labels("write", << "c" >>))}

AllSetups == Reached \cup Plain \cup Reading \cup Changing \cup Missing \cup Flashing
=============================================================================
