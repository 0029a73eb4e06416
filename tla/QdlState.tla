------------------------------- MODULE QdlState -------------------------------
(***************************************************************************)
(* What the parts of one run of the qfenix program share (src/qdl.c): the  *)
(* command line, the point the command has reached, its return value, and  *)
(* the number of failures that still may happen.                           *)
(***************************************************************************)
EXTENDS Integers, FiniteSets, Choices

CONSTANTS
    Setups,         \* the command lines and surroundings of the instance
    MaxFaults       \* bound: failures of the link, the device or a file

(* The disk that a command finds, and the documents it is given: a tag of  *)
(* the UFS provisioning is its name only; the other fields of the disk and *)
(* of a tag are told in Partitions and ImageLists.                         *)
Luns == [kind : {"gpt", "blank", "invalid"},
        parts : Seq([label : STRING, active : BOOLEAN])]
DocTags == [kind : {"program", "erase", "patch", "read"}, part : Seq(Nat), label : STRING,
        gpt : STRING, file : {"ok", "missing", "altered"},
        sparse : {"no", "yes", "typo", "broken"}, md5 : BOOLEAN, bad : BOOLEAN,
        vendor : BOOLEAN, live : BOOLEAN]
Documents ==
    [type : {"read", "program", "patch", "command", "unknown"}, tags : Seq(DocTags), lock : BOOLEAN]
    \cup [type : {"ufs"}, tags : Seq({"common", "body", "epilogue"}), lock : BOOLEAN]

\* The tags a document of a type may have.  A command line adds one tag: only
\* it leaves the place of a partition to the GPT, and its image is never sparse
\* and not looked at before it is programmed (program_cmd_add()).
KindsIn(type) ==
    CASE type = "program" -> {"program", "erase"}
      [] type = "command" -> {"program", "read"}
      [] OTHER            -> {type}
TagFits(type, tag) ==
    /\ tag.kind \in KindsIn(type)
    /\ tag.gpt # "" => type = "command" /\ tag.part = << >>
    /\ tag.vendor => tag.kind = "erase"
    /\ tag.file = "missing" => tag.kind = "program"
    /\ type = "command" => tag.sparse = "no" /\ tag.file # "missing"

Subcommands ==
    {"printgpt", "storageinfo", "partinfo", "reset", "getslot", "setslot", "read", "readall",
     "dump", "erase", "write", "eraseall", "flash", "ramdump", "diag2edl"}

\* A memory dump does not go over MHI, diag2edl only looks for a USB port, and
\* only a flash takes documents and --erase-all.
SetupFits(s) ==
    /\ s.cmd \in Subcommands /\ s.mode \in STRING
    /\ s.cmd = "ramdump" => s.link # "mhi"
    /\ s.cmd = "diag2edl" => s.link = "usb"
    /\ s.labels \in Seq(STRING) /\ s.disk \in Seq(Luns) /\ s.docs \in Seq(Documents)
    /\ s.cmd = "write" => s.labels # << >>
    /\ s.cmd # "flash" => s.docs = << >> /\ ~s.erase_all
    /\ IF s.storage = "nand" THEN Len(s.disk) = 1
       ELSE \A l \in 1..Len(s.disk) : s.disk[l].kind = "blank" => s.disk[l].parts = << >>
    /\ \A d \in 1..Len(s.docs) :
          /\ s.docs[d].type = "command" => Len(s.docs[d].tags) = 1
          /\ s.docs[d].type # "ufs" =>
                \A n \in 1..Len(s.docs[d].tags) : TagFits(s.docs[d].type, s.docs[d].tags[n])

ASSUME SetupsAssumption == \A s \in Setups : SetupFits(s)

VARIABLES
    setup,          \* the command line and what it finds, fixed at the start
    pc,             \* where the command is
    ret,            \* the `ret` that becomes the exit status
    faults,         \* failures left
    unsaid          \* the ways in which a part of the work was left out that
                    \* no return value tells of

qdlVars == << setup, pc, ret, faults, unsaid >>

Fault == faults > 0 /\ faults' = faults - 1
NoFault == UNCHANGED faults

\* The step goes on, or the command ends with a failure.
Goto(where) == pc' = where /\ UNCHANGED << ret, unsaid >>
Fails(where) == ret' = -1 /\ pc' = where /\ UNCHANGED unsaid

\* The subcommands and main() return `!!ret`.
ExitStatus == IF ret = 0 THEN 0 ELSE 1
=============================================================================
