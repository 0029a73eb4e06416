------------------------------ MODULE ImageLists ------------------------------
(***************************************************************************)
(* The documents and commands of a flash session, loaded one after the     *)
(* other into the lists of programs, reads and patches (src/program.c,     *)
(* src/sparse.c, src/read.c, src/patch.c) and of the UFS provisioning      *)
(* (src/ufs.c), and what is checked before the modem is opened.            *)
(*                                                                         *)
(* The lists are one queue in the order of src/firehose_op.c.  A tag names *)
(* a partition << lun, place >>; gpt is the label of one that is to be     *)
(* found in the GPT instead.  file is "ok", "missing" or "altered" (not    *)
(* what the MD5 sum says; for a patch: one that is not for the disk).      *)
(* sparse is "no", "yes", "typo" (the attribute is set, the image is raw   *)
(* and fills the partition) or "broken".  bad: an attribute is missing;    *)
(* vendor: the erase is metadata of a vendor.                              *)
(***************************************************************************)
EXTENDS QdlState

VARIABLES
    docs,           \* what is still to be loaded
    queue,          \* the operations
    ufsdoc          \* the UFS descriptor tags, in the order they are sent

listVars == << docs, queue, ufsdoc >>

\* firmware_detect(): reads, then programs, then patches; otherwise the order
\* of the command line.
OfType(type) ==
    Chosen(setup.docs, {n \in 1..Len(setup.docs) : setup.docs[n].type = type})
LoadOrder ==
    IF setup.firmware THEN OfType("read") \o OfType("program") \o OfType("patch")
    ELSE setup.docs

ListsInit == docs = LoadOrder /\ queue = << >> /\ ufsdoc = << >>

Entry(tag, live) == [tag EXCEPT !.live = live]

\* program_load_sparse(): the chunks come without the MD5 sum of their image.
Chunks(tag) == << [tag EXCEPT !.live = TRUE, !.md5 = FALSE] >>

\* load_program_tag(): the entry of a missing file, and of an image whose
\* chunks were added, loses its file name and is not programmed.  An image
\* marked sparse by mistake is put on the list by program_load_sparse(), and
\* then loses its file name as well.
ProgramEntries(tag) ==
    IF tag.file = "missing" THEN << Entry(tag, FALSE) >>
    ELSE CASE tag.sparse = "yes"  -> Chunks(tag) \o << Entry(tag, FALSE) >>
           [] tag.sparse = "typo" -> << Entry(tag, FALSE) >>
           [] OTHER               -> << Entry(tag, TRUE) >>

ProgramRefused(tag) ==
    tag.bad \/ (tag.file = "missing" /\ ~setup.allow_missing)
            \/ (tag.file # "missing" /\ tag.sparse = "broken")

\* The erases of a vendor are metadata.
EraseEntries(tag) == IF tag.vendor THEN << >> ELSE << Entry(tag, TRUE) >>

PatchEntries(tag) == << Entry(tag, tag.file = "ok") >>

Entries(tag) ==
    CASE tag.kind = "program" -> ProgramEntries(tag)
      [] tag.kind = "erase"   -> EraseEntries(tag)
      [] tag.kind = "patch"   -> PatchEntries(tag)
      [] tag.kind = "read"    -> << Entry(tag, TRUE) >>

Refused(tag) ==
    CASE tag.kind = "program" -> ProgramRefused(tag)
      [] tag.kind = "erase"   -> tag.bad /\ ~tag.vendor
      [] OTHER                -> tag.bad

\* program_load() stops at the first tag it refuses; read_op_load() and
\* patch_load() skip such a tag and succeed.
Skips(doc) == doc.type \in {"read", "patch"}
DocEntries(doc) ==
    FlattenSeq([n \in 1..Len(doc.tags) |->
                   IF Refused(doc.tags[n]) THEN << >> ELSE Entries(doc.tags[n])])
SomeRefused(doc) == \E n \in 1..Len(doc.tags) : Refused(doc.tags[n])

\* What is not on the lists, or not to be programmed, and is not missed: a tag
\* that is skipped, and an image marked sparse by mistake.
Mistaken(tag) == tag.kind = "program" /\ tag.sparse = "typo" /\ tag.file # "missing"
LeavesOut(doc) ==
    \/ Skips(doc) /\ SomeRefused(doc)
    \/ doc.type = "program" /\ \E n \in 1..Len(doc.tags) : Mistaken(doc.tags[n])

\* program_cmd_add() and read_cmd_add(): a read of a place needs a length.
CommandRefused(doc) == doc.tags[1].bad

\* ufs_load(): one document, with one common tag, one epilogue and the LUNs in
\* between, whose lock agrees with --finalize-provisioning.
TagsOf(doc, ufstag) == {n \in 1..Len(doc.tags) : doc.tags[n] = ufstag}
UfsRefused(doc) ==
    \/ ufsdoc # << >> \/ setup.storage # "ufs"
    \/ Cardinality(TagsOf(doc, "common")) # 1
    \/ Cardinality(TagsOf(doc, "epilogue")) # 1
    \/ TagsOf(doc, "body") = {}
    \/ doc.lock # setup.finalize
UfsOrder(doc) ==
    << "common" >> \o Chosen(doc.tags, TagsOf(doc, "body")) \o << "epilogue" >>

\* ufs_need_provisioning()
Provisions == ufsdoc # << >>

\* qdl_flash(): any document that cannot be loaded ends the program.
DocRefused(doc) ==
    CASE doc.type = "unknown" -> TRUE
      [] doc.type = "ufs"     -> UfsRefused(doc)
      [] doc.type = "command" -> CommandRefused(doc)
      [] doc.type = "program" -> SomeRefused(doc)
      [] OTHER                -> FALSE

Programs == {n \in 1..Len(queue) : queue[n].kind \in {"program", "erase"}}

\* The program list holds an entry twice; when it is the last one it is its
\* own successor, and whoever walks the list never gets to the end.
Loops == Programs # {} /\ queue[Max(Programs)].sparse = "typo"

\* program_find_partition() takes the first of the entries with the label.
Labelled(label) == {n \in Programs : queue[n].kind = "program" /\ queue[n].label = label}

\* program_is_sec_partition_flashed()
FusesSecdata ==
    Labelled("secdata") # {} /\ queue[Min(Labelled("secdata"))].live

\* In a firmware directory it is looked at when all is loaded, on the command
\* line after each program document.
FusingChecked(doc) ==
    ~setup.allow_fusing
    /\ (IF setup.firmware THEN Len(docs) = 1 ELSE doc.type = "program")

LoadDocument ==
    /\ pc = "load" /\ docs # << >>
    /\ LET doc == Head(docs) IN
        IF DocRefused(doc)
        THEN Fails("exit") /\ UNCHANGED listVars
        ELSE /\ docs' = Tail(docs)
             /\ IF doc.type = "ufs" THEN ufsdoc' = UfsOrder(doc) /\ UNCHANGED queue
                ELSE queue' = queue \o DocEntries(doc) /\ UNCHANGED ufsdoc
             /\ pc' = (IF FusingChecked(doc) THEN "fusing" ELSE pc)
             /\ unsaid' = unsaid \cup (IF LeavesOut(doc) THEN {"tag"} ELSE {})
             /\ UNCHANGED ret
    /\ UNCHANGED << setup, faults >>

CheckFusing ==
    /\ pc = "fusing" /\ (Labelled("secdata") # {} \/ ~Loops)
    /\ IF FusesSecdata THEN Fails("exit") ELSE Goto("load")
    /\ UNCHANGED << setup, faults, listVars >>

\* Mutant: the mismatches are reported and not counted.
SomeAlteredNever == FALSE

\* program_verify_md5(): before the modem is opened.
Altered(e) == e.kind = "program" /\ e.live /\ e.md5 /\ e.file = "altered"
SomeAltered == ~setup.skip_md5 /\ \E n \in 1..Len(queue) : Altered(queue[n])

VerifyMd5(next) ==
    /\ pc = "load" /\ docs = << >> /\ (Loops => setup.skip_md5)
    /\ IF SomeAltered THEN Fails("exit") ELSE Goto(next)
    /\ UNCHANGED << setup, faults, listVars >>

\* A walk over a list that loops does not end.
Hang ==
    /\ Loops
    /\ \/ pc = "load" /\ docs = << >> /\ ~setup.skip_md5
       \/ pc = "fusing" /\ Labelled("secdata") = {}
    /\ Goto("stuck")
    /\ UNCHANGED << setup, faults, listVars >>
=============================================================================
