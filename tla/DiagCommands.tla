---------------------------- MODULE DiagCommands ----------------------------
(***************************************************************************)
(* A DIAG session of the command line and what it does to the modem:       *)
(* nvread, nvwrite and efsrm -r (src/diag.c, src/qdl.c).                   *)
(*                                                                         *)
(* efs_rm_recursive() is a stack of the directories entered, each with its *)
(* open directory and the number of the entry it is at.                    *)
(***************************************************************************)
EXTENDS DiagCalls

VARIABLES
    pc,         \* the request the session is at
    job,        \* what the session was opened for
    stack,      \* the directories entered
    exit,       \* the exit status, -1 before
    printed     \* what nvread printed, as a set of at most one record

commandVars == <<job, stack, exit, printed>>

Take(o) == link' = o.link
Go(to) == pc' = to
End(status) == pc' = "end" /\ exit' = status

\* diag_open(): whatever arrived before is drained.
CommandInit ==
    /\ pc = "spc" /\ stack = << >> /\ exit = -1 /\ printed = {}
    /\ method = "none" /\ job = setup.cmd

\* What the session is opened for.  The NV commands need no file system.
FirstRequest == IF job \in {"nvread", "nvwrite"} THEN job ELSE "hello_alt"

\* The SPC and the password are sent; the modem's opinion is ignored.
SendSpc ==
    /\ pc = "spc"
    /\ \E o \in Send("spc", Modem, Reply("spc", 2, Done)) : Take(o)
    /\ Go("password")
    /\ UNCHANGED <<method, commandVars>>

SendPassword ==
    /\ pc = "password"
    /\ \E o \in Send("password", Modem, Reply("password", 2, Done)) : Take(o)
    /\ Go(FirstRequest)
    /\ UNCHANGED <<method, commandVars>>

\* diag_efs_detect(): any answer of the class will do.
EfsDetect(m, here, otherwise) ==
    /\ pc = here
    /\ \E o \in Hello(m) :
        /\ Take(o)
        /\ IF o.answer.class = "subsys"
           THEN method' = m /\ Go("query") /\ UNCHANGED exit
           ELSE IF otherwise = "end" THEN End(1) /\ UNCHANGED method
           ELSE Go(otherwise) /\ UNCHANGED <<method, exit>>
    /\ UNCHANGED <<job, stack, printed>>
DetectAlt == EfsDetect("alt", "hello_alt", "hello_std")
DetectStd == EfsDetect("std", "hello_std", "end")

\* The query registers the client; its result is not looked at either.
EfsQuery ==
    /\ pc = "query"
    /\ \E o \in Query : Take(o)
    /\ Go(job)
    /\ UNCHANGED <<method, commandVars>>

-----------------------------------------------------------------------------
\* The item is printed under the number that was asked for; a status other
\* than NV_DONE_S is printed as well, and is no failure.
NvReadCommand ==
    /\ pc = "nvread"
    /\ \E o \in IF setup.sim THEN NvReadSub(setup.id) ELSE NvRead(setup.id) :
        /\ Take(o)
        /\ IF IsRecord(IF setup.sim THEN "subsys" ELSE "nvread", o.answer)
           THEN /\ printed' = {[id |-> setup.id, data |-> o.answer.data]}
                /\ End(0)
           ELSE End(1) /\ UNCHANGED printed
    /\ UNCHANGED <<method, job, stack>>

\* Mutant: the status in the answer is not looked at.
WrittenWhateverStatus(class, a) == IsRecord(class, a)

Written(class, a) == IsRecord(class, a) /\ a.data = "done"

NvWriteCommand ==
    /\ pc = "nvwrite"
    /\ \E o \in IF setup.sim THEN NvWriteSub(setup.id, setup.value)
                ELSE NvWrite(setup.id, setup.value) :
        /\ Take(o)
        /\ End(IF Written(IF setup.sim THEN "subsys" ELSE "nvwrite", o.answer) THEN 0 ELSE 1)
    /\ UNCHANGED <<method, job, stack, printed>>

-----------------------------------------------------------------------------
(* efsrm -r.                                                               *)
Frame(path) == [path |-> path, dirp |-> 0, seqno |-> 1, name |-> ""]
Top == Last(stack)
Replace(f) == stack' = Append(Front(stack), f)
NextEntry == [Top EXCEPT !.seqno = @ + 1]

FullPath == Append(Top.path, Top.name)

\* The directory above goes on with its next entry, whatever became of this.
Return(ok) ==
    IF Len(stack) > 1
    THEN /\ Go("rm_readdir") /\ UNCHANGED exit
         /\ LET above == stack[Len(stack) - 1]
            IN  stack' = Append(Front(Front(stack)), [above EXCEPT !.seqno = @ + 1])
    ELSE End(IF ok THEN 0 ELSE 1) /\ stack' = << >>

RmStart ==
    /\ pc = "rm"
    /\ \E o \in Stat(setup.path) :
        /\ Take(o)
        /\ Go(IF Statted(o.answer) /\ o.answer.w8 = Mode("dir") THEN "rm_opendir"
              ELSE "rm_unlink_self")
    /\ stack' = << Frame(setup.path) >>
    /\ UNCHANGED <<method, job, exit, printed>>

RmOpendir ==
    /\ pc = "rm_opendir"
    /\ \E o \in Opendir(Top.path) :
        /\ Take(o)
        /\ IF Opened(o.answer)
           THEN Replace([Top EXCEPT !.dirp = o.answer.w4]) /\ Go("rm_readdir")
           ELSE Go("rm_unlink_self") /\ UNCHANGED stack
    /\ UNCHANGED <<method, job, exit, printed>>

\* Mutant: only the directory itself is skipped.
SkippedSelfOnly(name) == name = "."

Skipped(name) == name \in {".", ".."}

RmReaddir ==
    /\ pc = "rm_readdir"
    /\ \E o \in Readdir(Top.dirp, Top.seqno) :
        /\ Take(o)
        /\ IF ~Entry(o.answer) THEN Go("rm_closedir") /\ UNCHANGED stack
           ELSE IF Skipped(o.answer.name) THEN Replace(NextEntry) /\ UNCHANGED pc
           ELSE Replace([Top EXCEPT !.name = o.answer.name]) /\ Go("rm_stat")
    /\ UNCHANGED <<method, job, exit, printed>>

RmStat ==
    /\ pc = "rm_stat"
    /\ \E o \in Stat(FullPath) :
        /\ Take(o)
        /\ IF ~Statted(o.answer) THEN Replace(NextEntry) /\ Go("rm_readdir")
           ELSE IF o.answer.w8 = Mode("dir")
           THEN stack' = Append(stack, Frame(FullPath)) /\ Go("rm_opendir")
           ELSE Go("rm_unlink") /\ UNCHANGED stack
    /\ UNCHANGED <<method, job, exit, printed>>

RmUnlink ==
    /\ pc = "rm_unlink"
    /\ \E o \in Unlink(FullPath) : Take(o)
    /\ Replace(NextEntry) /\ Go("rm_readdir")
    /\ UNCHANGED <<method, job, exit, printed>>

\* What is no directory, or cannot be opened as one.
RmUnlinkSelf ==
    /\ pc = "rm_unlink_self"
    /\ \E o \in Unlink(Top.path) : Take(o) /\ Return(Removed(o.answer))
    /\ UNCHANGED <<method, job, printed>>

RmClosedir ==
    /\ pc = "rm_closedir"
    /\ \E o \in Closedir(Top.dirp) : Take(o)
    /\ Go("rm_rmdir")
    /\ UNCHANGED <<method, commandVars>>

\* Mutant: the directory counts as removed with the last of its entries.
RmRmdirIgnored ==
    /\ pc = "rm_rmdir"
    /\ \E o \in Rmdir(Top.path) : Take(o) /\ Return(TRUE)
    /\ UNCHANGED <<method, job, printed>>

\* The result is that of the last request alone.
RmRmdir ==
    /\ pc = "rm_rmdir"
    /\ \E o \in Rmdir(Top.path) : Take(o) /\ Return(Removed(o.answer))
    /\ UNCHANGED <<method, job, printed>>

CommandNext ==
    \/ SendSpc \/ SendPassword \/ DetectAlt \/ DetectStd \/ EfsQuery
    \/ NvReadCommand \/ NvWriteCommand
    \/ RmStart \/ RmOpendir \/ RmReaddir \/ RmStat \/ RmUnlink \/ RmUnlinkSelf
    \/ RmClosedir \/ RmRmdir

=============================================================================
