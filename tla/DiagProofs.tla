----------------------------- MODULE DiagProofs -----------------------------
(***************************************************************************)
(* efsrm -r stays below its path, and the records of an XQCN document are  *)
(* true, for every modem, every number of failures, and every late or      *)
(* misplaced answer.  As long as no answer is late, a command that ends    *)
(* with success has done what it says, and a restored file has its own     *)
(* contents.                                                               *)
(***************************************************************************)
EXTENDS DiagSessions, SequenceTheorems, FiniteSetTheorems, WellFoundedInduction, TLAPS

-----------------------------------------------------------------------------
(* efsrm -r: the inductive invariant.                                      *)

\* A path of the tree that is removed.
Below(p) == IsPath(p) /\ IsPrefix(setup.path, p)

\* A directory on the stack.
Good(f) ==
    /\ f = [path |-> f.path, dirp |-> f.dirp, seqno |-> f.seqno, name |-> f.name]
    /\ Below(f.path)

Frames == stack \in Seq(Range(stack)) /\ \A f \in Range(stack) : Good(f)

Removing == {"rm_opendir", "rm_readdir", "rm_stat", "rm_unlink", "rm_unlink_self",
             "rm_closedir", "rm_rmdir"}
Opening == {"spc", "password", "hello_alt", "hello_std", "query", "rm"}

\* Where the session is, and what it will name.
Place ==
    /\ job = "rm" /\ pc \in Opening \cup Removing \cup {"end"}
    /\ pc \in Removing => stack # << >> /\ Frames
    /\ pc \in {"rm_stat", "rm_unlink"} => ~Skipped(Top.name)

\* What the modem still has.
Outside(m) ==
    /\ "tree" \in DOMAIN m
    /\ DOMAIN setup.modem.tree \ Under(setup.path) \subseteq DOMAIN m.tree

IInv ==
    setup.cmd = "rm" =>
        /\ IsPath(setup.path)
        /\ "modem" \in DOMAIN link /\ Outside(Modem)
        /\ Place

-----------------------------------------------------------------------------
(* Sequences.                                                              *)

\* A sequence is one over its elements.
LEMMA OverRange ==
    ASSUME NEW S, NEW s \in Seq(S)
    PROVE  s \in Seq(Range(s)) /\ DOMAIN s = 1..Len(s) /\ Len(s) \in Nat
<1>1. Len(s) \in Nat /\ DOMAIN s = 1..Len(s) /\ s \in [1..Len(s) -> S]
  BY LenProperties
<1>2. s \in [1..Len(s) -> Range(s)]
  BY <1>1 DEF Range
<1> QED
  BY <1>1, <1>2, SeqDef

\* What is appended to a sequence is its one new element.
LEMMA Appended ==
    ASSUME NEW s, s \in Seq(Range(s)), NEW e
    PROVE  /\ Append(s, e) \in Seq(Range(Append(s, e)))
           /\ Range(Append(s, e)) = Range(s) \cup {e}
           /\ Last(Append(s, e)) = e
           /\ Append(s, e) # << >>
           /\ Len(Append(s, e)) = Len(s) + 1
           /\ \A i \in 1..Len(s) : Append(s, e)[i] = s[i]
<1> DEFINE S == Range(s) \cup {e}
<1>1. s \in Seq(S) /\ e \in S
  BY SeqMonotonic
<1> HIDE DEF S
<1>2. /\ Append(s, e) \in Seq(S) /\ Len(Append(s, e)) = Len(s) + 1
      /\ \A i \in 1..Len(s) : Append(s, e)[i] = s[i]
      /\ Append(s, e)[Len(s) + 1] = e
      /\ Append(s, e) # << >>
  BY <1>1, AppendProperties
<1>3. DOMAIN Append(s, e) = 1..(Len(s) + 1) /\ DOMAIN s = 1..Len(s) /\ Len(s) \in Nat
  BY <1>1, <1>2, OverRange
<1>4. Range(Append(s, e)) = Range(s) \cup {e}
  BY <1>2, <1>3 DEF Range
<1>5. Last(Append(s, e)) = e
  BY <1>2 DEF Last
<1> QED
  BY <1>2, <1>4, <1>5, OverRange

\* All but the last element.
LEMMA Fronted ==
    ASSUME NEW s, s \in Seq(Range(s)), s # << >>
    PROVE  /\ Front(s) \in Seq(Range(Front(s))) /\ Range(Front(s)) \subseteq Range(s)
           /\ Len(Front(s)) = Len(s) - 1
           /\ Last(s) \in Range(s) /\ Len(s) \in Nat \ {0}
           /\ \A i \in 1..Len(s) : s[i] \in Range(s)
<1> DEFINE S == Range(s)
<1>1. Len(s) \in Nat \ {0} /\ DOMAIN s = 1..Len(s)
  BY OverRange, EmptySeq
<1>2. Front(s) \in Seq(S) /\ Len(Front(s)) = Len(s) - 1
        /\ \A i \in 1..(Len(s) - 1) : Front(s)[i] = s[i]
  BY <1>1, SubSeqProperties DEF Front
<1>3. DOMAIN Front(s) = 1..(Len(s) - 1)
  BY <1>2, OverRange
<1>4. Front(s) \in Seq(Range(Front(s)))
  BY <1>2, OverRange
<1>5. \A i \in 1..Len(s) : s[i] \in Range(s)
  BY <1>1 DEF Range
<1>6. Range(Front(s)) \subseteq Range(s)
  BY <1>1, <1>2, <1>3, <1>5 DEF Range
<1> QED
  BY <1>1, <1>2, <1>4, <1>5, <1>6 DEF Last

\* A path that goes one name deeper.
LEMMA Deeper ==
    ASSUME NEW root, NEW p, root \in Seq(Range(root)), IsPath(p), IsPrefix(root, p),
           NEW name, ~Skipped(name)
    PROVE  IsPath(Append(p, name)) /\ IsPrefix(root, Append(p, name))
<1> DEFINE q == Append(p, name)
<1>1. /\ q \in Seq(Range(q)) /\ Range(q) = Range(p) \cup {name}
      /\ Len(q) = Len(p) + 1 /\ \A i \in 1..Len(p) : q[i] = p[i]
  BY Appended DEF IsPath
<1>2. Proper(q)
  <2>1. \A x \in Range(q) : x \notin {".", ".."}
    BY <1>1 DEF IsPath, Proper, Range, Skipped
  <2> QED
    BY <2>1 DEF Proper, Range
<1>3. Len(root) \in Nat /\ Len(p) \in Nat /\ Len(root) <= Len(p)
  BY OverRange DEF IsPath, IsPrefix
<1> HIDE DEF q
<1>4. SubSeq(q, 1, Len(root)) = SubSeq(p, 1, Len(root))
  BY <1>1, <1>3
<1>5. IsPrefix(root, q)
  BY <1>1, <1>3, <1>4 DEF IsPrefix
<1> QED
  BY <1>1, <1>2, <1>5 DEF IsPath, q

-----------------------------------------------------------------------------
(* The link.                                                               *)

\* After a request the modem is as the request leaves it, or as before.
LEMMA Sent ==
    ASSUME "modem" \in DOMAIN link, NEW class, NEW modem, NEW reply,
           NEW o \in Send(class, modem, reply)
    PROVE  "modem" \in DOMAIN o.link /\ o.link.modem \in {Modem, modem}
  BY DEF Send, Modem

\* The same for a request to an EFS subsystem, which the modem may not have.
LEMMA Served ==
    ASSUME "modem" \in DOMAIN link, NEW m, NEW modem, NEW reply,
           NEW o \in Subsystem(m, modem, reply)
    PROVE  "modem" \in DOMAIN o.link /\ o.link.modem \in {Modem, modem}
  BY Sent DEF Subsystem

\* Requests that remove nothing.
LEMMA Asked ==
    ASSUME "modem" \in DOMAIN link, Outside(Modem), NEW o,
           \/ \E m : o \in Hello(m)
           \/ o \in Query
           \/ \E path : o \in Stat(path)
           \/ \E path : o \in Opendir(path)
           \/ \E h, seqno : o \in Readdir(h, seqno)
           \/ \E h : o \in Closedir(h)
    PROVE  "modem" \in DOMAIN o.link /\ Outside(o.link.modem)
<1> DEFINE Moved(dirs) == [Modem EXCEPT !.dirs = dirs]
<1>1. ASSUME NEW dirs
      PROVE  Outside(Moved(dirs))
  BY DEF Outside
<1>2. \A class, modem, reply : o \in Subsystem(class, modem, reply) /\ Outside(modem)
        => "modem" \in DOMAIN o.link /\ Outside(o.link.modem)
  BY Served
<1> HIDE DEF Moved
<1>3. CASE \E m : o \in Hello(m)
  BY <1>2, <1>3 DEF Hello
<1>4. CASE o \in Query
  BY <1>2, <1>4 DEF Query, Efs
<1>5. CASE \E path : o \in Stat(path)
  BY <1>2, <1>5 DEF Stat, Efs
<1>6. CASE \E path : o \in Opendir(path)
  <2>1. PICK path : o \in Opendir(path)
    BY <1>6
  <2>2. CASE o \in Efs(Modem, 12, Words(0, 1, 0, 0))
    BY <1>2, <2>2 DEF Efs
  <2>3. CASE \E dirs, words : o \in Efs(Moved(dirs), 12, words)
    BY <1>1, <1>2, <2>3 DEF Efs
  <2>4. \/ o \in Efs(Modem, 12, Words(0, 1, 0, 0))
        \/ \E dirs, words : o \in Efs(Moved(dirs), 12, words)
    BY <2>1 DEF Opendir, Moved
  <2> QED
    BY <2>2, <2>3, <2>4
<1>7. CASE \E h, seqno : o \in Readdir(h, seqno)
  BY <1>2, <1>7 DEF Readdir, Efs
<1>8. CASE \E h : o \in Closedir(h)
  <2>1. \E dirs : o \in Efs(Moved(dirs), 8, Done)
    BY <1>8 DEF Closedir, Moved
  <2> QED
    BY <1>1, <1>2, <2>1 DEF Efs
<1> QED
  BY <1>3, <1>4, <1>5, <1>6, <1>7, <1>8

\* A request that removes what is below the path.
LEMMA RemovesBelow ==
    ASSUME "modem" \in DOMAIN link, Outside(Modem), NEW p, Below(p), NEW o,
           o \in Unlink(p) \/ o \in Rmdir(p)
    PROVE  "modem" \in DOMAIN o.link /\ Outside(o.link.modem)
<1> DEFINE removed == [Modem EXCEPT !.tree = Without(@, p)]
<1>1. Resolve(p) = p
  BY DEF Resolve, Below, IsPath
<1>2. PICK possible : o \in Removal(p, possible)
  BY <1>1 DEF Unlink, Rmdir
<1>3. Outside(removed)
  <2>1. "tree" \in DOMAIN removed /\ removed.tree = Without(Modem.tree, p)
    BY DEF Outside
  <2>2. DOMAIN Without(Modem.tree, p) = DOMAIN Modem.tree \ {p}
    BY DEF Without, Restrict
  <2>3. p \in Under(setup.path) \/ p \notin DOMAIN setup.modem.tree
    BY DEF Under, Below
  <2> HIDE DEF removed
  <2> QED
    BY <2>1, <2>2, <2>3 DEF Outside
<1> HIDE DEF removed
<1>4. \E words : o \in Efs(removed, 8, words) \/ o \in Efs(Modem, 8, words)
  BY <1>2 DEF Removal, removed
<1> QED
  BY <1>3, <1>4, Served DEF Efs

-----------------------------------------------------------------------------
(* The stack.                                                              *)

\* The top of the stack is replaced, or something is put on it.
LEMMA Stacked ==
    ASSUME setup' = setup, NEW s, s \in Seq(Range(s)), \A f \in Range(s) : Good(f),
           NEW e, Good(e), stack' = Append(s, e)
    PROVE  Frames' /\ stack' # << >> /\ Top' = e
<1>1. stack' \in Seq(Range(stack')) /\ Range(stack') = Range(s) \cup {e}
      /\ Last(stack') = e /\ stack' # << >>
  BY Appended
<1>2. \A f \in Range(stack') : Good(f)'
  BY <1>1 DEF Good, Below, IsPath, Proper
<1> QED
  BY <1>1, <1>2 DEF Frames, Top

\* What is on it.
LEMMA OnTop ==
    ASSUME Frames, stack # << >>
    PROVE  /\ Good(Top) /\ Front(stack) \in Seq(Range(Front(stack)))
           /\ \A f \in Range(Front(stack)) : Good(f)
           /\ Len(stack) \in Nat \ {0} /\ Len(Front(stack)) = Len(stack) - 1
           /\ \A i \in 1..Len(stack) : Good(stack[i])
  BY Fronted DEF Frames, Top

\* A change of the other fields of a frame.
LEMMA GoodStays ==
    ASSUME NEW f, Good(f), NEW x
    PROVE  /\ Good([f EXCEPT !.seqno = x]) /\ Good([f EXCEPT !.dirp = x])
           /\ Good([f EXCEPT !.name = x]) /\ [f EXCEPT !.name = x].name = x
           /\ [f EXCEPT !.name = x].path = f.path
  BY DEF Good

\* The return to the directory above.
LEMMA Returned ==
    ASSUME setup' = setup, Frames, stack # << >>, NEW ok, Return(ok), job = "rm", job' = job
    PROVE  Place'
<1>1. CASE Len(stack) > 1
  <2>1. /\ Front(stack) \in Seq(Range(Front(stack))) /\ Front(stack) # << >>
        /\ \A f \in Range(Front(stack)) : Good(f)
        /\ Good(stack[Len(stack) - 1])
    BY <1>1, OnTop, EmptySeq
  <2>2. /\ Front(Front(stack)) \in Seq(Range(Front(Front(stack))))
        /\ \A f \in Range(Front(Front(stack))) : Good(f)
    BY <2>1, Fronted
  <2>3. stack' = Append(Front(Front(stack)), [stack[Len(stack) - 1] EXCEPT !.seqno = @ + 1])
        /\ pc' = "rm_readdir"
    BY <1>1 DEF Return, Go
  <2>4. Good([stack[Len(stack) - 1] EXCEPT !.seqno = @ + 1])
    BY <2>1, GoodStays
  <2>5. Frames' /\ stack' # << >>
    BY <2>2, <2>3, <2>4, Stacked
  <2> QED
    BY <2>3, <2>5 DEF Place, Removing
<1>2. CASE ~(Len(stack) > 1)
  BY <1>2 DEF Return, Place, Removing, End
<1> QED
  BY <1>1, <1>2

-----------------------------------------------------------------------------
(* Each step keeps the invariant.                                          *)

\* What holds in a session of efsrm.
Session ==
    /\ setup.cmd = "rm" /\ setup' = setup
    /\ IsPath(setup.path)
    /\ "modem" \in DOMAIN link /\ Outside(Modem)
    /\ Place

Preserved == "modem" \in DOMAIN link' /\ Outside(Modem)' /\ Place'

\* Place is kept when the stack is and the session goes on elsewhere.
LEMMA Moves ==
    ASSUME Session, UNCHANGED << job, stack >>,
           pc' \in Opening \cup {"end"}
           \/ (pc \in Removing /\ pc' \in Removing \ {"rm_stat", "rm_unlink"})
           \/ (pc = "rm_stat" /\ pc' = "rm_unlink")
    PROVE  Place'
<1>1. Frames /\ setup' = setup => Frames'
  BY DEF Frames, Good, Below, IsPath, Proper
<1> QED
  BY <1>1 DEF Session, Place, Opening, Removing, Top

\* An answer that is taken without anything having been removed.
LEMMA Takes ==
    ASSUME Session, NEW o, link' = o.link,
           "modem" \in DOMAIN o.link /\ Outside(o.link.modem)
    PROVE  "modem" \in DOMAIN link' /\ Outside(Modem)'
  BY DEF Session, Outside, Modem, Under

\* The requests that open the session.
LEMMA OpeningPreserves ==
    ASSUME Session, SendSpc \/ SendPassword \/ DetectAlt \/ DetectStd \/ EfsQuery
    PROVE  Preserved
<1> USE DEF Session, Preserved
<1>1. CASE SendSpc \/ SendPassword
  <2>1. PICK o, class, reply : o \in Send(class, Modem, reply) /\ link' = o.link
    BY <1>1 DEF SendSpc, SendPassword, Take
  <2>2. "modem" \in DOMAIN link' /\ Outside(Modem)'
    BY <2>1, Sent, Takes
  <2>3. pc' \in {"password", "hello_alt"} /\ UNCHANGED << job, stack >>
    BY <1>1 DEF SendSpc, SendPassword, Go, FirstRequest, Place, commandVars
  <2> QED
    BY <2>2, <2>3, Moves DEF Opening
<1>2. ASSUME NEW m, NEW here, NEW otherwise, EfsDetect(m, here, otherwise),
             otherwise \in {"hello_std", "end"}
      PROVE  Preserved
  <2>1. PICK o \in Hello(m) : link' = o.link
    BY <1>2 DEF EfsDetect, Take
  <2>2. "modem" \in DOMAIN link' /\ Outside(Modem)'
    BY <2>1, Asked, Takes
  <2>3. pc' \in {"query", "hello_std", "end"} /\ UNCHANGED << job, stack >>
    BY <1>2 DEF EfsDetect, Go, End
  <2> QED
    BY <2>2, <2>3, Moves DEF Opening
<1>3. CASE EfsQuery
  <2>1. PICK o \in Query : link' = o.link
    BY <1>3 DEF EfsQuery, Take
  <2>2. "modem" \in DOMAIN link' /\ Outside(Modem)'
    BY <2>1, Asked, Takes
  <2>3. pc' = "rm" /\ UNCHANGED << job, stack >>
    BY <1>3 DEF EfsQuery, Go, Place, commandVars
  <2> QED
    BY <2>2, <2>3, Moves DEF Opening
<1> QED
  BY <1>1, <1>2, <1>3 DEF DetectAlt, DetectStd

\* The steps of efs_rm_recursive().
LEMMA RmPreserves ==
    ASSUME Session,
           \/ RmStart \/ RmOpendir \/ RmReaddir \/ RmStat \/ RmUnlink \/ RmUnlinkSelf
           \/ RmClosedir \/ RmRmdir
    PROVE  Preserved
<1> USE DEF Session, Preserved
<1>1. CASE RmStart
  <2>1. PICK o \in Stat(setup.path) : link' = o.link
    BY <1>1 DEF RmStart, Take
  <2>2. "modem" \in DOMAIN link' /\ Outside(Modem)'
    BY <2>1, Asked, Takes
  <2>3. Good(Frame(setup.path))
    <3>1. Len(setup.path) \in Nat
      BY OverRange DEF IsPath
    <3> QED
      BY <3>1 DEF Good, Frame, Below, IsPrefix
  <2>4. << >> \in Seq(Range(<< >>)) /\ Range(<< >>) = {}
    BY EmptySeq DEF Range
  <2>5. stack' = Append(<< >>, Frame(setup.path)) /\ job' = job
        /\ pc' \in {"rm_opendir", "rm_unlink_self"}
    BY <1>1 DEF RmStart, Go
  <2>6. Frames' /\ stack' # << >>
    BY <2>3, <2>4, <2>5, Stacked
  <2> QED
    BY <2>2, <2>5, <2>6 DEF Place, Removing
<1>2. CASE RmOpendir \/ RmReaddir \/ RmStat \/ RmUnlink \/ RmUnlinkSelf \/ RmClosedir \/ RmRmdir
  <2>1. Frames /\ stack # << >> /\ pc \in Removing /\ job = "rm"
    BY <1>2 DEF RmOpendir, RmReaddir, RmStat, RmUnlink, RmUnlinkSelf, RmClosedir, RmRmdir,
                Place, Removing
  <2>2. Good(Top) /\ Below(Top.path)
    BY <2>1, OnTop DEF Good
  <2>3. ASSUME NEW e, Replace(e), Good(e), job' = job,
               pc' \in Removing \ {"rm_stat", "rm_unlink"}
               \/ (pc' = "rm_stat" /\ ~Skipped(e.name))
        PROVE  Place'
    <3>1. Frames' /\ stack' # << >> /\ Top' = e
      BY <2>1, <2>3, OnTop, Stacked DEF Replace
    <3> QED
      BY <2>1, <2>3, <3>1 DEF Place, Removing, Skipped
  <2>4. Good(NextEntry)
    BY <2>2, GoodStays DEF NextEntry
  <2>5. pc \in {"rm_stat", "rm_unlink"} => Below(FullPath)
    BY <2>2, Deeper DEF Place, Below, IsPath, FullPath
  <2>6. CASE RmOpendir
    <3>1. PICK o \in Opendir(Top.path) :
             /\ link' = o.link
             /\ IF Opened(o.answer)
                THEN Replace([Top EXCEPT !.dirp = o.answer.w4]) /\ Go("rm_readdir")
                ELSE Go("rm_unlink_self") /\ UNCHANGED stack
      BY <2>6 DEF RmOpendir, Take
    <3>2. "modem" \in DOMAIN link' /\ Outside(Modem)'
      BY <3>1, Asked, Takes
    <3>3. job' = job
      BY <2>6 DEF RmOpendir
    <3>4. CASE Replace([Top EXCEPT !.dirp = o.answer.w4]) /\ Go("rm_readdir")
      BY <2>2, <2>3, <3>2, <3>3, <3>4, GoodStays DEF Go, Removing
    <3>5. CASE Go("rm_unlink_self") /\ UNCHANGED stack
      BY <2>1, <3>2, <3>3, <3>5, Moves DEF Go, Removing
    <3> QED
      BY <3>1, <3>4, <3>5
  <2>7. CASE RmReaddir
    <3>1. PICK o \in Readdir(Top.dirp, Top.seqno) :
             /\ link' = o.link
             /\ IF ~Entry(o.answer) THEN Go("rm_closedir") /\ UNCHANGED stack
                ELSE IF Skipped(o.answer.name) THEN Replace(NextEntry) /\ UNCHANGED pc
                ELSE Replace([Top EXCEPT !.name = o.answer.name]) /\ Go("rm_stat")
      BY <2>7 DEF RmReaddir, Take
    <3>2. "modem" \in DOMAIN link' /\ Outside(Modem)'
      BY <3>1, Asked, Takes
    <3>3. job' = job /\ pc = "rm_readdir"
      BY <2>7 DEF RmReaddir
    <3>4. CASE Go("rm_closedir") /\ UNCHANGED stack
      BY <2>1, <3>2, <3>3, <3>4, Moves DEF Go, Removing
    <3>5. CASE Replace(NextEntry) /\ UNCHANGED pc
      BY <2>3, <2>4, <3>2, <3>3, <3>5 DEF Removing
    <3>6. CASE /\ Replace([Top EXCEPT !.name = o.answer.name]) /\ Go("rm_stat")
               /\ ~Skipped(o.answer.name)
      BY <2>2, <2>3, <3>2, <3>3, <3>6, GoodStays DEF Go, Removing
    <3> QED
      BY <3>1, <3>4, <3>5, <3>6
  <2>8. CASE RmStat
    <3>1. PICK o \in Stat(FullPath) :
             /\ link' = o.link
             /\ IF ~Statted(o.answer) THEN Replace(NextEntry) /\ Go("rm_readdir")
                ELSE IF o.answer.w8 = Mode("dir")
                THEN stack' = Append(stack, Frame(FullPath)) /\ Go("rm_opendir")
                ELSE Go("rm_unlink") /\ UNCHANGED stack
      BY <2>8 DEF RmStat, Take
    <3>2. "modem" \in DOMAIN link' /\ Outside(Modem)'
      BY <3>1, Asked, Takes
    <3>3. job' = job /\ pc = "rm_stat"
      BY <2>8 DEF RmStat
    <3>4. CASE Replace(NextEntry) /\ Go("rm_readdir")
      BY <2>3, <2>4, <3>2, <3>3, <3>4 DEF Removing, Go
    <3>5. CASE stack' = Append(stack, Frame(FullPath)) /\ Go("rm_opendir")
      <4>1. Good(Frame(FullPath))
        BY <2>5, <3>3 DEF Good, Frame
      <4>2. Frames' /\ stack' # << >>
        BY <2>1, <3>5, <4>1, Stacked DEF Frames
      <4> QED
        BY <2>1, <3>2, <3>3, <3>5, <4>2 DEF Place, Removing, Go
    <3>6. CASE Go("rm_unlink") /\ UNCHANGED stack
      BY <2>1, <3>2, <3>3, <3>6, Moves DEF Go
    <3> QED
      BY <3>1, <3>4, <3>5, <3>6
  <2>9. CASE RmUnlink
    <3>1. PICK o \in Unlink(FullPath) : link' = o.link
      BY <2>9 DEF RmUnlink, Take
    <3>2. "modem" \in DOMAIN link' /\ Outside(Modem)'
      BY <2>5, <2>9, <3>1, RemovesBelow, Takes DEF RmUnlink
    <3>3. job' = job /\ Replace(NextEntry) /\ pc' = "rm_readdir"
      BY <2>9 DEF RmUnlink, Go
    <3> QED
      BY <2>3, <2>4, <3>2, <3>3 DEF Removing
  <2>10. CASE RmUnlinkSelf \/ RmRmdir
    <3>1. PICK o : /\ o \in Unlink(Top.path) \/ o \in Rmdir(Top.path)
                   /\ link' = o.link /\ \E ok : Return(ok)
      BY <2>10 DEF RmUnlinkSelf, RmRmdir, Take
    <3>2. "modem" \in DOMAIN link' /\ Outside(Modem)'
      BY <2>2, <3>1, RemovesBelow, Takes
    <3>3. job' = job
      BY <2>10 DEF RmUnlinkSelf, RmRmdir
    <3> QED
      BY <2>1, <3>1, <3>2, <3>3, Returned
  <2>11. CASE RmClosedir
    <3>1. PICK o \in Closedir(Top.dirp) : link' = o.link
      BY <2>11 DEF RmClosedir, Take
    <3>2. "modem" \in DOMAIN link' /\ Outside(Modem)'
      BY <3>1, Asked, Takes
    <3>3. UNCHANGED << job, stack >> /\ pc' = "rm_rmdir"
      BY <2>11 DEF RmClosedir, Go, commandVars
    <3> QED
      BY <2>1, <3>2, <3>3, Moves DEF Removing
  <2> QED
    BY <1>2, <2>6, <2>7, <2>8, <2>9, <2>10, <2>11
<1> QED
  BY <1>1, <1>2

\* The steps of the other commands are not taken.
LEMMA OthersElsewhere ==
    ASSUME Session
    PROVE  ~(NvReadCommand \/ NvWriteCommand \/ XqcnNext)
<1> USE DEF Session, Place, Opening, Removing
<1>1. ~(NvReadCommand \/ NvWriteCommand)
  BY DEF NvReadCommand, NvWriteCommand
<1>2. ~(Scan \/ ScanSim \/ WalkOpendir \/ WalkReaddir \/ WalkStat \/ WalkClosedir
        \/ WalkEntry \/ Probe)
  BY DEF Scan, ScanSim, WalkOpendir, WalkReaddir, WalkStat, WalkClosedir, WalkEntry, Probe
<1>3. ~(AddStat \/ AddOpen \/ AddRead \/ AddClose \/ FeatureQuery \/ BuildId \/ WriteDocument)
  BY DEF AddStat, AddOpen, AddRead, AddClose, FeatureQuery, BuildId, Metadata, WriteDocument
<1>4. ~(Offline \/ RestoreNv \/ SyncAfterNv \/ Reset
        \/ \E s \in {"Prov", "Backup", "NvItems"} : RestoreFile(s))
  BY DEF Offline, RestoreNv, SyncAfterNv, Reset, RestoreFile
<1> QED
  BY <1>1, <1>2, <1>3, <1>4 DEF XqcnNext

\* The session starts with all that is there.
LEMMA InitHolds == Init => IInv
<1> SUFFICES ASSUME Init, setup.cmd = "rm"
             PROVE  /\ IsPath(setup.path)
                    /\ "modem" \in DOMAIN link /\ Outside(Modem)
                    /\ Place
  BY DEF IInv
<1>1. IsPath(setup.path) /\ "tree" \in DOMAIN setup.modem
  BY RemovalSetups DEF Init
<1>2. "modem" \in DOMAIN link /\ Modem = setup.modem
  BY DEF Init, Connected, Modem
<1> QED
  BY <1>1, <1>2 DEF Init, CommandInit, Outside, Place, Opening, Removing

\* Every step keeps the invariant.
LEMMA NextPreserves == IInv /\ [Next]_vars => IInv'
<1> SUFFICES ASSUME IInv, [Next]_vars, setup'.cmd = "rm"
             PROVE  /\ IsPath(setup.path)'
                    /\ "modem" \in DOMAIN link' /\ Outside(Modem)'
                    /\ Place'
  BY DEF IInv
<1>1. Session
  BY DEF IInv, Next, Session, Ended, vars
<1>2. IsPath(setup.path)'
  BY <1>1 DEF Session, IsPath, Proper
<1>3. CASE UNCHANGED vars
  BY <1>1, <1>3 DEF Session, vars, xqcnVars, Place, Opening, Removing, Frames, Good, Below, IsPath,
                    Proper, Outside, Modem, Under, Top
<1>4. CASE CommandNext
  BY <1>1, <1>2, <1>4, OpeningPreserves, RmPreserves, OthersElsewhere DEF CommandNext, Preserved
<1> QED
  BY <1>1, <1>2, <1>3, <1>4, OthersElsewhere DEF Next, Ended

\* The invariant holds in every reachable state.
THEOREM Invariant == Spec => []IInv
  BY InitHolds, NextPreserves, PTL DEF Spec

\* efsrm -r removes nothing that is not below its path, whatever the file
\* system holds, whatever fails and whichever answers are taken for those of
\* other requests: the names it appends come from answers, but never lead up.
THEOREM OnlyBelowHolds == Spec => []OnlyBelow
<1>1. IInv => OnlyBelow
  BY DEF IInv, OnlyBelow, Outside
<1> QED
  BY <1>1, Invariant, PTL

-----------------------------------------------------------------------------
(* XQCN: what is captured, and what is counted, whichever answers come     *)
(* late.                                                                   *)

\* Records of a subscription, in the order of their numbers.
Rising(s) == \A i, j \in 1..Len(s) : i < j => s[i].id < s[j].id
Records(s, table) ==
    /\ s \in Seq(Range(s)) /\ Rising(s)
    /\ \A i \in 1..Len(s) : s[i].id \in NvIds /\ s[i].data = table[s[i].id]

\* Answers on their way: to the scan, records not captured yet and in order.
Unread(class, s, table, q, n) ==
    /\ \A k \in 1..Len(q) : IsRecord(class, q[k]) =>
          /\ q[k].id \in NvIds /\ q[k].id < n /\ q[k].data = table[q[k].id]
          /\ \A i \in 1..Len(s) : s[i].id < q[k].id
    /\ \A k, l \in 1..Len(q) :
          k < l /\ IsRecord(class, q[k]) /\ IsRecord(class, q[l]) => q[k].id < q[l].id

\* The scan is at item n.
Scanned(class, s, table, q, n) ==
    /\ Records(s, table) /\ Unread(class, s, table, q, n)
    /\ \A i \in 1..Len(s) : s[i].id < n

\* No answer is on its way that a scan or a restore looks for.
Unasked(a) == a.class \notin {"nvread", "nvwrite"} /\ ~IsRecord("subsys", a)
Silent(q) == \A k \in 1..Len(q) : Unasked(q[k])
NoSubRecord(q) == \A k \in 1..Len(q) : ~IsRecord("subsys", q[k])

\* The restore: the answers that tell of a success, each for a record that was
\* written, and those of the records written that no answer is to come for.
Held(s, i, table) == table[s[i].id] = s[i].data
Promised(s, table, q, n) ==
    /\ \A k \in 1..Len(q) : Written("nvwrite", q[k]) =>
          \E i \in 1..n : q[k].id = s[i].id /\ Held(s, i, table)
    /\ \A k, l \in 1..Len(q) :
          k < l /\ Written("nvwrite", q[k]) /\ Written("nvwrite", q[l]) => q[k].id < q[l].id
Settled(s, table, q, n) ==
    {i \in 1..n : /\ Held(s, i, table)
                  /\ \A k \in 1..Len(q) : Written("nvwrite", q[k]) => s[i].id < q[k].id}

Connecting == {"spc", "password", "hello_alt", "hello_std", "query"}
Writing == {"feature", "build", "write"}
Walking == {"x_opendir", "x_readdir", "x_stat", "x_closedir", "x_entry", "probe",
            "add", "add_open", "add_read", "add_close"} \cup Writing

\* The first session, up to the document.
Captures ==
    \/ pc \in Connecting /\ cursor = 0 /\ def = << >> /\ sim1 = << >> /\ Silent(link.pending)
    \/ /\ pc = "xqcn" /\ sim1 = << >> /\ cursor \in NvIds
       /\ Scanned("nvread", def, Modem.nv, link.pending, cursor)
       /\ NoSubRecord(link.pending)
    \/ /\ pc = "scan_sim" /\ Records(def, Modem.nv) /\ cursor \in NvIds
       /\ Scanned("subsys", sim1, Modem.sim, link.pending, cursor)
    \/ /\ pc \in Walking \cup {"end"}
       /\ Records(def, Modem.nv) /\ Records(sim1, Modem.sim)
       /\ pc \in Writing => cursor = 0
Backup ==
    /\ job = "xqcn" /\ nvWritten = 0
    /\ {"nv", "sim"} \subseteq DOMAIN Modem
    /\ Modem.nv = setup.modem.nv /\ Modem.sim = setup.modem.sim
    /\ Captures

\* The second, on the other modem.
Restores ==
    \/ /\ pc \in Connecting \cup {"xqcn_restore"} /\ Silent(link.pending)
       /\ cursor = 0 /\ nvWritten = 0
    \/ /\ pc = "nv" /\ cursor \in 0..Len(def) /\ Promised(def, Modem.nv, link.pending, cursor)
       /\ nvWritten <= Cardinality(Settled(def, Modem.nv, link.pending, cursor))
    \/ /\ pc \in {"sync", "Prov", "Backup", "NvItems", "reset", "end"}
       /\ nvWritten <= Cardinality({i \in 1..Len(def) : Held(def, i, Modem.nv)})
Restore ==
    /\ job = "xqcn_restore" /\ nvWritten \in Nat
    /\ "nv" \in DOMAIN Modem /\ DOMAIN Modem.nv = NvIds
    /\ Records(def, setup.modem.nv) /\ Records(sim1, setup.modem.sim) /\ doc.def = def
    /\ Restores

Elsewhere ==
    /\ job = setup.cmd /\ def = << >> /\ sim1 = << >>
    /\ pc \in Opening \cup Removing \cup {"nvread", "nvwrite", "end"}

IsLink(l) == {"modem", "pending"} \subseteq DOMAIN l /\ l.pending \in Seq(Range(l.pending))
RInv ==
    /\ setup \in Setups
    /\ IF setup.cmd = "xqcn" THEN IsLink(link) /\ (Backup \/ Restore) ELSE Elsewhere

-----------------------------------------------------------------------------
\* A set of natural numbers has a least one.
LEMMA Least ==
    ASSUME NEW T, T \subseteq Nat, T # {}
    PROVE  \E x \in T : \A y \in T : x <= y
<1>1. IsWellFoundedOn({p \in Nat \X Nat : p[1] < p[2]}, Nat)
  BY NatLessThanWellFounded DEF OpToRel
<1>2. PICK x \in T : \A y \in T : ~(<<y, x>> \in {p \in Nat \X Nat : p[1] < p[2]})
  BY <1>1, WFMin
<1>3. \A y \in T : ~(y < x)
  BY <1>2
<1> QED
  BY <1>3

\* What is left of box when the first k were read.
Follows(q, box, k) ==
    Len(q) = Len(box) - k /\ \A j \in 1..Len(q) : k + j \in 1..Len(box) /\ q[j] = box[k + j]

\* A part of a sequence up to its end is such a rest.
LEMMA Unreadable ==
    ASSUME NEW box, box \in Seq(Range(box)), NEW k \in 0..Len(box)
    PROVE  \A q : q = SubSeq(box, k + 1, Len(box)) => q \in Seq(Range(q)) /\ Follows(q, box, k)
<1>1. Len(box) \in Nat
  BY OverRange
<1>2. \A i \in (k + 1)..Len(box) : box[i] \in Range(box)
  BY <1>1, OverRange DEF Range
<1>3. /\ SubSeq(box, k + 1, Len(box)) \in Seq(Range(box))
      /\ Len(SubSeq(box, k + 1, Len(box))) = Len(box) - k
      /\ \A j \in 1..(Len(box) - k) : SubSeq(box, k + 1, Len(box))[j] = box[k + j]
  BY <1>1, SubSeqProperties
<1> DEFINE q == SubSeq(box, k + 1, Len(box))
<1> HIDE DEF q
<1>4. q \in Seq(Range(q)) /\ Len(q) = Len(box) - k
  BY <1>3, OverRange DEF q
<1>5. \A j \in 1..Len(q) : k + j \in 1..Len(box) /\ q[j] = box[k + j]
  BY <1>1, <1>3, <1>4 DEF q
<1> QED
  BY <1>4, <1>5 DEF q, Follows

\* What a request comes to.
Outcome(o, modem, box) ==
    \E k \in 0..Len(box) :
        /\ o.link.modem = modem /\ Follows(o.link.pending, box, k)
        /\ o.answer = Nothing \/ (k \in 1..Len(box) /\ o.answer = box[k])
Unsent(o) == o.answer = Nothing /\ o.link.modem = Modem /\ o.link.pending = link.pending

\* Of what has arrived the first answer that fits is taken and what was before it
\* dropped; or the request gets no answer; or it was not sent.
LEMMA Framed ==
    ASSUME IsLink(link),
           NEW class, NEW modem, NEW reply, Accepts(class, reply),
           NEW o \in Send(class, modem, reply)
    PROVE  /\ IsLink(o.link)
           /\ Unsent(o) \/ Outcome(o, modem, Append(link.pending, reply))
<1> DEFINE box == Append(link.pending, reply)
           Fits(i) == Accepts(class, box[i])
           first == CHOOSE i \in DOMAIN box : Fits(i) /\ \A j \in 1..(i - 1) : ~Fits(j)
           Left(k, answer, cost, late) ==
             [answer |-> answer,
              link |-> [modem |-> modem, pending |-> SubSeq(box, k + 1, Len(box)),
                        faults |-> link.faults + cost, late |-> link.late \/ late]]
<1>1. /\ box \in Seq(Range(box)) /\ Len(box) = Len(link.pending) + 1
      /\ Len(link.pending) \in Nat /\ DOMAIN box = 1..Len(box) /\ Fits(Len(box))
  BY Appended, OverRange, AppendProperties DEF Last, IsLink
<1>2. first \in 1..Len(box)
  <2> DEFINE T == {i \in 1..Len(box) : Fits(i)}
  <2> HIDE DEF Fits, box
  <2>1. T \subseteq Nat /\ T # {}
    BY <1>1
  <2>2. PICK i \in T : \A j \in T : i <= j
    BY <2>1, Least
  <2>3. \A j \in 1..(i - 1) : ~Fits(j)
    BY <1>1, <2>2
  <2>4. i \in DOMAIN box /\ Fits(i)
    BY <1>1, <2>2
  <2> QED
    BY <1>1, <2>3, <2>4
<1>3. \/ \E cost, late : \E k \in 0..Len(box) : o = Left(k, Nothing, cost, late)
      \/ o = Left(first, box[first], 0, FALSE)
      \/ o = [answer |-> Nothing, link |-> [link EXCEPT !.faults = @ + 1]]
  <2>1. \/ o \in {Left(first, box[first], 0, FALSE)}
        \/ o \in {Left(k, Nothing, 0, FALSE) : k \in 2..Len(box)}
        \/ o \in {Left(k, Nothing, 1, FALSE) : k \in 1..first}
        \/ o \in {Left(k, Nothing, 1, TRUE) : k \in 0..(first - 1)}
        \/ o = [answer |-> Nothing, link |-> [link EXCEPT !.faults = @ + 1]]
    BY DEF Send
  <2>2. 2..Len(box) \subseteq 0..Len(box) /\ 1..first \subseteq 0..Len(box)
        /\ 0..(first - 1) \subseteq 0..Len(box)
    <3> HIDE DEF box, first
    <3> QED
      BY <1>1, <1>2
  <2> HIDE DEF Left, box, first
  <2>3. ASSUME NEW S, S \subseteq 0..Len(box), NEW cost, NEW late,
               o \in {Left(k, Nothing, cost, late) : k \in S}
        PROVE  \E c, l : \E k \in 0..Len(box) : o = Left(k, Nothing, c, l)
    BY <2>3
  <2> QED
    BY <2>1, <2>2, <2>3
<1>4. ASSUME NEW k \in 0..Len(box), NEW answer, NEW cost, NEW late, o = Left(k, answer, cost, late)
      PROVE  /\ o.answer = answer /\ o.link.modem = modem
             /\ {"modem", "pending"} \subseteq DOMAIN o.link
             /\ o.link.pending = SubSeq(box, k + 1, Len(box))
  BY <1>4
<1>5. ASSUME NEW k \in 0..Len(box), o.link.pending = SubSeq(box, k + 1, Len(box))
      PROVE  /\ o.link.pending \in Seq(Range(o.link.pending))
             /\ Follows(o.link.pending, box, k)
  <2> HIDE DEF box
  <2> QED
    BY <1>1, <1>5, Unreadable
<1>6. CASE o = [answer |-> Nothing, link |-> [link EXCEPT !.faults = @ + 1]]
  BY <1>6 DEF Modem, Unsent, IsLink
<1>7. CASE o = Left(first, box[first], 0, FALSE)
  <2> HIDE DEF box, first, Left
  <2>1. first \in 0..Len(box)
    BY <1>1, <1>2
  <2> QED
    BY <1>2, <1>4, <1>5, <1>7, <2>1 DEF box, Outcome, IsLink
<1>8. CASE \E cost, late : \E k \in 0..Len(box) : o = Left(k, Nothing, cost, late)
  <2> HIDE DEF box, first, Left
  <2> QED
    BY <1>4, <1>5, <1>8 DEF box, Outcome, IsLink
<1> QED
  BY <1>3, <1>6, <1>7, <1>8
\* What is on its way then was before, or is the answer to the request.
LEMMA Arrived ==
    ASSUME IsLink(link),
           NEW class, NEW modem, NEW reply, Accepts(class, reply),
           NEW o \in Send(class, modem, reply)
    PROVE  /\ IsLink(o.link)
           /\ o.link.modem \in {Modem, modem}
           /\ \A j \in 1..Len(o.link.pending) :
                 \/ o.link.pending[j] = reply
                 \/ \E i \in 1..Len(link.pending) : o.link.pending[j] = link.pending[i]
<1> DEFINE box == Append(link.pending, reply)
<1>1. Len(box) = Len(link.pending) + 1 /\ Len(link.pending) \in Nat
      /\ \A i \in 1..Len(box) : box[i] = reply \/ (i \in 1..Len(link.pending) /\ box[i] = link.pending[i])
  BY Appended, OverRange, AppendProperties DEF IsLink
<1>2. /\ IsLink(o.link)
      /\ Unsent(o) \/ Outcome(o, modem, box)
  BY Framed
<1> HIDE DEF box
<1>3. CASE Unsent(o)
  BY <1>2, <1>3 DEF Unsent
<1>4. CASE Outcome(o, modem, box)
  BY <1>1, <1>2, <1>4 DEF Outcome, Follows
<1> QED
  BY <1>2, <1>3, <1>4

-----------------------------------------------------------------------------
(* The scan.                                                               *)

\* The scans number the items from zero on.
LEMMA Numbers == LastId \in Nat /\ NvIds = 0..LastId /\ NvIds \subseteq Nat
<1>1. PICK last \in NvIds : last \in Nat /\ NvIds = 0..last
  BY SessionSetups
<1>2. last \in NvIds /\ \A y \in NvIds : y <= last
  BY <1>1
<1>3. LastId = last
  <2>1. \A x \in NvIds : (\A y \in NvIds : y <= x) => x = last
    BY <1>1, <1>2
  <2> QED
    BY <1>2, <2>1 DEF LastId, Max
<1> QED
  BY <1>1, <1>3

\* A record with a higher number is added.
LEMMA Adds ==
    ASSUME NEW s, NEW table, Records(s, table), NEW id \in NvIds, NEW data, data = table[id],
           \A i \in 1..Len(s) : s[i].id < id
    PROVE  /\ Records(Append(s, [id |-> id, data |-> data]), table)
           /\ \A i \in 1..Len(Append(s, [id |-> id, data |-> data])) :
                 Append(s, [id |-> id, data |-> data])[i].id <= id
<1> DEFINE r == [id |-> id, data |-> data]
           t == Append(s, r)
<1>1. NvIds \subseteq Nat
  BY Numbers
<1>2. /\ t \in Seq(Range(t)) /\ Len(t) = Len(s) + 1 /\ Len(s) \in Nat
      /\ \A i \in 1..Len(s) : t[i] = s[i]
      /\ t[Len(s) + 1] = r
  BY Appended, OverRange DEF Records, Last
<1>3. r.id = id /\ r.data = data
  OBVIOUS
<1> HIDE DEF t, r
<1>4. \A i \in 1..Len(t) : t[i].id \in NvIds /\ t[i].id <= id /\ t[i].data = table[t[i].id]
  <2>1. ASSUME NEW i \in 1..Len(s)
        PROVE  t[i].id \in NvIds /\ t[i].id <= id /\ t[i].data = table[t[i].id]
    <3>1. t[i] = s[i] /\ s[i].id < id
      BY <1>2
    <3>2. s[i].id \in NvIds /\ s[i].data = table[s[i].id]
      BY DEF Records
    <3>3. s[i].id \in Nat /\ id \in Nat
      BY <1>1, <3>2
    <3>4. s[i].id <= id
      BY <3>1, <3>3
    <3> QED
      BY <3>1, <3>2, <3>4
  <2>2. \A i \in 1..Len(t) : i \in 1..Len(s) \/ i = Len(s) + 1
    BY <1>2
  <2> QED
    BY <1>1, <1>2, <1>3, <2>1, <2>2
<1>5. Rising(t)
  BY <1>1, <1>2, <1>3 DEF Records, Rising
<1> QED
  BY <1>2, <1>4, <1>5 DEF Records, t, r

\* One item of a scan: the answer that is taken is that to a request of now or
\* before, for a record that was not taken yet.
LEMMA ScanStep ==
    ASSUME IsLink(link),
           NEW class \in {"nvread", "subsys"}, NEW s, NEW table, cursor \in NvIds,
           Scanned(class, s, table, link.pending, cursor),
           NEW reply, reply.class = class, IsRecord(class, reply),
           reply.id = cursor, reply.data = table[cursor],
           NEW o \in Send(class, Modem, reply)
    PROVE  Scanned(class, Captured(class, s, o.answer), table, o.link.pending, cursor + 1)
<1> DEFINE box == Append(link.pending, reply)
           n == cursor + 1
<1>1. Len(box) = Len(link.pending) + 1 /\ Len(link.pending) \in Nat
      /\ \A i \in 1..Len(box) :
            \/ i = Len(box) /\ box[i] = reply
            \/ i \in 1..Len(link.pending) /\ box[i] = link.pending[i]
  BY Appended, OverRange, AppendProperties DEF IsLink
<1>2. /\ NvIds \subseteq Nat /\ n \in Nat /\ cursor < n
      /\ \A x \in NvIds : x < cursor => x < n
  BY Numbers
<1>3. Accepts(class, reply)
  BY DEF Accepts
<1> HIDE DEF box, n
<1>4. Unread(class, s, table, box, n)
  <2>1. \A k \in 1..Len(box) : IsRecord(class, box[k]) =>
           /\ box[k].id \in NvIds /\ box[k].id < n /\ box[k].data = table[box[k].id]
           /\ \A i \in 1..Len(s) : s[i].id < box[k].id
    BY <1>1, <1>2 DEF Unread, Scanned
  <2>2. \A k \in 1..Len(box) : IsRecord(class, box[k]) /\ k # Len(box) => box[k].id < cursor
    BY <1>1 DEF Unread, Scanned
  <2>3. \A k, l \in 1..Len(box) :
           k < l /\ IsRecord(class, box[k]) /\ IsRecord(class, box[l]) => box[k].id < box[l].id
    BY <1>1, <2>2 DEF Unread, Scanned
  <2> QED
    BY <2>1, <2>3 DEF Unread
<1>5. ASSUME NEW q, NEW k \in 0..Len(box), Follows(q, box, k)
      PROVE  Unread(class, s, table, q, n)
  <2>1. \A j, l \in 1..Len(q) : j < l => k + j < k + l
    BY <1>1, <1>5 DEF Follows
  <2> QED
    BY <1>4, <1>5, <2>1 DEF Unread, Follows
<1>6. Records(s, table) /\ \A i \in 1..Len(s) : s[i].id < n
  BY <1>2 DEF Scanned, Records
<1> ~IsRecord(class, Nothing)
  <2>1. Nothing.class = "none"
    BY DEF Nothing
  <2> QED
    BY <2>1 DEF IsRecord
<1>7. CASE Unsent(o)
  <2>1. Captured(class, s, o.answer) = s
    BY <1>7 DEF Captured, Unsent
  <2>2. Unread(class, s, table, link.pending, n)
    BY <1>2 DEF Scanned, Unread
  <2> QED
    BY <1>6, <1>7, <2>1, <2>2 DEF Scanned, Unsent, n
<1>8. ASSUME NEW k \in 0..Len(box), o.answer = Nothing \/ (k \in 1..Len(box) /\ o.answer = box[k]),
             Follows(o.link.pending, box, k)
      PROVE  Scanned(class, Captured(class, s, o.answer), table, o.link.pending, n)
  <2>1. Unread(class, s, table, o.link.pending, n)
    BY <1>5, <1>8
  <2>2. CASE Captured(class, s, o.answer) = s
    BY <1>6, <2>1, <2>2 DEF Scanned
  <2>3. CASE /\ IsRecord(class, o.answer)
             /\ Captured(class, s, o.answer) = Append(s, [id |-> o.answer.id, data |-> o.answer.data])
    <3> DEFINE t == Append(s, [id |-> o.answer.id, data |-> o.answer.data])
    <3>1. k \in 1..Len(box) /\ o.answer = box[k]
      BY <1>8, <2>3
    <3>2. /\ o.answer.id \in NvIds /\ o.answer.id < n /\ o.answer.data = table[o.answer.id]
          /\ \A i \in 1..Len(s) : s[i].id < o.answer.id
      BY <1>4, <2>3, <3>1 DEF Unread
    <3>3. Records(t, table) /\ \A i \in 1..Len(t) : t[i].id <= o.answer.id
      BY <1>6, <3>2, Adds
    <3>4. \A j \in 1..Len(o.link.pending) : IsRecord(class, o.link.pending[j])
              => o.answer.id < o.link.pending[j].id
      <4>1. \A j \in 1..Len(o.link.pending) : k < k + j
        BY <1>1, <1>8 DEF Follows
      <4> QED
        BY <1>4, <1>8, <2>3, <3>1, <4>1 DEF Unread, Follows
    <3>5. \A i \in 1..Len(t) : t[i].id \in Nat
      BY <1>2, <3>3 DEF Records
    <3> HIDE DEF t
    <3>6. Unread(class, t, table, o.link.pending, n)
      <4>1. \A j \in 1..Len(o.link.pending) : IsRecord(class, o.link.pending[j])
                => o.link.pending[j].id \in Nat
        BY <1>2, <2>1 DEF Unread
      <4>2. o.answer.id \in Nat
        BY <1>2, <3>2
      <4>3. \A j \in 1..Len(o.link.pending) : IsRecord(class, o.link.pending[j])
                => \A i \in 1..Len(t) : t[i].id < o.link.pending[j].id
        BY <3>3, <3>4, <3>5, <4>1, <4>2
      <4> QED
        BY <2>1, <4>3 DEF Unread
    <3>7. \A i \in 1..Len(t) : t[i].id < n
      <4>1. o.answer.id \in Nat /\ n \in Nat
        BY <1>2, <3>2
      <4> QED
        BY <3>2, <3>3, <3>5, <4>1
    <3> QED
      BY <2>3, <3>3, <3>6, <3>7 DEF Scanned, t
  <2> QED
    BY <2>2, <2>3 DEF Captured
<1>9. Unsent(o) \/ Outcome(o, Modem, box)
  BY <1>3, Framed DEF box
<1> QED
  BY <1>7, <1>8, <1>9 DEF Outcome, n

-----------------------------------------------------------------------------
(* The restore.                                                            *)

\* One record is written: what counts as a success was one, and of a record
\* that no earlier success was counted for.
LEMMA WriteStep ==
    ASSUME IsLink(link), "nv" \in DOMAIN Modem, DOMAIN Modem.nv = NvIds,
           NEW s, NEW t, Records(s, t), NEW n \in Nat, n < Len(s),
           Promised(s, Modem.nv, link.pending, n),
           NEW c \in Nat, c <= Cardinality(Settled(s, Modem.nv, link.pending, n)),
           NEW o \in NvWrite(s[n + 1].id, s[n + 1].data)
    PROVE  /\ IsLink(o.link) /\ "nv" \in DOMAIN o.link.modem /\ DOMAIN o.link.modem.nv = NvIds
           /\ Promised(s, o.link.modem.nv, o.link.pending, n + 1)
           /\ c + (IF Written("nvwrite", o.answer) THEN 1 ELSE 0)
                <= Cardinality(Settled(s, o.link.modem.nv, o.link.pending, n + 1))
<1> DEFINE id == s[n + 1].id
           m == IF Writes(id) THEN [Modem EXCEPT !.nv[id] = s[n + 1].data] ELSE Modem
           reply == NvAnswer("nvwrite", 133, id, Status(id))
           box == Append(link.pending, reply)
           GoodOne(a) == Written("nvwrite", a)
<1>1. Len(s) \in Nat /\ id \in NvIds /\ NvIds \subseteq Nat /\ n + 1 \in 1..Len(s)
      /\ \A i \in 1..Len(s) : s[i].id \in Nat
  BY OverRange, Numbers DEF Records
<1>2. \A i \in 1..n : s[i].id < id
  BY <1>1 DEF Records, Rising
<1>3. /\ "nv" \in DOMAIN m /\ DOMAIN m.nv = NvIds
      /\ Writes(id) => Held(s, n + 1, m.nv)
      /\ \A i \in 1..n : Held(s, i, Modem.nv) => Held(s, i, m.nv)
  BY <1>1, <1>2 DEF Held
<1>4. /\ reply.class = "nvwrite" /\ reply.id = id
      /\ GoodOne(reply) => Writes(id)
  BY DEF NvAnswer, Reply, Nothing, Status, Written
<1>5. ~GoodOne(Nothing)
  BY DEF Written, IsRecord, Nothing
<1>6. Len(box) = Len(link.pending) + 1 /\ Len(link.pending) \in Nat
      /\ \A i \in 1..Len(box) :
            \/ i = Len(box) /\ box[i] = reply
            \/ i \in 1..Len(link.pending) /\ box[i] = link.pending[i]
  BY Appended, OverRange, AppendProperties DEF IsLink
<1>7. IsLink(o.link) /\ (Unsent(o) \/ Outcome(o, m, box))
  BY Framed, <1>4 DEF Accepts, NvWrite
<1> HIDE DEF box, m, reply, id, GoodOne
<1>8. Promised(s, m.nv, box, n + 1)
  <2>1. ASSUME NEW k \in 1..Len(box), GoodOne(box[k])
        PROVE  \E i \in 1..(n + 1) : /\ box[k].id = s[i].id /\ Held(s, i, m.nv)
                                     /\ k # Len(box) => i \in 1..n
    <3>1. CASE k = Len(box) /\ box[k] = reply
      <4>1. reply.id = s[n + 1].id /\ Held(s, n + 1, m.nv)
        BY <1>3, <1>4, <2>1, <3>1 DEF id
      <4>2. n + 1 \in 1..(n + 1)
        OBVIOUS
      <4> QED
        BY <3>1, <4>1, <4>2
    <3>2. CASE k \in 1..Len(link.pending) /\ box[k] = link.pending[k]
      <4>1. PICK i \in 1..n : box[k].id = s[i].id /\ Held(s, i, Modem.nv)
        BY <2>1, <3>2 DEF Promised, GoodOne
      <4>2. i \in 1..(n + 1) /\ Held(s, i, m.nv)
        BY <1>3, <4>1
      <4> QED
        BY <4>1, <4>2
    <3> QED
      BY <1>6, <3>1, <3>2
  <2>2. \A k, l \in 1..Len(box) :
          k < l /\ GoodOne(box[k]) /\ GoodOne(box[l]) => box[k].id < box[l].id
    <3>1. \A k \in 1..Len(box) : GoodOne(box[k]) /\ k # Len(box) => box[k].id < id
      BY <1>2, <2>1
    <3>2. box[Len(box)] = reply
      BY <1>6
    <3>3. \A k \in 1..Len(box) : k # Len(box) =>
             k \in 1..Len(link.pending) /\ box[k] = link.pending[k]
      BY <1>6
    <3>4. \A k, l \in 1..Len(box) : k < l /\ l # Len(box) /\ GoodOne(box[k]) /\ GoodOne(box[l])
             => box[k].id < box[l].id
      <4>1. \A k, l \in 1..Len(link.pending) :
               k < l /\ GoodOne(link.pending[k]) /\ GoodOne(link.pending[l])
                 => link.pending[k].id < link.pending[l].id
        BY DEF Promised, GoodOne
      <4>2. \A k, l \in 1..Len(box) : k < l => k # Len(box)
        BY <1>6
      <4> QED
        BY <3>3, <4>1, <4>2
    <3>5. \A k \in 1..Len(box) : k < Len(box) /\ GoodOne(box[k]) => box[k].id < box[Len(box)].id
      BY <1>4, <1>6, <3>1, <3>2
    <3> QED
      BY <3>4, <3>5
  <2> QED
    BY <2>1, <2>2 DEF Promised, GoodOne
<1> DEFINE Old == Settled(s, Modem.nv, link.pending, n)
           New(q, table) == Settled(s, table, q, n + 1)
<1>9. /\ IsFiniteSet(Old) /\ Cardinality(Old) \in Nat
      /\ \A q, table : IsFiniteSet(New(q, table)) /\ Cardinality(New(q, table)) \in Nat
  <2>1. IsFiniteSet(1..n) /\ IsFiniteSet(1..(n + 1))
    BY FS_Interval
  <2>2. Old \subseteq 1..n /\ \A q, table : New(q, table) \subseteq 1..(n + 1)
    BY DEF Settled
  <2> QED
    BY <2>1, <2>2, FS_Subset, FS_CardinalityType
<1>10. ASSUME NEW S, NEW i, IsFiniteSet(S), Old \subseteq S, i \in S, i \notin Old
       PROVE  c + 1 <= Cardinality(S)
  <2>1. Cardinality(Old \cup {i}) = Cardinality(Old) + 1 /\ Old \cup {i} \in SUBSET S
    BY <1>9, <1>10, FS_AddElement
  <2>2. Cardinality(Old \cup {i}) <= Cardinality(S) /\ Cardinality(S) \in Nat
    BY <1>10, <2>1, FS_Subset, FS_CardinalityType
  <2> QED
    BY <1>9, <2>1, <2>2
<1>11. ASSUME NEW S, IsFiniteSet(S), Old \subseteq S
       PROVE  c <= Cardinality(S)
  <2>1. Cardinality(Old) <= Cardinality(S) /\ Cardinality(S) \in Nat
    BY <1>11, FS_Subset, FS_CardinalityType
  <2> QED
    BY <1>9, <2>1
<1>12. CASE Unsent(o)
  <2>1. Promised(s, Modem.nv, link.pending, n + 1)
    BY DEF Promised
  <2>2. Old \subseteq New(link.pending, Modem.nv)
    BY DEF Settled
  <2>3. c <= Cardinality(New(link.pending, Modem.nv))
    BY <1>9, <1>11, <2>2
  <2> QED
    BY <1>5, <1>7, <1>12, <2>1, <2>3 DEF Unsent, GoodOne
<1>13. ASSUME NEW k \in 0..Len(box), Follows(o.link.pending, box, k), o.link.modem = m,
              o.answer = Nothing \/ (k \in 1..Len(box) /\ o.answer = box[k])
       PROVE  /\ Promised(s, m.nv, o.link.pending, n + 1)
              /\ c + (IF GoodOne(o.answer) THEN 1 ELSE 0) <= Cardinality(New(o.link.pending, m.nv))
  <2> DEFINE q == o.link.pending
  <2>1. \A j \in 1..Len(q) : k + j \in 1..Len(box) /\ q[j] = box[k + j] /\ k < k + j
        /\ \A l \in 1..Len(q) : j < l => k + j < k + l
    BY <1>6, <1>13 DEF Follows
  <2> HIDE DEF q
  <2>2. Promised(s, m.nv, q, n + 1)
    BY <1>8, <2>1 DEF Promised
  <2>3. Old \subseteq New(q, m.nv)
    <3> SUFFICES ASSUME NEW i \in Old
                 PROVE  i \in New(q, m.nv)
      OBVIOUS
    <3>1. i \in 1..n /\ Held(s, i, Modem.nv)
          /\ \A l \in 1..Len(link.pending) : GoodOne(link.pending[l]) => s[i].id < link.pending[l].id
      BY DEF Settled, GoodOne
    <3>2. \A l \in 1..Len(box) : GoodOne(box[l]) => s[i].id < box[l].id
      BY <1>2, <1>4, <1>6, <3>1
    <3> QED
      BY <1>3, <2>1, <3>1, <3>2 DEF Settled, GoodOne
  <2>4. CASE ~GoodOne(o.answer)
    BY <1>9, <1>11, <2>2, <2>3, <2>4 DEF q
  <2>5. CASE GoodOne(o.answer)
    <3>1. k \in 1..Len(box) /\ o.answer = box[k]
      BY <1>5, <1>13, <2>5
    <3>2. PICK i \in 1..(n + 1) : box[k].id = s[i].id /\ Held(s, i, m.nv)
      BY <1>8, <2>5, <3>1 DEF Promised, GoodOne
    <3>3. i \in New(q, m.nv)
      BY <1>8, <2>1, <2>5, <3>1, <3>2 DEF Promised, Settled, GoodOne
    <3>4. i \notin Old
      <4>1. CASE k \in 1..Len(link.pending) /\ box[k] = link.pending[k]
        <5>1. GoodOne(link.pending[k]) /\ ~(s[i].id < link.pending[k].id)
          BY <1>1, <2>5, <3>1, <3>2, <4>1
        <5> QED
          BY <4>1, <5>1 DEF Settled, GoodOne
      <4>2. CASE box[k] = reply
        <5>1. i \notin 1..n
          BY <1>1, <1>2, <1>4, <3>2, <4>2
        <5> QED
          BY <5>1 DEF Settled
      <4> QED
        BY <1>6, <3>1, <4>1, <4>2
    <3> QED
      BY <1>9, <1>10, <2>2, <2>3, <2>5, <3>3, <3>4 DEF q
  <2> QED
    BY <2>4, <2>5
<1>14. CASE Outcome(o, m, box)
  <2>1. PICK k \in 0..Len(box) :
           /\ o.link.modem = m /\ Follows(o.link.pending, box, k)
           /\ o.answer = Nothing \/ (k \in 1..Len(box) /\ o.answer = box[k])
    BY <1>14 DEF Outcome
  <2> QED
    BY <1>3, <1>7, <1>13, <2>1 DEF GoodOne
<1> QED
  BY <1>7, <1>12, <1>14

-----------------------------------------------------------------------------
(* The requests that have nothing to do with NV items.                     *)

\* The NV items of m are those of the modem.
SameNv(m) ==
    /\ "nv" \in DOMAIN Modem => "nv" \in DOMAIN m /\ m.nv = Modem.nv
    /\ "sim" \in DOMAIN Modem => "sim" \in DOMAIN m /\ m.sim = Modem.sim

\* What an answer is told by.
LEMMA Replies ==
    /\ \A class, size, words : Reply(class, size, words).class = class
                               /\ Reply(class, size, words).size = size
    /\ ErrorReply.class = "error"
    /\ Nothing.class = "none"
  BY DEF Reply, Nothing, ErrorReply

\* A request that leaves the NV items alone.
LEMMA Sends ==
    ASSUME IsLink(link), NEW class, NEW modem, SameNv(modem), NEW reply, Accepts(class, reply),
           NEW o \in Send(class, modem, reply)
    PROVE  IsLink(o.link) /\ SameNv(o.link.modem)
<1>1. SameNv(Modem)
  BY DEF SameNv
<1> QED
  BY <1>1, Arrived

\* The same for a request to an EFS subsystem.
LEMMA Serves ==
    ASSUME IsLink(link), NEW m, NEW modem, SameNv(modem), NEW reply, reply.class = "subsys",
           NEW o \in Subsystem(m, modem, reply)
    PROVE  IsLink(o.link) /\ SameNv(o.link.modem)
<1>1. SameNv(Modem)
  BY DEF SameNv
<1>2. Accepts("subsys", reply) /\ Accepts("subsys", ErrorReply)
  BY Replies DEF Accepts
<1> QED
  BY <1>1, <1>2, Sends DEF Subsystem

\* The requests of the tree walk and of the restore.
LEMMA Asks ==
    ASSUME IsLink(link), NEW o,
           \/ \E path : o \in Opendir(path)
           \/ \E h, seqno : o \in Readdir(h, seqno)
           \/ \E path : o \in Stat(path)
           \/ \E h : o \in Closedir(h)
           \/ \E path : o \in Open(path)
           \/ \E h, offset : o \in Read(h, offset)
           \/ \E h : o \in Close(h)
           \/ o \in Sync
           \/ \E class, size : o \in Send(class, Modem, Reply(class, size, Done))
    PROVE  IsLink(o.link) /\ SameNv(o.link.modem)
<1> DEFINE Dirs(d) == [Modem EXCEPT !.dirs = d]
           Fds(d) == [Modem EXCEPT !.fds = d]
           IsDone == IsLink(o.link) /\ SameNv(o.link.modem)
<1>1. SameNv(Modem) /\ \A d : SameNv(Dirs(d)) /\ SameNv(Fds(d))
  BY DEF SameNv
<1>2. \A modem, size, words : SameNv(modem) /\ o \in Efs(modem, size, words) => IsDone
  BY Serves, Replies DEF Efs
<1>3. \A modem, reply : SameNv(modem) /\ reply.class = "subsys" /\ o \in Subsystem(method, modem, reply)
                          => IsDone
  BY Serves
<1> HIDE DEF IsDone, Dirs, Fds
<1>4. CASE \E path : o \in Opendir(path)
  <2>1. \/ \E size, words : o \in Efs(Modem, size, words)
        \/ \E d, size, words : o \in Efs(Dirs(d), size, words)
    BY <1>4 DEF Opendir, Dirs
  <2> QED
    BY <1>1, <1>2, <2>1 DEF IsDone
<1>5. CASE \E h, seqno : o \in Readdir(h, seqno)
  <2>1. \/ \E size, words : o \in Efs(Modem, size, words)
        \/ \E size, words, name :
              o \in Subsystem(method, Modem, [Reply("subsys", size, words) EXCEPT !.name = name])
    BY <1>5 DEF Readdir
  <2>2. \A size, words, name : [Reply("subsys", size, words) EXCEPT !.name = name].class = "subsys"
    BY DEF Reply, Nothing
  <2> QED
    BY <1>1, <1>2, <1>3, <2>1, <2>2 DEF IsDone
<1>6. CASE \E path : o \in Stat(path)
  <2>1. \E size, words : o \in Efs(Modem, size, words)
    BY <1>6 DEF Stat
  <2> QED
    BY <1>1, <1>2, <2>1 DEF IsDone
<1>7. CASE \E h : o \in Closedir(h)
  <2>1. \E d, size, words : o \in Efs(Dirs(d), size, words)
    BY <1>7 DEF Closedir, Dirs
  <2> QED
    BY <1>1, <1>2, <2>1 DEF IsDone
<1>8. CASE \E path : o \in Open(path)
  <2>1. \/ \E size, words : o \in Efs(Modem, size, words)
        \/ \E d, size, words : o \in Efs(Fds(d), size, words)
    BY <1>8 DEF Open, Fds
  <2> QED
    BY <1>1, <1>2, <2>1 DEF IsDone
<1>9. CASE \E h, offset : o \in Read(h, offset)
  <2>1. \/ \E size, words : o \in Efs(Modem, size, words)
        \/ \E size, words, src :
              o \in Subsystem(method, Modem, [Reply("subsys", size, words) EXCEPT !.src = src])
    BY <1>9 DEF Read
  <2>2. \A size, words, src : [Reply("subsys", size, words) EXCEPT !.src = src].class = "subsys"
    BY DEF Reply, Nothing
  <2> QED
    BY <1>1, <1>2, <1>3, <2>1, <2>2 DEF IsDone
<1>10. CASE \E h : o \in Close(h)
  <2>1. \E d, size, words : o \in Efs(Fds(d), size, words)
    BY <1>10 DEF Close, Fds
  <2> QED
    BY <1>1, <1>2, <2>1 DEF IsDone
<1>11. CASE o \in Sync
  BY <1>1, <1>2, <1>11 DEF Sync, IsDone
<1>12. CASE \E class, size : o \in Send(class, Modem, Reply(class, size, Done))
  BY <1>1, <1>12, Sends, Replies DEF Accepts, IsDone
<1> QED
  BY <1>4, <1>5, <1>6, <1>7, <1>8, <1>9, <1>10, <1>11, <1>12 DEF IsDone

\* Requests whose answers no scan and no restore takes for its own.
LEMMA Quiet ==
    ASSUME IsLink(link), Silent(link.pending), NEW class, NEW reply,
           Accepts(class, reply), Unasked(reply), NEW o \in Send(class, Modem, reply)
    PROVE  IsLink(o.link) /\ Silent(o.link.pending) /\ o.link.modem = Modem
<1>1. /\ IsLink(o.link) /\ o.link.modem = Modem
      /\ \A j \in 1..Len(o.link.pending) :
                 \/ o.link.pending[j] = reply
                 \/ \E i \in 1..Len(link.pending) : o.link.pending[j] = link.pending[i]
  BY Arrived
<1> QED
  BY <1>1 DEF Silent

\* Those with which a session begins are such.
LEMMA ConnectingSays ==
    ASSUME IsLink(link), Silent(link.pending), NEW o,
           \/ \E size : \E class \in {"spc", "password", "control"} :
                 o \in Send(class, Modem, Reply(class, size, Done))
           \/ \E m : o \in Hello(m)
           \/ o \in Query
    PROVE  IsLink(o.link) /\ Silent(o.link.pending) /\ o.link.modem = Modem
<1>1. \A size : \A class \in {"spc", "password", "control"} :
         Accepts(class, Reply(class, size, Done)) /\ Unasked(Reply(class, size, Done))
  BY Replies DEF Accepts, Unasked, IsRecord
<1>2. /\ Accepts("subsys", ErrorReply) /\ Unasked(ErrorReply)
      /\ \A words : /\ Accepts("subsys", Reply("subsys", 44, words))
                    /\ Unasked(Reply("subsys", 44, words))
                    /\ Accepts("subsys", Reply("subsys", 32, words))
                    /\ Unasked(Reply("subsys", 32, words))
  BY Replies DEF Accepts, Unasked, IsRecord
<1>3. \/ \E size : \E class \in {"spc", "password", "control"} :
            o \in Send(class, Modem, Reply(class, size, Done))
      \/ o \in Send("subsys", Modem, ErrorReply)
      \/ \E words : o \in Send("subsys", Modem, Reply("subsys", 44, words))
      \/ \E words : o \in Send("subsys", Modem, Reply("subsys", 32, words))
  BY DEF Hello, Query, Efs, Subsystem
<1> QED
  BY <1>1, <1>2, <1>3, Quiet

-----------------------------------------------------------------------------
(* Each step keeps the invariant.                                          *)

InXqcn == setup \in Setups /\ setup' = setup /\ setup.cmd = "xqcn" /\ IsLink(link)
Goes == IsLink(link') /\ (Backup' \/ Restore')

\* No records.
LEMMA NoRecords ==
    ASSUME NEW table, NEW q, Silent(q)
    PROVE  /\ Records(<< >>, table)
           /\ \A n : Scanned("nvread", << >>, table, q, n)
           /\ NoSubRecord(q)
<1>1. << >> \in Seq(Range(<< >>)) /\ Len(<< >>) = 0
  BY EmptySeq DEF Range
<1>2. Records(<< >>, table)
  BY <1>1 DEF Records, Rising
<1>3. \A k \in 1..Len(q) : ~IsRecord("nvread", q[k]) /\ ~IsRecord("subsys", q[k])
  BY DEF Silent, Unasked, IsRecord
<1> QED
  BY <1>1, <1>2, <1>3 DEF Scanned, Unread, NoSubRecord

\* A number that no record is counted in.
LEMMA AtLeastNone ==
    ASSUME NEW n \in Nat, NEW P, P \subseteq 1..n
    PROVE  0 <= Cardinality(P) /\ IsFiniteSet(P) /\ Cardinality(P) \in Nat
<1>1. IsFiniteSet(1..n)
  BY FS_Interval
<1>2. IsFiniteSet(P)
  BY <1>1, FS_Subset
<1>3. Cardinality(P) \in Nat
  BY <1>2, FS_CardinalityType
<1> QED
  BY <1>2, <1>3

\* The requests that open a session.
LEMMA Connects ==
    ASSUME InXqcn, Backup \/ Restore, UNCHANGED xqcnVars,
           SendSpc \/ SendPassword \/ DetectAlt \/ DetectStd \/ EfsQuery
    PROVE  Goes
<1> USE DEF InXqcn
<1>1. pc \in Connecting
  BY DEF SendSpc, SendPassword, DetectAlt, DetectStd, EfsDetect, EfsQuery, Connecting
<1>2. Silent(link.pending) /\ cursor = 0 /\ nvWritten = 0 /\ job \in {"xqcn", "xqcn_restore"}
  BY <1>1 DEF Backup, Captures, Restore, Restores, Connecting, Walking, Writing
<1>3. PICK o : /\ link' = o.link
               /\ \/ \E size : \E class \in {"spc", "password", "control"} :
                        o \in Send(class, Modem, Reply(class, size, Done))
                  \/ \E m : o \in Hello(m)
                  \/ o \in Query
  BY DEF SendSpc, SendPassword, DetectAlt, DetectStd, EfsDetect, EfsQuery, Take
<1>4. IsLink(link') /\ Silent(link.pending)' /\ Modem' = Modem
  BY <1>2, <1>3, ConnectingSays DEF Modem
<1>5. job' = job /\ pc' \in Connecting \cup {job, "end"}
  BY <1>2 DEF SendSpc, SendPassword, DetectAlt, DetectStd, EfsDetect, EfsQuery, Connecting, Go, End,
              commandVars, FirstRequest
<1>6. /\ cursor' = cursor /\ def' = def /\ sim1' = sim1 /\ doc' = doc /\ nvWritten' = nvWritten
  BY DEF xqcnVars
<1>7. CASE Backup
  <2>1. def = << >> /\ sim1 = << >> /\ job = "xqcn"
    BY <1>1, <1>7 DEF Backup, Captures, Connecting, Walking, Writing
  <2>2. 0 \in NvIds
    BY Numbers
  <2>3. /\ Records(<< >>, Modem.nv)' /\ Records(<< >>, Modem.sim)'
        /\ Scanned("nvread", << >>, Modem.nv, link.pending, 0)' /\ NoSubRecord(link.pending)'
    <3>1. PICK q, t1, t2 : q = link'.pending /\ t1 = Modem'.nv /\ t2 = Modem'.sim
      OBVIOUS
    <3>2. Silent(q)
      BY <1>4, <3>1
    <3> QED
      BY <3>1, <3>2, NoRecords
  <2>4. Captures'
    BY <1>2, <1>4, <1>5, <1>6, <2>1, <2>2, <2>3 DEF Captures, Walking, Writing, Connecting
  <2> QED
    BY <1>4, <1>5, <1>6, <1>7, <2>1, <2>4 DEF Goes, Backup
<1>8. CASE Restore
  <2>1. def \in Seq(Range(def)) /\ job = "xqcn_restore" /\ Len(def) \in Nat
    BY <1>8, OverRange DEF Restore, Records
  <2>2. 0 <= Cardinality({i \in 1..Len(def) : Held(def, i, Modem.nv)}')
    BY <1>6, <2>1, AtLeastNone
  <2>3. Restores'
    BY <1>2, <1>4, <1>5, <1>6, <2>1, <2>2 DEF Restores, Connecting
  <2> QED
    BY <1>4, <1>5, <1>6, <1>8, <2>3 DEF Goes, Restore
<1> QED
  BY <1>7, <1>8

\* The scans.
LEMMA Scans ==
    ASSUME InXqcn, Backup, Scan \/ ScanSim
    PROVE  Goes
<1> USE DEF InXqcn
<1>1. LastId \in Nat /\ NvIds = 0..LastId
  BY Numbers
<1>2. cursor \in NvIds /\ cursor # LastId => cursor + 1 \in NvIds
  BY <1>1
<1>3. \A n \in NvIds : 0 \in NvIds
  BY <1>1
<1>4. CASE Scan
  <2> DEFINE reply == NvAnswer("nvread", 133, cursor, Modem.nv[cursor])
  <2>1. /\ sim1 = << >> /\ cursor \in NvIds /\ NoSubRecord(link.pending)
        /\ Scanned("nvread", def, Modem.nv, link.pending, cursor)
    BY <1>4 DEF Backup, Captures, Scan, Connecting, Walking, Writing
  <2>2. PICK o \in Send("nvread", Modem, reply) : link' = o.link /\ def' = Captured("nvread", def, o.answer)
    BY <1>4 DEF Scan, Take, NvRead
  <2>3. /\ reply.class = "nvread" /\ IsRecord("nvread", reply) /\ ~IsRecord("subsys", reply)
        /\ reply.id = cursor /\ reply.data = Modem.nv[cursor]
    BY DEF NvAnswer, Reply, Nothing, IsRecord
  <2> HIDE DEF reply
  <2>4. Scanned("nvread", def', Modem.nv, o.link.pending, cursor + 1)
    BY <2>1, <2>2, <2>3, ScanStep
  <2>5. IsLink(o.link) /\ o.link.modem = Modem /\ NoSubRecord(o.link.pending)
    <3>1. Accepts("nvread", reply)
      BY <2>3 DEF Accepts
    <3> QED
      BY <2>1, <2>2, <2>3, <3>1, Arrived DEF NoSubRecord
  <2>6. Modem' = Modem
    BY <2>2, <2>5 DEF Modem
  <2>7. Records(def', Modem.nv)
    BY <2>4 DEF Scanned
  <2>8. UNCHANGED << job, sim1, nvWritten >>
        /\ \/ cursor = LastId /\ cursor' = 0 /\ pc' = "scan_sim"
           \/ cursor # LastId /\ cursor' = cursor + 1 /\ pc' = "xqcn"
    BY <1>4 DEF Scan, ScanNext, Go, sessionVars, restoreVars
  <2>9. Scanned("subsys", << >>, Modem.sim, o.link.pending, 0)
    BY <2>5, EmptySeq DEF Scanned, Records, Rising, Unread, NoSubRecord, Range
  <2>10. Captures'
    BY <1>2, <1>3, <2>1, <2>2, <2>4, <2>5, <2>6, <2>7, <2>8, <2>9 DEF Captures
  <2> QED
    BY <2>2, <2>5, <2>6, <2>8, <2>10 DEF Goes, Backup
<1>5. CASE ScanSim
  <2> DEFINE reply == NvAnswer("subsys", 138, cursor, Modem.sim[cursor])
  <2>1. /\ Records(def, Modem.nv) /\ cursor \in NvIds
        /\ Scanned("subsys", sim1, Modem.sim, link.pending, cursor)
    BY <1>5 DEF Backup, Captures, ScanSim, Connecting, Walking, Writing
  <2>2. PICK o \in Send("subsys", Modem, reply) : link' = o.link /\ sim1' = Captured("subsys", sim1, o.answer)
    BY <1>5 DEF ScanSim, Take, NvReadSub
  <2>3. /\ reply.class = "subsys" /\ IsRecord("subsys", reply)
        /\ reply.id = cursor /\ reply.data = Modem.sim[cursor]
    BY DEF NvAnswer, Reply, Nothing, IsRecord
  <2> HIDE DEF reply
  <2>4. Scanned("subsys", sim1', Modem.sim, o.link.pending, cursor + 1)
    BY <2>1, <2>2, <2>3, ScanStep
  <2>5. IsLink(o.link) /\ o.link.modem = Modem
    <3>1. Accepts("subsys", reply)
      BY <2>3 DEF Accepts
    <3> QED
      BY <2>2, <3>1, Arrived
  <2>6. Modem' = Modem
    BY <2>2, <2>5 DEF Modem
  <2>7. Records(sim1', Modem.sim)
    BY <2>4 DEF Scanned
  <2>8. UNCHANGED << job, def, nvWritten >>
        /\ \/ cursor = LastId /\ cursor' = 0 /\ pc' = "x_opendir"
           \/ cursor # LastId /\ cursor' = cursor + 1 /\ pc' = "scan_sim"
    BY <1>5 DEF ScanSim, ScanNext, Go, sessionVars, restoreVars
  <2>9. Captures'
    BY <1>2, <2>1, <2>2, <2>4, <2>6, <2>7, <2>8 DEF Captures, Walking, Writing
  <2> QED
    BY <2>2, <2>5, <2>6, <2>8, <2>9 DEF Goes, Backup
<1> QED
  BY <1>4, <1>5

\* The tree walk and the metadata.
LEMMA Walks ==
    ASSUME InXqcn, Backup,
           \/ WalkOpendir \/ WalkReaddir \/ WalkStat \/ WalkClosedir \/ WalkEntry \/ Probe
           \/ AddStat \/ AddOpen \/ AddRead \/ AddClose \/ FeatureQuery \/ BuildId
    PROVE  Goes
<1> USE DEF InXqcn, Writing
<1>1. pc \in Walking \ {"write"}
  BY DEF WalkOpendir, WalkReaddir, WalkStat, WalkClosedir, WalkEntry, Probe, AddStat, AddOpen,
         AddRead, AddClose, FeatureQuery, BuildId, Metadata, Walking
<1>2. Records(def, Modem.nv) /\ Records(sim1, Modem.sim) /\ (pc \in Writing => cursor = 0)
  BY <1>1 DEF Backup, Captures, Connecting, Walking
<1>3. UNCHANGED << job, def, sim1, nvWritten >>
  BY DEF WalkOpendir, WalkReaddir, WalkStat, WalkClosedir, WalkEntry, Probe, AddStat, AddOpen,
         AddRead, AddClose, FeatureQuery, BuildId, Metadata, WalkVars, AddVars, sessionVars,
         restoreVars, xqcnVars
<1>4. pc' \in Walking /\ (pc' \in Writing => cursor' = 0)
  <2>1. CASE WalkOpendir \/ WalkReaddir \/ WalkStat \/ WalkClosedir \/ WalkEntry \/ Probe
    BY <2>1 DEF WalkOpendir, WalkReaddir, WalkStat, WalkClosedir, WalkEntry, Probe, Walking, Go
  <2>2. CASE AddStat \/ AddOpen \/ AddRead \/ AddClose
    BY <2>2 DEF AddStat, AddOpen, AddRead, AddClose, AddReturns, Walking, Go
  <2>3. CASE FeatureQuery \/ BuildId
    BY <1>2, <2>3 DEF FeatureQuery, BuildId, Metadata, Walking, Go, xqcnVars
  <2> QED
    BY <2>1, <2>2, <2>3
<1>5. \/ link' = link
      \/ \E o : /\ link' = o.link
                /\ \/ \E path : o \in Opendir(path)
                   \/ \E h, seqno : o \in Readdir(h, seqno)
                   \/ \E path : o \in Stat(path)
                   \/ \E h : o \in Closedir(h)
                   \/ \E path : o \in Open(path)
                   \/ \E h, offset : o \in Read(h, offset)
                   \/ \E h : o \in Close(h)
                   \/ \E class, size : o \in Send(class, Modem, Reply(class, size, Done))
  <2>1. CASE WalkOpendir \/ WalkReaddir \/ WalkStat \/ WalkClosedir
    BY <2>1 DEF WalkOpendir, WalkReaddir, WalkStat, WalkClosedir, Take
  <2>2. CASE WalkEntry \/ Probe
    BY <2>2 DEF WalkEntry, Probe
  <2>3. CASE AddStat \/ AddOpen \/ AddRead \/ AddClose
    BY <2>3 DEF AddStat, AddOpen, AddRead, AddClose, Take
  <2>4. CASE FeatureQuery \/ BuildId
    BY <2>4 DEF FeatureQuery, BuildId, Metadata, Take
  <2> QED
    BY <2>1, <2>2, <2>3, <2>4
<1>6. IsLink(link') /\ SameNv(link'.modem)
  BY <1>5, Asks DEF SameNv, Modem
<1>7. {"nv", "sim"} \subseteq DOMAIN Modem' /\ Modem'.nv = Modem.nv /\ Modem'.sim = Modem.sim
  BY <1>6 DEF SameNv, Modem, Backup
<1>8. Captures'
  BY <1>2, <1>3, <1>4, <1>7 DEF Captures
<1> QED
  BY <1>3, <1>6, <1>7, <1>8 DEF Goes, Backup

\* The document, from which the other modem is restored.
LEMMA RestoreWrites ==
    ASSUME InXqcn, Backup, WriteDocument
    PROVE  Goes
<1> USE DEF InXqcn
<1>1. Records(def, Modem.nv) /\ Records(sim1, Modem.sim) /\ cursor = 0 /\ pc = "write"
  BY DEF Backup, Captures, WriteDocument, Walking, Writing, Connecting
<1>2. UNCHANGED << cursor, def, sim1, nvWritten >>
  BY DEF WriteDocument
<1>3. CASE setup.canCreate
  <2>1. /\ link' = [link EXCEPT !.modem = setup.target, !.pending = << >>]
        /\ doc'.def = def /\ job' = "xqcn_restore" /\ pc' = "spc"
    BY <1>3 DEF WriteDocument, Go
  <2>2. IsLink(link') /\ link'.pending = << >> /\ Modem' = setup.target /\ Silent(link'.pending)
    BY <2>1, EmptySeq DEF IsLink, Modem, Silent, Range
  <2>3. "nv" \in DOMAIN Modem' /\ DOMAIN Modem'.nv = NvIds
    BY <2>2, SessionSetups
  <2>4. Restores'
    BY <1>1, <1>2, <2>1, <2>2 DEF Restores, Connecting, Backup
  <2> QED
    BY <1>1, <1>2, <2>1, <2>2, <2>3, <2>4 DEF Goes, Restore, Backup
<1>4. CASE ~setup.canCreate
  <2>1. UNCHANGED << link, job >> /\ pc' = "end"
    BY <1>4 DEF WriteDocument, End
  <2>2. Captures'
    BY <1>1, <1>2, <2>1 DEF Captures, Writing, Modem
  <2> QED
    BY <1>2, <2>1, <2>2 DEF Goes, Backup, Modem
<1> QED
  BY <1>3, <1>4

\* The restore.
LEMMA RestoresNv ==
    ASSUME InXqcn, Restore,
           \/ Offline \/ RestoreNv \/ SyncAfterNv \/ Reset
           \/ \E s \in {"Prov", "Backup", "NvItems"} : RestoreFile(s)
    PROVE  Goes
<1> USE DEF InXqcn
<1>1. def \in Seq(Range(def)) /\ Len(def) \in Nat /\ doc.def = def
      /\ Records(def, setup.modem.nv)
  BY OverRange DEF Restore, Records
<1>2. UNCHANGED << job, def, sim1, doc >>
  BY DEF Offline, RestoreNv, SyncAfterNv, Reset, RestoreFile, sessionVars, xqcnVars
<1>3. ASSUME IsLink(link'), "nv" \in DOMAIN Modem', DOMAIN Modem'.nv = NvIds, Restores',
             nvWritten' \in Nat
      PROVE  Goes
  BY <1>2, <1>3 DEF Restore, Goes
<1>4. ASSUME IsLink(link'), SameNv(link'.modem)
      PROVE  Modem'.nv = Modem.nv /\ "nv" \in DOMAIN Modem' /\ DOMAIN Modem'.nv = NvIds
  BY <1>4 DEF SameNv, Modem, Restore
<1>5. CASE Offline
  <2>1. PICK o : link' = o.link /\ \E size : o \in Send("control", Modem, Reply("control", size, Done))
    BY <1>5 DEF Offline, Take
  <2>2. Silent(link.pending) /\ cursor = 0 /\ nvWritten = 0
    BY <1>5 DEF Offline, Restore, Restores
  <2>3. IsLink(o.link) /\ Silent(o.link.pending) /\ o.link.modem = Modem
    BY <2>1, <2>2, ConnectingSays
  <2>4. pc' = "nv" /\ UNCHANGED << cursor, nvWritten >>
    BY <1>5 DEF Offline, Go, xqcnVars
  <2>5. Promised(def', Modem'.nv, link'.pending, 0)
    BY <2>1, <2>3 DEF Promised, Silent, Unasked, Written, IsRecord
  <2>6. 0 <= Cardinality(Settled(def', Modem'.nv, link'.pending, 0))
    <3>1. Settled(def', Modem'.nv, link'.pending, 0) \subseteq 1..0
      BY DEF Settled
    <3> QED
      BY <3>1, AtLeastNone
  <2>7. Restores'
    BY <1>1, <1>2, <2>2, <2>4, <2>5, <2>6 DEF Restores
  <2> QED
    BY <1>3, <2>1, <2>2, <2>3, <2>4, <2>7 DEF Restore, Modem
<1>6. CASE RestoreNv
  <2>1. /\ cursor \in 0..Len(def) /\ Promised(def, Modem.nv, link.pending, cursor)
        /\ nvWritten <= Cardinality(Settled(def, Modem.nv, link.pending, cursor))
        /\ nvWritten \in Nat /\ "nv" \in DOMAIN Modem /\ DOMAIN Modem.nv = NvIds
    BY <1>6 DEF RestoreNv, Restore, Restores, Connecting
  <2>2. CASE cursor = Len(def)
    <3>1. pc' = "sync" /\ UNCHANGED << link, nvWritten >>
      BY <1>1, <1>6, <2>2 DEF RestoreNv, Go
    <3>2. Settled(def, Modem.nv, link.pending, cursor) \subseteq {i \in 1..Len(def) : Held(def, i, Modem.nv)}
      BY <2>2 DEF Settled
    <3>3. nvWritten <= Cardinality({i \in 1..Len(def) : Held(def, i, Modem.nv)})
      <4> DEFINE S == Settled(def, Modem.nv, link.pending, cursor)
                 H == {i \in 1..Len(def) : Held(def, i, Modem.nv)}
      <4>1. IsFiniteSet(H) /\ Cardinality(H) \in Nat
        BY <1>1, AtLeastNone
      <4>2. Cardinality(S) \in Nat /\ Cardinality(S) <= Cardinality(H)
        BY <3>2, <4>1, FS_Subset, FS_CardinalityType
      <4> QED
        BY <2>1, <4>1, <4>2
    <3>4. Restores'
      BY <1>2, <3>1, <3>3 DEF Restores, Modem
    <3> QED
      BY <1>3, <2>1, <3>1, <3>4 DEF Modem
  <2>3. CASE cursor # Len(def)
    <3>1. PICK o \in NvWrite(def[cursor + 1].id, def[cursor + 1].data) :
             /\ link' = o.link
             /\ nvWritten' = nvWritten + IF Written("nvwrite", o.answer) THEN 1 ELSE 0
             /\ cursor' = cursor + 1 /\ pc' = pc
      BY <1>1, <1>6, <2>3 DEF RestoreNv, Take
    <3>2. cursor \in Nat /\ cursor < Len(def)
      BY <1>1, <2>1, <2>3
    <3>3. /\ IsLink(o.link) /\ "nv" \in DOMAIN o.link.modem /\ DOMAIN o.link.modem.nv = NvIds
          /\ Promised(def, o.link.modem.nv, o.link.pending, cursor + 1)
          /\ nvWritten + (IF Written("nvwrite", o.answer) THEN 1 ELSE 0)
               <= Cardinality(Settled(def, o.link.modem.nv, o.link.pending, cursor + 1))
      BY <1>1, <2>1, <3>1, <3>2, WriteStep
    <3>4. cursor + 1 \in 0..Len(def) /\ nvWritten' \in Nat
      BY <1>1, <2>1, <3>1, <3>2
    <3>5. Restores'
      BY <1>2, <1>6, <3>1, <3>3, <3>4 DEF Restores, Modem, RestoreNv
    <3> QED
      BY <1>3, <3>1, <3>3, <3>4, <3>5 DEF Modem
  <2> QED
    BY <2>2, <2>3
<1>7. CASE SyncAfterNv \/ Reset \/ \E s \in {"Prov", "Backup", "NvItems"} : RestoreFile(s)
  <2>1. pc' \in {"sync", "Prov", "Backup", "NvItems", "reset", "end"} /\ nvWritten' = nvWritten
    BY <1>7 DEF SyncAfterNv, Reset, RestoreFile, Go, End, NextSection, xqcnVars
  <2>2. nvWritten <= Cardinality({i \in 1..Len(def) : Held(def, i, Modem.nv)}) /\ nvWritten \in Nat
    BY <1>7 DEF SyncAfterNv, Reset, RestoreFile, Restore, Restores, Connecting
  <2>3. \/ link' = link
        \/ link' = [link EXCEPT !.faults = @ + 1]
        \/ \E o : /\ link' = o.link
                  /\ \/ o \in Sync
                     \/ \E class, size : o \in Send(class, Modem, Reply(class, size, Done))
    BY <1>7 DEF SyncAfterNv, Reset, RestoreFile, Take
  <2>4. IsLink(link') /\ SameNv(link'.modem)
    <3>1. CASE link' = link \/ link' = [link EXCEPT !.faults = @ + 1]
      BY <3>1 DEF IsLink, SameNv, Modem
    <3>2. CASE \E o : /\ link' = o.link
                      /\ \/ o \in Sync
                         \/ \E class, size : o \in Send(class, Modem, Reply(class, size, Done))
      BY <3>2, Asks
    <3> QED
      BY <2>3, <3>1, <3>2
  <2>5. Restores'
    BY <1>2, <1>4, <2>1, <2>2, <2>4 DEF Restores
  <2> QED
    BY <1>3, <1>4, <2>1, <2>2, <2>4, <2>5
<1> QED
  BY <1>5, <1>6, <1>7

\* A session of XQCN takes the steps of its part, and those that connect.
LEMMA StepsOfParts ==
    ASSUME Backup \/ Restore
    PROVE  /\ CommandNext => SendSpc \/ SendPassword \/ DetectAlt \/ DetectStd \/ EfsQuery
           /\ XqcnNext =>
                \/ /\ Backup
                   /\ \/ Scan \/ ScanSim
                      \/ WalkOpendir \/ WalkReaddir \/ WalkStat \/ WalkClosedir \/ WalkEntry \/ Probe
                      \/ AddStat \/ AddOpen \/ AddRead \/ AddClose \/ FeatureQuery \/ BuildId
                      \/ WriteDocument
                \/ /\ Restore
                   /\ \/ Offline \/ RestoreNv \/ SyncAfterNv \/ Reset
                      \/ \E s \in {"Prov", "Backup", "NvItems"} : RestoreFile(s)
<1>1. CommandNext => SendSpc \/ SendPassword \/ DetectAlt \/ DetectStd \/ EfsQuery
  <2>1. pc \notin Removing \cup {"rm", "nvread", "nvwrite"}
    BY DEF Backup, Captures, Restore, Restores, Connecting, Walking, Writing, Removing
  <2>2. ~(NvReadCommand \/ NvWriteCommand \/ RmStart \/ RmOpendir \/ RmReaddir \/ RmStat
          \/ RmUnlink \/ RmUnlinkSelf \/ RmClosedir \/ RmRmdir)
    BY <2>1 DEF NvReadCommand, NvWriteCommand, RmStart, RmOpendir, RmReaddir, RmStat, RmUnlink,
                RmUnlinkSelf, RmClosedir, RmRmdir, Removing
  <2> QED
    BY <2>2 DEF CommandNext
<1>2. CASE Backup
  <2>1. pc \notin {"xqcn_restore", "nv", "sync", "Prov", "Backup", "NvItems", "reset"}
    BY <1>2 DEF Backup, Captures, Connecting, Walking, Writing
  <2>2. ~(Offline \/ RestoreNv \/ SyncAfterNv \/ Reset
          \/ \E s \in {"Prov", "Backup", "NvItems"} : RestoreFile(s))
    BY <2>1 DEF Offline, RestoreNv, SyncAfterNv, Reset, RestoreFile
  <2> QED
    BY <1>1, <1>2, <2>2 DEF XqcnNext
<1>3. CASE Restore
  <2>1. pc \notin Walking \cup {"xqcn", "scan_sim"}
    BY <1>3 DEF Restore, Restores, Connecting, Walking, Writing
  <2>2. ~(Scan \/ ScanSim \/ WalkOpendir \/ WalkReaddir \/ WalkStat \/ WalkClosedir \/ WalkEntry \/ Probe)
    BY <2>1 DEF Scan, ScanSim, WalkOpendir, WalkReaddir, WalkStat, WalkClosedir, WalkEntry, Probe,
                Walking
  <2>3. ~(AddStat \/ AddOpen \/ AddRead \/ AddClose \/ FeatureQuery \/ BuildId \/ WriteDocument)
    BY <2>1 DEF AddStat, AddOpen, AddRead, AddClose, FeatureQuery, BuildId, Metadata, WriteDocument,
                Walking, Writing
  <2> QED
    BY <1>1, <1>3, <2>2, <2>3 DEF XqcnNext
<1> QED
  BY <1>2, <1>3

\* In a session of XQCN.
LEMMA XqcnGoesOn ==
    ASSUME InXqcn, Backup \/ Restore, Next
    PROVE  Goes
<1> USE DEF InXqcn
<1>1. CASE Ended
  <2>1. UNCHANGED << link, job, pc, cursor, def, sim1, doc, nvWritten >>
    BY <1>1 DEF Ended, vars, xqcnVars
  <2>2. Modem' = Modem
    BY <2>1 DEF Modem
  <2>3. Backup => Backup'
    BY <2>1, <2>2 DEF Backup, Captures
  <2>4. Restore => Restore'
    BY <2>1, <2>2 DEF Restore, Restores
  <2> QED
    BY <2>1, <2>3, <2>4 DEF Goes
<1>2. CASE CommandNext /\ UNCHANGED xqcnVars
  BY <1>2, StepsOfParts, Connects
<1>3. CASE XqcnNext
  BY <1>3, StepsOfParts, Scans, Walks, RestoreWrites, RestoresNv
<1> QED
  BY <1>1, <1>2, <1>3 DEF Next

\* The other commands take no step of a session of XQCN.
LEMMA NoXqcn ==
    ASSUME Elsewhere PROVE ~XqcnNext
<1>1. ~(Scan \/ ScanSim \/ WalkOpendir \/ WalkReaddir \/ WalkStat \/ WalkClosedir \/ WalkEntry \/ Probe)
  BY DEF Scan, ScanSim, WalkOpendir, WalkReaddir, WalkStat, WalkClosedir, WalkEntry, Probe,
         Elsewhere, Opening, Removing
<1>2. ~(AddStat \/ AddOpen \/ AddRead \/ AddClose \/ FeatureQuery \/ BuildId \/ WriteDocument)
  BY DEF AddStat, AddOpen, AddRead, AddClose, FeatureQuery, BuildId, Metadata, WriteDocument,
         Elsewhere, Opening, Removing
<1>3. ~(Offline \/ RestoreNv \/ SyncAfterNv \/ Reset
        \/ \E s \in {"Prov", "Backup", "NvItems"} : RestoreFile(s))
  BY DEF Offline, RestoreNv, SyncAfterNv, Reset, RestoreFile, Elsewhere, Opening, Removing
<1> QED
  BY <1>1, <1>2, <1>3 DEF XqcnNext

\* In any other session.
LEMMA StaysElsewhere ==
    ASSUME setup \in Setups, setup' = setup, setup.cmd # "xqcn", Elsewhere, Next
    PROVE  Elsewhere'
<1>1. job = setup.cmd /\ job \in {"rm", "nvread", "nvwrite"}
  BY SessionSetups DEF Elsewhere
<1>2. ~XqcnNext
  BY NoXqcn
<1>3. CASE Ended
  BY <1>3 DEF Ended, vars, xqcnVars, Elsewhere
<1>4. CASE CommandNext /\ UNCHANGED xqcnVars
  <2>1. def' = def /\ sim1' = sim1
    BY <1>4 DEF xqcnVars
  <2>2. job' = job
    BY <1>4 DEF CommandNext, SendSpc, SendPassword, DetectAlt, DetectStd, EfsDetect, EfsQuery,
                NvReadCommand, NvWriteCommand, RmStart, RmOpendir, RmReaddir, RmStat, RmUnlink,
                RmUnlinkSelf, RmClosedir, RmRmdir, commandVars
  <2>3. pc' \in Opening \cup Removing \cup {"nvread", "nvwrite", "end"}
    <3>1. CASE SendSpc \/ SendPassword \/ DetectAlt \/ DetectStd \/ EfsQuery \/ NvReadCommand
               \/ NvWriteCommand
      BY <1>1, <3>1 DEF SendSpc, SendPassword, DetectAlt, DetectStd, EfsDetect, EfsQuery,
                        NvReadCommand, NvWriteCommand, FirstRequest, Go, End, Opening
    <3>2. CASE RmStart \/ RmOpendir \/ RmReaddir \/ RmStat \/ RmUnlink \/ RmUnlinkSelf
               \/ RmClosedir \/ RmRmdir
      BY <3>2 DEF RmStart, RmOpendir, RmReaddir, RmStat, RmUnlink, RmUnlinkSelf, RmClosedir, RmRmdir,
                  Return, Go, End, Removing
    <3> QED
      BY <1>4, <3>1, <3>2 DEF CommandNext
  <2> QED
    BY <2>1, <2>2, <2>3 DEF Elsewhere
<1> QED
  BY <1>2, <1>3, <1>4 DEF Next

\* A session begins with nothing captured.
LEMMA RecordsStart == Init => RInv
<1> SUFFICES ASSUME Init PROVE RInv
  OBVIOUS
<1> USE DEF Init, CommandInit, XqcnInit, Connected
<1>1. setup \in Setups /\ {"nv", "sim"} \subseteq DOMAIN setup.modem
  BY SessionSetups
<1>2. IsLink(link) /\ Modem = setup.modem /\ Silent(link.pending)
  BY EmptySeq DEF IsLink, Modem, Silent, Range
<1>3. setup.cmd = "xqcn" => Backup
  BY <1>1, <1>2 DEF Backup, Captures, Connecting
<1>4. setup.cmd # "xqcn" => Elsewhere
  BY DEF Elsewhere, Opening
<1> QED
  BY <1>1, <1>2, <1>3, <1>4 DEF RInv

\* Every step keeps the records in order.
LEMMA RecordsGoOn == RInv /\ [Next]_vars => RInv'
<1> SUFFICES ASSUME RInv, [Next]_vars PROVE RInv'
  OBVIOUS
<1>1. CASE UNCHANGED vars
  <2>1. UNCHANGED << setup, link, job, pc, cursor, def, sim1, doc, nvWritten >>
    BY <1>1 DEF vars, xqcnVars
  <2>2. Modem' = Modem
    BY <2>1 DEF Modem
  <2>3. Backup => Backup'
    BY <2>1, <2>2 DEF Backup, Captures
  <2>4. Restore => Restore'
    BY <2>1, <2>2 DEF Restore, Restores
  <2>5. Elsewhere => Elsewhere'
    BY <2>1 DEF Elsewhere
  <2> QED
    BY <2>1, <2>3, <2>4, <2>5 DEF RInv
<1>2. CASE Next
  <2>1. setup' = setup
    BY <1>2 DEF Next, Ended, vars
  <2>2. CASE setup.cmd = "xqcn"
    BY <1>2, <2>1, <2>2, XqcnGoesOn DEF RInv, InXqcn, Goes
  <2>3. CASE setup.cmd # "xqcn"
    BY <1>2, <2>1, <2>3, StaysElsewhere DEF RInv
  <2> QED
    BY <2>1, <2>2, <2>3 DEF RInv
<1> QED
  BY <1>1, <1>2

\* What the records are, in every reachable state.
THEOREM RecordsInvariant == Spec => []RInv
  BY RecordsStart, RecordsGoOn, PTL DEF Spec

\* Records in order are true, and no two are equal.
LEMMA RecordsAreReal ==
    ASSUME NEW s, NEW t, Records(s, t)
    PROVE  (\A i \in DOMAIN s : s[i].data = t[s[i].id]) /\ IsInjective(s)
<1>1. DOMAIN s = 1..Len(s) /\ Len(s) \in Nat
  BY OverRange DEF Records
<1>2. \A i \in 1..Len(s) : s[i].id \in Nat
  BY Numbers DEF Records
<1>3. \A i, j \in 1..Len(s) : s[i] = s[j] => i = j
  BY <1>1, <1>2 DEF Records, Rising
<1> QED
  BY <1>1, <1>3 DEF Records, IsInjective

\* What a session captured, whichever its command is.
Collected == Records(def, setup.modem.nv) /\ Records(sim1, setup.modem.sim)

\* What was captured is true.
LEMMA CapturedIsReal ==
    Collected =>
        /\ \A i \in DOMAIN def : def[i].data = setup.modem.nv[def[i].id]
        /\ \A i \in DOMAIN sim1 : sim1[i].data = setup.modem.sim[sim1[i].id]
        /\ IsInjective(def) /\ IsInjective(sim1)
<1> SUFFICES ASSUME Collected
             PROVE  /\ \A i \in DOMAIN def : def[i].data = setup.modem.nv[def[i].id]
                    /\ \A i \in DOMAIN sim1 : sim1[i].data = setup.modem.sim[sim1[i].id]
                    /\ IsInjective(def) /\ IsInjective(sim1)
  OBVIOUS
<1>1. (\A i \in DOMAIN def : def[i].data = setup.modem.nv[def[i].id]) /\ IsInjective(def)
  BY RecordsAreReal DEF Collected
<1>2. (\A i \in DOMAIN sim1 : sim1[i].data = setup.modem.sim[sim1[i].id]) /\ IsInjective(sim1)
  BY RecordsAreReal DEF Collected
<1> QED
  BY <1>1, <1>2

\* The items the modem now holds as the document has them.
Holding == {i \in DOMAIN doc.def : Modem.nv[doc.def[i].id] = doc.def[i].data}

(* What the scan of a backup captured is what the modem has under that     *)
(* number, each item at most once, and the restore counts no more items as *)
(* written than the modem has: for every modem, every number of items and  *)
(* of failures, and answers that come late at any time.                    *)
THEOREM RecordsAreTrueHolds == Spec => []RecordsAreTrue
<1>1. Collected /\ (job = "xqcn_restore" => nvWritten <= Cardinality(Holding)) => RecordsAreTrue
  BY CapturedIsReal DEF RecordsAreTrue, Holding
<1>2. ASSUME NEW t PROVE Records(<< >>, t)
  BY EmptySeq DEF Records, Rising, Range
<1>3. ASSUME RInv, setup.cmd # "xqcn"
      PROVE  RecordsAreTrue
  <2>1. def = << >> /\ sim1 = << >> /\ job # "xqcn_restore"
    BY <1>3, SessionSetups DEF RInv, Elsewhere
  <2>2. Collected
    BY <1>2, <2>1 DEF Collected
  <2> QED
    BY <1>1, <2>1, <2>2
<1>4. ASSUME Backup PROVE RecordsAreTrue
  <2>1. Collected /\ job # "xqcn_restore"
    BY <1>2, <1>4 DEF Backup, Captures, Scanned, Collected
  <2> QED
    BY <1>1, <2>1
<1>5. ASSUME Restore PROVE RecordsAreTrue
  <2>1. Collected /\ doc.def = def
    BY <1>5 DEF Restore, Collected
  <2>2. DOMAIN def = 1..Len(def) /\ Len(def) \in Nat
    BY <1>5, OverRange DEF Restore, Records
  <2>3. Holding = {i \in 1..Len(def) : Held(def, i, Modem.nv)}
    BY <2>1, <2>2 DEF Held, Holding
  <2>4. IsFiniteSet(Holding) /\ Cardinality(Holding) \in Nat
    BY <2>2, <2>3, AtLeastNone
  <2>5. nvWritten <= Cardinality(Holding)
    <3>1. CASE nvWritten = 0
      BY <2>4, <3>1
    <3>2. CASE /\ cursor \in 0..Len(def)
               /\ nvWritten <= Cardinality(Settled(def, Modem.nv, link.pending, cursor))
      <4> DEFINE S == Settled(def, Modem.nv, link.pending, cursor)
      <4>1. S \subseteq Holding
        BY <2>2, <2>3, <3>2 DEF Settled
      <4>2. Cardinality(S) \in Nat /\ Cardinality(S) <= Cardinality(Holding)
        BY <2>4, <4>1, FS_Subset, FS_CardinalityType
      <4>3. nvWritten \in Nat
        BY <1>5 DEF Restore
      <4> QED
        BY <2>4, <3>2, <4>2, <4>3
    <3>3. CASE nvWritten <= Cardinality({i \in 1..Len(def) : Held(def, i, Modem.nv)})
      BY <2>3, <3>3
    <3> QED
      BY <1>5, <3>1, <3>2, <3>3, <2>2 DEF Restore, Restores
  <2> QED
    BY <1>1, <2>1, <2>5
<1>6. RInv => RecordsAreTrue
  BY <1>3, <1>4, <1>5 DEF RInv
<1> QED
  BY <1>6, RecordsInvariant, PTL

-----------------------------------------------------------------------------
(* A link on which no answer came late: each request is answered by its    *)
(* own answer or by none.                                                  *)
IsLine(l) == IsLink(l) /\ "late" \in DOMAIN l

\* What is left of a request when k of the frames in box were read.
LeftOf(modem, box, k, answer, cost, late) ==
    [answer |-> answer,
     link |-> [modem |-> modem, pending |-> SubSeq(box, k + 1, Len(box)),
               faults |-> link.faults + cost, late |-> link.late \/ late]]
UnsentOf == [answer |-> Nothing, link |-> [link EXCEPT !.faults = @ + 1]]

\* The parts of it, in time and too late.
IsLeft(o, modem, box, k, answer) ==
    /\ o.answer = answer /\ o.link.modem = modem /\ "late" \in DOMAIN o.link
    /\ o.link.pending = SubSeq(box, k + 1, Len(box))

\* An answer in time, or none.
LEMMA LeftInTime ==
    ASSUME NEW modem, NEW box, NEW k, NEW answer, NEW cost, NEW o,
           o = LeftOf(modem, box, k, answer, cost, FALSE)
    PROVE  IsLeft(o, modem, box, k, answer) /\ (o.link.late <=> link.late)
  BY DEF LeftOf, IsLeft

\* An answer that comes too late.
LEMMA LeftTooLate ==
    ASSUME NEW modem, NEW box, NEW k, NEW answer, NEW cost, NEW o,
           o = LeftOf(modem, box, k, answer, cost, TRUE)
    PROVE  IsLeft(o, modem, box, k, answer) /\ o.link.late
  BY DEF LeftOf, IsLeft

\* What a request may return.
LEMMA SendCases ==
    ASSUME NEW class, NEW modem, NEW reply, NEW o \in Send(class, modem, reply)
    PROVE  LET box == Append(link.pending, reply)
               first == CHOOSE i \in DOMAIN box :
                    /\ Accepts(class, box[i])
                    /\ \A j \in 1..(i - 1) : ~ Accepts(class, box[j])
           IN  \/ o = LeftOf(modem, box, first, box[first], 0, FALSE)
               \/ \E k \in 2..Len(box) : o = LeftOf(modem, box, k, Nothing, 0, FALSE)
               \/ \E k \in 1..first : o = LeftOf(modem, box, k, Nothing, 1, FALSE)
               \/ \E k : o = LeftOf(modem, box, k, Nothing, 1, TRUE)
               \/ o = UnsentOf
  BY DEF Send, LeftOf, UnsentOf

\* An answer that was late stays so, and without one nothing is left unread.
LEMMA OnTime ==
    ASSUME IsLine(link), ~link.late => link.pending = << >>,
           NEW class, NEW modem, NEW reply, Accepts(class, reply),
           NEW o \in Send(class, modem, reply)
    PROVE  /\ IsLine(o.link)
           /\ ~o.link.late =>
                 /\ ~link.late /\ o.link.pending = << >>
                 /\ \/ o.answer = reply /\ o.link.modem = modem
                    \/ o.answer = Nothing /\ o.link.modem \in {Modem, modem}
<1> DEFINE box == Append(link.pending, reply)
           Fits(i) == Accepts(class, box[i])
           first == CHOOSE i \in DOMAIN box : Fits(i) /\ \A j \in 1..(i - 1) : ~Fits(j)
<1>1. \/ o = LeftOf(modem, box, first, box[first], 0, FALSE)
      \/ \E k \in 2..Len(box) : o = LeftOf(modem, box, k, Nothing, 0, FALSE)
      \/ \E k \in 1..first : o = LeftOf(modem, box, k, Nothing, 1, FALSE)
      \/ \E k : o = LeftOf(modem, box, k, Nothing, 1, TRUE)
      \/ o = UnsentOf
  BY SendCases
<1>2. /\ UnsentOf.answer = Nothing /\ UnsentOf.link.modem = Modem
      /\ UnsentOf.link.pending = link.pending /\ UnsentOf.link.late = link.late
      /\ "late" \in DOMAIN UnsentOf.link
  BY DEF IsLine, IsLink, Modem, UnsentOf
<1>3. ASSUME ~link.late
      PROVE  /\ DOMAIN box = {1} /\ Len(box) = 1 /\ box[1] = reply /\ first = 1
             /\ SubSeq(box, 2, Len(box)) = << >>
  <2>1. box = << reply >>
    <3>1. link.pending = << >>
      BY <1>3
    <3> QED
      BY <3>1
  <2>2. DOMAIN box = {1} /\ Len(box) = 1 /\ box[1] = reply
    BY <2>1
  <2>3. Fits(1) /\ \A j \in 1..(1 - 1) : ~Fits(j)
    BY <2>2
  <2>4. first = 1
    <3> HIDE DEF Fits, box
    <3> QED
      BY <2>2, <2>3
  <2>5. SubSeq(box, 2, Len(box)) = << >>
    BY <2>1
  <2> QED
    BY <2>2, <2>4, <2>5
<1> HIDE DEF box, first
<1>4. \/ \E k, answer, cost : o = LeftOf(modem, box, k, answer, cost, FALSE)
      \/ \E k, answer, cost : o = LeftOf(modem, box, k, answer, cost, TRUE)
      \/ o = UnsentOf
  BY <1>1
<1>5. IsLine(o.link) /\ (~o.link.late => ~link.late)
  <2>1. IsLink(o.link)
    BY Framed DEF IsLine
  <2>2. CASE \E k, answer, cost : o = LeftOf(modem, box, k, answer, cost, FALSE)
    <3>1. PICK k, answer, cost : o = LeftOf(modem, box, k, answer, cost, FALSE)
      BY <2>2
    <3>2. IsLeft(o, modem, box, k, answer) /\ (o.link.late <=> link.late)
      BY <3>1, LeftInTime
    <3> QED
      BY <2>1, <3>2 DEF IsLine, IsLeft
  <2>3. CASE \E k, answer, cost : o = LeftOf(modem, box, k, answer, cost, TRUE)
    <3>1. PICK k, answer, cost : o = LeftOf(modem, box, k, answer, cost, TRUE)
      BY <2>3
    <3>2. IsLeft(o, modem, box, k, answer) /\ o.link.late
      BY <3>1, LeftTooLate
    <3> QED
      BY <2>1, <3>2 DEF IsLine, IsLeft
  <2> QED
    BY <1>2, <1>4, <2>1, <2>2, <2>3 DEF IsLine
<1>6. ASSUME ~link.late, ~o.link.late
      PROVE  /\ o.link.pending = << >>
             /\ \/ o.answer = reply /\ o.link.modem = modem
                \/ o.answer = Nothing /\ o.link.modem \in {Modem, modem}
  <2> /\ Len(box) = 1 /\ box[1] = reply /\ first = 1 /\ SubSeq(box, 1 + 1, Len(box)) = << >>
      /\ 1..first = {1} /\ 2..Len(box) = {}
    BY <1>3, <1>6
  <2>1. CASE o = LeftOf(modem, box, first, box[first], 0, FALSE)
    <3>1. IsLeft(o, modem, box, 1, reply)
      BY <2>1, LeftInTime
    <3> QED
      BY <3>1 DEF IsLeft
  <2>2. ~\E k \in 2..Len(box) : o = LeftOf(modem, box, k, Nothing, 0, FALSE)
    OBVIOUS
  <2>3. CASE \E k \in 1..first : o = LeftOf(modem, box, k, Nothing, 1, FALSE)
    <3>1. o = LeftOf(modem, box, 1, Nothing, 1, FALSE)
      BY <2>3
    <3>2. IsLeft(o, modem, box, 1, Nothing)
      BY <3>1, LeftInTime
    <3> QED
      BY <3>2 DEF IsLeft
  <2>4. ~\E k : o = LeftOf(modem, box, k, Nothing, 1, TRUE)
    BY <1>6, LeftTooLate
  <2>5. CASE o = UnsentOf
    BY <1>2, <1>6, <2>5
  <2> QED
    BY <1>1, <2>1, <2>2, <2>3, <2>4, <2>5
<1> QED
  BY <1>5, <1>6

\* A modem without the subsystem answers with an error, of size 1.
Served1(o, modem, reply) ==
    /\ ~link.late /\ o.link.pending = << >>
    /\ \/ o.answer = reply /\ o.link.modem = modem
       \/ o.answer \in {Nothing, ErrorReply} /\ o.link.modem \in {Modem, modem}

\* The same of a request to an EFS subsystem.
LEMMA OnTimeEfs ==
    ASSUME IsLine(link), ~link.late => link.pending = << >>,
           NEW m, NEW modem, NEW reply, reply.class = "subsys",
           NEW o \in Subsystem(m, modem, reply)
    PROVE  IsLine(o.link) /\ (~o.link.late => Served1(o, modem, reply))
<1>1. Accepts("subsys", reply) /\ Accepts("subsys", ErrorReply)
  BY Replies DEF Accepts
<1> QED
  BY <1>1, OnTime DEF Subsystem, Served1

-----------------------------------------------------------------------------
(* What is left of a file system.                                          *)

\* A directory that is empty has nothing below it, and may go.
LEMMA Emptied ==
    ASSUME NEW tree, IsTree(tree), NEW p, IsPath(p), \A q \in DOMAIN tree : Front(q) # p
    PROVE  /\ \A q \in DOMAIN tree : IsPrefix(p, q) => q = p
           /\ IsTree(Without(tree, p))
           /\ \A q \in DOMAIN Without(tree, p) : ~IsPrefix(p, q)
<1>1. ASSUME NEW q \in DOMAIN tree, IsPrefix(p, q), q # p PROVE FALSE
  <2> DEFINE T == {Len(r) : r \in {r \in DOMAIN tree : IsPrefix(p, r) /\ r # p}}
  <2>1. \A r \in DOMAIN tree : r \in Seq(Range(r)) /\ Len(r) \in Nat \ {0} /\ DOMAIN r = 1..Len(r)
    <3>1. \A r \in DOMAIN tree : r \in Seq(Range(r)) /\ r # << >>
      BY DEF IsTree, IsPath
    <3> QED
      BY <3>1, Fronted, OverRange
  <2>2. PICK r \in DOMAIN tree : /\ IsPrefix(p, r) /\ r # p
                                 /\ \A x \in DOMAIN tree : IsPrefix(p, x) /\ x # p => Len(r) <= Len(x)
    <3>1. T \subseteq Nat /\ T # {}
      BY <1>1, <2>1
    <3>2. PICK n \in T : \A m \in T : n <= m
      BY <3>1, Least
    <3> QED
      BY <3>2
  <2>3. Len(p) \in Nat /\ p \in Seq(Range(p)) /\ DOMAIN p = 1..Len(p)
    BY OverRange DEF IsPath
  <2>4. Len(p) <= Len(r) /\ \A i \in 1..Len(p) : r[i] = p[i]
    <3>1. Len(p) <= Len(r) /\ SubSeq(p, 1, Len(p)) = SubSeq(r, 1, Len(p))
      BY <2>2 DEF IsPrefix
    <3>2. \A i \in 1..Len(p) : SubSeq(p, 1, Len(p))[i] = p[i] /\ SubSeq(r, 1, Len(p))[i] = r[i]
      BY <2>1, <2>3, <3>1, SubSeqProperties
    <3> QED
      BY <3>1, <3>2
  <2>5. Len(p) < Len(r)
    <3> SUFFICES ASSUME Len(p) = Len(r) PROVE r = p
      BY <2>1, <2>2, <2>3, <2>4
    <3> QED
      BY <2>1, <2>3, <2>4, SeqEqual
  <2> DEFINE f == Front(r)
  <2>6. /\ f \in Seq(Range(f)) /\ Len(f) = Len(r) - 1 /\ \A i \in 1..Len(f) : f[i] = r[i]
    <3>1. r \in Seq(Range(r)) /\ Len(r) \in Nat \ {0} /\ r # << >>
      BY <2>1 DEF IsTree
    <3>2. Front(r) = SubSeq(r, 1, Len(r) - 1)
      BY DEF Front
    <3>3. \A i \in 1..(Len(r) - 1) : SubSeq(r, 1, Len(r) - 1)[i] = r[i]
      BY <3>1, SubSeqProperties
    <3> QED
      BY <3>1, <3>2, <3>3, Fronted
  <2> HIDE DEF f
  <2>7. IsPrefix(p, f)
    <3>1. Len(p) <= Len(f) /\ \A i \in 1..Len(p) : f[i] = p[i]
      BY <2>1, <2>3, <2>4, <2>5, <2>6
    <3>2. SubSeq(p, 1, Len(p)) = SubSeq(f, 1, Len(p))
      BY <2>3, <2>6, <3>1
    <3> QED
      BY <3>1, <3>2 DEF IsPrefix
  <2>8. f # p
    BY DEF f
  <2>9. Len(r) > 1
    <3>1. CASE Len(p) = 0
      <4>1. p = << >>
        BY <2>3, <3>1, EmptySeq
      <4>2. Len(f) # 0
        BY <2>6, <2>8, <4>1, EmptySeq
      <4> QED
        BY <2>1, <2>6, <4>2
    <3>2. CASE Len(p) # 0
      BY <2>1, <2>3, <2>5, <3>2
    <3> QED
      BY <3>1, <3>2
  <2>10. f \in DOMAIN tree
    BY <2>9 DEF IsTree, f
  <2> QED
    BY <2>1, <2>2, <2>6, <2>7, <2>8, <2>10
<1>2. /\ DOMAIN Without(tree, p) = DOMAIN tree \ {p}
      /\ \A q \in DOMAIN tree \ {p} : Without(tree, p)[q] = tree[q]
  BY DEF Without, Restrict
<1>3. IsTree(Without(tree, p))
  BY <1>2 DEF IsTree
<1> QED
  BY <1>1, <1>2, <1>3

-----------------------------------------------------------------------------
(* The requests of a session without a late answer.                        *)

\* The link as it is while every answer came in time or not at all.
Orderly == IsLine(link) /\ (~link.late => link.pending = << >>)
OrderlyAfter(l) == IsLine(l) /\ (~l.late => ~link.late /\ l.pending = << >>)

\* A modem with the same files, and with the same files open.
SameTree(m) == "tree" \in DOMAIN Modem => "tree" \in DOMAIN m /\ m.tree = Modem.tree
SameOpen(m) == "fds" \in DOMAIN Modem => "fds" \in DOMAIN m /\ m.fds = Modem.fds

\* An answer that may be none or an error, as the fields the code looks at tell.
LEMMA NoAnswer ==
    /\ Nothing.size = 0 /\ Nothing.class = "none" /\ ErrorReply.size = 1
    /\ ErrorReply.class = "error"
    /\ \A a : a \in {Nothing, ErrorReply} =>
          ~Opened(a) /\ ~Removed(a) /\ ~Statted(a) /\ ~Entry(a) /\ BytesRead(a) = 0
<1>1. /\ Nothing.size = 0 /\ Nothing.class = "none" /\ ErrorReply.size = 1
      /\ ErrorReply.class = "error"
  BY DEF Nothing, ErrorReply, Reply
<1> QED
  BY <1>1 DEF Opened, Removed, Statted, Entry, BytesRead

\* A request that leaves files and handles as they are.
LEMMA EfsInTime ==
    ASSUME Orderly, NEW m, NEW modem, NEW reply, reply.class = "subsys",
           SameTree(modem), NEW o \in Subsystem(m, modem, reply)
    PROVE  /\ OrderlyAfter(o.link)
           /\ ~o.link.late => SameTree(o.link.modem)
           /\ SameOpen(modem) /\ ~o.link.late => SameOpen(o.link.modem)
<1>1. IsLine(o.link) /\ (~o.link.late => Served1(o, modem, reply))
  BY OnTimeEfs DEF Orderly
<1>2. SameTree(Modem) /\ SameOpen(Modem)
  BY DEF SameTree, SameOpen
<1> QED
  BY <1>1, <1>2 DEF Served1, OrderlyAfter

\* The requests of all sessions but for removals and writes.
LEMMA AsksInTime ==
    ASSUME Orderly, NEW o,
           \/ \E path : o \in Opendir(path)
           \/ \E h, seqno : o \in Readdir(h, seqno)
           \/ \E path : o \in Stat(path)
           \/ \E h : o \in Closedir(h)
           \/ \E h, offset : o \in Read(h, offset)
           \/ \E m : o \in Hello(m)
           \/ o \in Query \/ o \in Sync
           \/ \E class, size : o \in Send(class, Modem, Reply(class, size, Done))
    PROVE  OrderlyAfter(o.link) /\ (~o.link.late => SameTree(o.link.modem) /\ SameOpen(o.link.modem))
<1> DEFINE Dirs(d) == [Modem EXCEPT !.dirs = d]
           IsDone == OrderlyAfter(o.link)
                     /\ (~o.link.late => SameTree(o.link.modem) /\ SameOpen(o.link.modem))
           Same(m) == SameTree(m) /\ SameOpen(m)
<1>1. Same(Modem) /\ \A d : Same(Dirs(d))
  BY DEF SameTree, SameOpen
<1>2. \A m, modem, reply : Same(modem) /\ reply.class = "subsys" /\ o \in Subsystem(m, modem, reply)
                          => IsDone
  BY EfsInTime
<1>3. \A modem, size, words : Same(modem) /\ o \in Efs(modem, size, words) => IsDone
  BY <1>2, Replies DEF Efs
<1> HIDE DEF IsDone, Dirs, Same
<1>4. CASE \E path : o \in Opendir(path)
  <2>1. \/ \E size, words : o \in Efs(Modem, size, words)
        \/ \E d, size, words : o \in Efs(Dirs(d), size, words)
    BY <1>4 DEF Opendir, Dirs
  <2> QED
    BY <1>1, <1>3, <2>1 DEF IsDone
<1>5. CASE \E h, seqno : o \in Readdir(h, seqno)
  <2>1. \/ \E size, words : o \in Efs(Modem, size, words)
        \/ \E size, words, name :
              o \in Subsystem(method, Modem, [Reply("subsys", size, words) EXCEPT !.name = name])
    BY <1>5 DEF Readdir
  <2>2. \A size, words, name : [Reply("subsys", size, words) EXCEPT !.name = name].class = "subsys"
    BY DEF Reply, Nothing
  <2> QED
    BY <1>1, <1>2, <1>3, <2>1, <2>2 DEF IsDone
<1>6. CASE \E path : o \in Stat(path)
  <2>1. \E size, words : o \in Efs(Modem, size, words)
    BY <1>6 DEF Stat
  <2> QED
    BY <1>1, <1>3, <2>1 DEF IsDone
<1>7. CASE \E h : o \in Closedir(h)
  <2>1. \E d, size, words : o \in Efs(Dirs(d), size, words)
    BY <1>7 DEF Closedir, Dirs
  <2> QED
    BY <1>1, <1>3, <2>1 DEF IsDone
<1>8. CASE \E h, offset : o \in Read(h, offset)
  <2>1. \/ \E size, words : o \in Efs(Modem, size, words)
        \/ \E size, words, src :
              o \in Subsystem(method, Modem, [Reply("subsys", size, words) EXCEPT !.src = src])
    BY <1>8 DEF Read
  <2>2. \A size, words, src : [Reply("subsys", size, words) EXCEPT !.src = src].class = "subsys"
    BY DEF Reply, Nothing
  <2> QED
    BY <1>1, <1>2, <1>3, <2>1, <2>2 DEF IsDone
<1>9. CASE (\E m : o \in Hello(m)) \/ o \in Query \/ o \in Sync
  <2>1. \/ \E m, size, words : o \in Subsystem(m, Modem, Reply("subsys", size, words))
        \/ \E size, words : o \in Efs(Modem, size, words)
    BY <1>9 DEF Hello, Query, Sync
  <2> QED
    BY <1>1, <1>2, <1>3, <2>1, Replies DEF IsDone
<1>10. CASE \E class, size : o \in Send(class, Modem, Reply(class, size, Done))
  <2>1. PICK class, size : o \in Send(class, Modem, Reply(class, size, Done))
    BY <1>10
  <2>2. Accepts(class, Reply(class, size, Done))
    BY Replies DEF Accepts
  <2>3. IsLine(o.link) /\ (~o.link.late => /\ ~link.late /\ o.link.pending = << >>
                                           /\ o.link.modem = Modem)
    BY <2>1, <2>2, OnTime DEF Orderly
  <2> QED
    BY <1>1, <2>3 DEF IsDone, OrderlyAfter, Same
<1> QED
  BY <1>4, <1>5, <1>6, <1>7, <1>8, <1>9, <1>10 DEF IsDone

\* A removal that is answered with success has left nothing below the path.
LEMMA RemovesInTime ==
    ASSUME Orderly, "tree" \in DOMAIN Modem, IsTree(Modem.tree), NEW p, IsPath(p), NEW o,
           o \in Unlink(p) \/ o \in Rmdir(p)
    PROVE  /\ OrderlyAfter(o.link)
           /\ ~o.link.late =>
                 /\ "tree" \in DOMAIN o.link.modem /\ IsTree(o.link.modem.tree)
                 /\ Removed(o.answer) => \A q \in DOMAIN o.link.modem.tree : ~IsPrefix(p, q)
<1> DEFINE removed == [Modem EXCEPT !.tree = Without(@, p)]
           ok == Reply("subsys", 8, Done)
           no == Reply("subsys", 8, Errno)
<1>1. Resolve(p) = p
  BY DEF IsPath, Resolve
<1>2. \/ o \in Subsystem(method, removed, ok) /\ \A q \in DOMAIN Modem.tree : Front(q) # p
      \/ o \in Subsystem(method, Modem, no)
  <2>1. CASE o \in Unlink(p)
    <3>1. \/ /\ o \in Subsystem(method, removed, ok)
             /\ Exists(p) /\ Kind(p) # "dir"
          \/ o \in Subsystem(method, Modem, no)
      BY <1>1, <2>1 DEF Unlink, Removal, Efs
    <3>2. ASSUME Exists(p), Kind(p) # "dir", NEW q \in DOMAIN Modem.tree, Front(q) = p
          PROVE  FALSE
      <4>1. p # << >> /\ p \in DOMAIN Modem.tree /\ Modem.tree[p].kind # "dir"
        BY <3>2 DEF Exists, Kind
      <4>2. Len(q) > 1
        <5>1. q \in Seq(Range(q)) /\ q # << >>
          BY DEF IsTree, IsPath
        <5>2. Len(p) = Len(q) - 1 /\ Len(q) \in Nat \ {0}
          BY <3>2, <5>1, Fronted
        <5>3. Len(p) # 0
          BY <4>1, OverRange, EmptySeq DEF IsPath
        <5> QED
          BY <5>2, <5>3
      <4> QED
        BY <3>2, <4>1, <4>2 DEF IsTree
    <3> QED
      BY <3>1, <3>2
  <2>2. CASE o \in Rmdir(p)
    BY <1>1, <2>2 DEF Rmdir, Removal, Efs, In
  <2> QED
    BY <2>1, <2>2
<1>3. removed.tree = Without(Modem.tree, p) /\ "tree" \in DOMAIN removed
  OBVIOUS
<1>4. ok.class = "subsys" /\ no.class = "subsys" /\ ~Removed(no)
  BY DEF Reply, Nothing, Errno, Words, Removed
<1> HIDE DEF removed, ok, no
<1>5. CASE /\ o \in Subsystem(method, removed, ok)
           /\ \A q \in DOMAIN Modem.tree : Front(q) # p
  <2>1. IsLine(o.link) /\ (~o.link.late => Served1(o, removed, ok))
    BY <1>4, <1>5, OnTimeEfs DEF Orderly
  <2>2. IsTree(Without(Modem.tree, p)) /\ \A q \in DOMAIN Without(Modem.tree, p) : ~IsPrefix(p, q)
    BY <1>5, Emptied
  <2>3. ~o.link.late /\ Removed(o.answer) => o.link.modem = removed
    BY <2>1, NoAnswer DEF Served1
  <2>4. ~o.link.late => o.link.modem \in {Modem, removed}
    BY <2>1 DEF Served1
  <2> QED
    BY <1>3, <2>1, <2>2, <2>3, <2>4 DEF OrderlyAfter, Served1
<1>6. CASE o \in Subsystem(method, Modem, no)
  <2>1. IsLine(o.link) /\ (~o.link.late => Served1(o, Modem, no))
    BY <1>4, <1>6, OnTimeEfs DEF Orderly
  <2>2. ~o.link.late => ~Removed(o.answer) /\ o.link.modem = Modem
    BY <1>4, <2>1, NoAnswer DEF Served1
  <2> QED
    BY <2>1, <2>2 DEF OrderlyAfter, Served1
<1> QED
  BY <1>2, <1>5, <1>6

-----------------------------------------------------------------------------
(* nvread, nvwrite and efsrm tell the truth: the inductive invariant.      *)

\* Where a command may be before it ends.
Stations ==
    IF setup.cmd = "rm" THEN Opening \cup Removing ELSE {"spc", "password", setup.cmd}

\* The walk of efsrm starts at the path that is given.
Rooted ==
    /\ "tree" \in DOMAIN Modem /\ IsTree(Modem.tree)
    /\ pc \in Removing => stack # << >> /\ stack[1].path = setup.path

TInv ==
    setup.cmd # "xqcn" =>
        /\ Orderly
        /\ job = setup.cmd /\ pc \in Stations \cup {"end"}
        /\ pc # "end" => exit = -1 /\ (setup.cmd # "rm" => Modem = setup.modem)
        /\ setup.cmd = "rm" /\ ~link.late => Rooted
        /\ ExitIsTrue

\* The session of one of these commands, with what is known of it.
InCommand == setup \in Setups /\ setup' = setup /\ setup.cmd # "xqcn" /\ IInv /\ TInv

\* What a step has to leave, as far as the command goes on.
Onward ==
    /\ Orderly' /\ job' = setup.cmd /\ pc' \in Stations /\ exit' = -1
    /\ setup.cmd # "rm" => Modem' = setup.modem
    /\ setup.cmd = "rm" /\ ~link'.late => Rooted'

\* A command that goes on has not claimed anything.
LEMMA OnwardKeeps ==
    ASSUME InCommand, Onward
    PROVE  TInv'
<1>1. Stations' = Stations
  BY DEF InCommand, Stations
<1>2. ExitIsTrue'
  BY DEF Onward, ExitIsTrue
<1> QED
  BY <1>1, <1>2 DEF InCommand, Onward, TInv

\* A request that leaves the files alone, while the stack keeps its first frame.
LEMMA AskedOnward ==
    ASSUME InCommand, NEW o, link' = o.link,
           OrderlyAfter(o.link), ~o.link.late => SameTree(o.link.modem) /\ SameOpen(o.link.modem),
           setup.cmd # "rm" => o.link.modem = Modem /\ pc # "end",
           job' = job, exit' = exit, pc' \in Stations, pc # "end",
           setup.cmd = "rm" /\ pc' \in Removing => stack' # << >> /\ stack'[1].path = setup.path
    PROVE  TInv'
<1>1. Orderly'
  BY DEF OrderlyAfter, Orderly
<1>2. setup.cmd # "rm" => Modem' = setup.modem
  BY DEF InCommand, TInv, Modem
<1>3. ASSUME setup.cmd = "rm", ~link'.late PROVE Rooted'
  <2>1. ~link.late
    BY <1>3 DEF OrderlyAfter
  <2>2. Rooted
    BY <1>3, <2>1 DEF InCommand, TInv
  <2>3. "tree" \in DOMAIN Modem' /\ Modem'.tree = Modem.tree
    BY <1>3, <2>2 DEF SameTree, Modem, Rooted
  <2>4. IsTree(Modem'.tree)
    BY <2>2, <2>3 DEF Rooted
  <2>5. setup' = setup
    BY DEF InCommand
  <2> QED
    BY <1>3, <2>3, <2>4, <2>5 DEF Rooted
<1> QED
  BY <1>1, <1>2, <1>3, OnwardKeeps DEF Onward, InCommand, TInv

\* A command that ends with a failure claims nothing.
LEMMA FailedKeeps ==
    ASSUME InCommand, NEW o, link' = o.link, setup.cmd = "rm",
           OrderlyAfter(o.link), ~o.link.late => SameTree(o.link.modem) /\ SameOpen(o.link.modem),
           job' = job, exit' = 1, pc' = "end"
    PROVE  TInv'
<1>1. Orderly' /\ ExitIsTrue'
  BY DEF OrderlyAfter, Orderly, ExitIsTrue
<1>2. ASSUME ~link'.late PROVE Rooted'
  <2>1. ~link.late
    BY <1>2 DEF OrderlyAfter
  <2>2. Rooted
    BY <2>1 DEF InCommand, TInv
  <2>3. "tree" \in DOMAIN Modem' /\ Modem'.tree = Modem.tree
    BY <1>2, <2>2 DEF SameTree, Modem, Rooted
  <2>4. IsTree(Modem'.tree)
    BY <2>2, <2>3 DEF Rooted
  <2> QED
    BY <2>3, <2>4 DEF Rooted, Removing
<1> QED
  BY <1>1, <1>2 DEF InCommand, TInv

\* The requests that open the session.
LEMMA OpeningTrue ==
    ASSUME InCommand, SendSpc \/ SendPassword \/ DetectAlt \/ DetectStd \/ EfsQuery
    PROVE  TInv'
<1>1. Orderly /\ job = setup.cmd /\ pc \in Stations \cup {"end"}
  BY DEF InCommand, TInv
<1>2. setup.cmd \in {"nvread", "nvwrite", "rm"}
  BY SessionSetups DEF InCommand
<1>3. CASE SendSpc \/ SendPassword
  <2>1. PICK class, size : \E o \in Send(class, Modem, Reply(class, size, Done)) : link' = o.link
    BY <1>3 DEF SendSpc, SendPassword, Take
  <2>2. PICK o \in Send(class, Modem, Reply(class, size, Done)) : link' = o.link
    BY <2>1
  <2>3. /\ OrderlyAfter(o.link)
        /\ ~o.link.late => SameTree(o.link.modem) /\ SameOpen(o.link.modem)
    BY <1>1, <2>2, AsksInTime
  <2>4. o.link.modem = Modem
    <3>1. Accepts(class, Reply(class, size, Done))
      BY Replies DEF Accepts
    <3> QED
      BY <1>1, <2>2, <3>1, Arrived DEF Orderly, IsLine
  <2>5. job' = job /\ exit' = exit /\ pc' \in {"password", FirstRequest} /\ pc # "end"
    BY <1>3 DEF SendSpc, SendPassword, Go, commandVars
  <2>6. pc' \in Stations /\ pc' \notin Removing
    BY <1>1, <1>2, <2>5 DEF Stations, FirstRequest, Opening, Removing
  <2> QED
    BY <2>2, <2>3, <2>4, <2>5, <2>6, AskedOnward
<1>4. CASE DetectAlt \/ DetectStd \/ EfsQuery
  <2>1. pc \in {"hello_alt", "hello_std", "query"} /\ setup.cmd = "rm"
    BY <1>1, <1>2, <1>4 DEF DetectAlt, DetectStd, EfsQuery, EfsDetect, Stations
  <2>2. PICK o : link' = o.link /\ ((\E m : o \in Hello(m)) \/ o \in Query)
    BY <1>4 DEF DetectAlt, DetectStd, EfsQuery, EfsDetect, Take
  <2>3. /\ OrderlyAfter(o.link)
        /\ ~o.link.late => SameTree(o.link.modem) /\ SameOpen(o.link.modem)
    BY <1>1, <2>2, AsksInTime
  <2>4. /\ job' = job
        /\ \/ exit' = exit /\ pc' \in {"hello_std", "query", job}
           \/ exit' = 1 /\ pc' = "end"
    BY <1>4 DEF DetectAlt, DetectStd, EfsQuery, EfsDetect, Go, End, commandVars
  <2>5. CASE exit' = exit /\ pc' \in {"hello_std", "query", job}
    <3>1. pc' \in Stations /\ pc' \notin Removing /\ pc # "end"
      BY <1>1, <2>1, <2>5 DEF Stations, Opening, Removing
    <3> QED
      BY <2>1, <2>2, <2>3, <2>4, <2>5, <3>1, AskedOnward
  <2>6. CASE exit' = 1 /\ pc' = "end"
    BY <2>1, <2>2, <2>3, <2>4, <2>6, FailedKeeps
  <2> QED
    BY <2>4, <2>5, <2>6
<1> QED
  BY <1>3, <1>4

\* The answer with an item.
LEMMA ItemAnswer ==
    ASSUME NEW class, NEW size, NEW id, NEW value
    PROVE  /\ NvAnswer(class, size, id, value).class = class
           /\ NvAnswer(class, size, id, value).data = value
           /\ Accepts(class, NvAnswer(class, size, id, value))
  BY DEF NvAnswer, Reply, Nothing, Accepts

\* nvread and nvwrite: an answer in time is that of the request.
LEMMA NvTrue ==
    ASSUME InCommand, NvReadCommand \/ NvWriteCommand
    PROVE  TInv'
<1> DEFINE table == IF setup.sim THEN Modem.sim ELSE Modem.nv
<1>1. /\ Orderly /\ job = setup.cmd /\ pc \in Stations \cup {"end"}
      /\ pc # "end" => (setup.cmd # "rm" => Modem = setup.modem)
  BY DEF InCommand, TInv
<1>2. /\ setup.cmd \in {"nvread", "nvwrite"} /\ pc = setup.cmd /\ Modem = setup.modem
      /\ pc' = "end" /\ job' = job /\ setup' = setup
  <2>1. setup.cmd \in {"nvread", "nvwrite", "rm"}
    BY SessionSetups DEF InCommand
  <2>2. pc \in {"nvread", "nvwrite"} /\ pc' = "end" /\ job' = job
    BY DEF NvReadCommand, NvWriteCommand, End
  <2> QED
    BY <1>1, <2>1, <2>2 DEF Stations, Opening, Removing, InCommand
<1>3. SUFFICES Orderly' /\ ExitIsTrue'
  BY <1>2 DEF TInv, InCommand
<1>4. CASE NvReadCommand
  <2> DEFINE class == IF setup.sim THEN "subsys" ELSE "nvread"
  <2>1. PICK o : /\ o \in IF setup.sim THEN NvReadSub(setup.id) ELSE NvRead(setup.id)
                 /\ link' = o.link
                 /\ IF IsRecord(class, o.answer)
                    THEN /\ printed' = {[id |-> setup.id, data |-> o.answer.data]}
                         /\ End(0)
                    ELSE End(1) /\ UNCHANGED printed
    BY <1>4 DEF NvReadCommand, Take
  <2>2. PICK size : o \in Send(class, Modem, NvAnswer(class, size, setup.id, table[setup.id]))
    BY <2>1 DEF NvRead, NvReadSub
  <2> DEFINE reply == NvAnswer(class, size, setup.id, table[setup.id])
  <2>3. /\ IsLine(o.link)
        /\ ~o.link.late =>
              /\ ~link.late /\ o.link.pending = << >>
              /\ \/ o.answer = reply /\ o.link.modem = Modem
                 \/ o.answer = Nothing /\ o.link.modem \in {Modem, Modem}
    BY <1>1, <2>2, ItemAnswer, OnTime DEF Orderly
  <2>4. Orderly'
    BY <2>1, <2>3 DEF Orderly
  <2>5. ASSUME exit' = 0, ~link'.late PROVE \A r \in printed' : r.data = table'[r.id]
    <3>1. IsRecord(class, o.answer) /\ printed' = {[id |-> setup.id, data |-> o.answer.data]}
      BY <2>1, <2>5 DEF End
    <3>2. o.answer # Nothing
      BY <3>1, NoAnswer DEF IsRecord
    <3>3. o.answer = reply /\ o.link.modem = Modem
      BY <2>1, <2>3, <2>5, <3>2
    <3>4. o.answer.data = table[setup.id]
      BY <3>3, ItemAnswer
    <3>5. table' = table
      BY <1>2, <2>1, <3>3 DEF Modem
    <3> QED
      BY <3>1, <3>4, <3>5
  <2>6. setup.cmd = "nvread"
    BY <1>2, <1>4 DEF NvReadCommand
  <2> QED
    BY <1>2, <2>4, <2>5, <2>6 DEF ExitIsTrue
<1>5. CASE NvWriteCommand
  <2> DEFINE class == IF setup.sim THEN "subsys" ELSE "nvwrite"
             changed == IF setup.sim THEN [Modem EXCEPT !.sim[setup.id] = setup.value]
                        ELSE [Modem EXCEPT !.nv[setup.id] = setup.value]
             written == IF Writes(setup.id) THEN changed ELSE Modem
  <2>1. PICK o : /\ o \in IF setup.sim THEN NvWriteSub(setup.id, setup.value)
                          ELSE NvWrite(setup.id, setup.value)
                 /\ link' = o.link
                 /\ End(IF Written(class, o.answer) THEN 0 ELSE 1)
    BY <1>5 DEF NvWriteCommand, Take
  <2>2. PICK size : o \in Send(class, written, NvAnswer(class, size, setup.id, Status(setup.id)))
    BY <2>1 DEF NvWrite, NvWriteSub
  <2> DEFINE reply == NvAnswer(class, size, setup.id, Status(setup.id))
  <2>3. setup.cmd = "nvwrite"
    BY <1>2, <1>5 DEF NvWriteCommand
  <2>4. Writes(setup.id) => (IF setup.sim THEN written.sim ELSE written.nv)[setup.id] = setup.value
    <3>1. {"nv", "sim"} \subseteq DOMAIN Modem /\ setup.id \in DOMAIN Modem.nv \cap DOMAIN Modem.sim
      BY <1>2, <2>3, SessionSetups DEF InCommand
    <3> QED
      BY <3>1
  <2> HIDE DEF written
  <2>5. /\ IsLine(o.link)
        /\ ~o.link.late =>
              /\ ~link.late /\ o.link.pending = << >>
              /\ \/ o.answer = reply /\ o.link.modem = written
                 \/ o.answer = Nothing /\ o.link.modem \in {Modem, written}
    BY <1>1, <2>2, ItemAnswer, OnTime DEF Orderly
  <2>6. Orderly'
    BY <2>1, <2>5 DEF Orderly
  <2>7. ASSUME exit' = 0, ~link'.late PROVE table'[setup.id] = setup.value
    <3>1. Written(class, o.answer)
      BY <2>1, <2>7 DEF End
    <3>2. o.answer # Nothing
      BY <3>1, NoAnswer DEF IsRecord, Written
    <3>3. o.answer = reply /\ o.link.modem = written
      BY <2>1, <2>5, <2>7, <3>2
    <3>4. Writes(setup.id)
      BY <3>1, <3>3, ItemAnswer DEF Written, Status
    <3> QED
      BY <1>2, <2>1, <2>4, <3>3, <3>4 DEF Modem
  <2> QED
    BY <1>2, <2>3, <2>6, <2>7 DEF ExitIsTrue
<1> QED
  BY <1>4, <1>5

\* A removal leaves the link in order, whatever the modem has.
LEMMA RemovalOrderly ==
    ASSUME Orderly, NEW p, NEW o, o \in Unlink(p) \/ o \in Rmdir(p)
    PROVE  OrderlyAfter(o.link)
<1>1. PICK modem, words : o \in Subsystem(method, modem, Reply("subsys", 8, words))
  BY DEF Unlink, Rmdir, Removal, Efs
<1>2. IsLine(o.link) /\ (~o.link.late => Served1(o, modem, Reply("subsys", 8, words)))
  BY <1>1, Replies, OnTimeEfs DEF Orderly
<1> QED
  BY <1>2 DEF Served1, OrderlyAfter

\* The first frame keeps its path when the top is replaced by one of the same path.
LEMMA FirstStays ==
    ASSUME Frames, stack # << >>, NEW e
    PROVE  /\ e.path = Top.path => Append(Front(stack), e)[1].path = stack[1].path
           /\ Append(stack, e)[1] = stack[1]
           /\ Append(stack, e) # << >> /\ Append(Front(stack), e) # << >>
<1>1. /\ Front(stack) \in Seq(Range(Front(stack))) /\ Len(stack) \in Nat \ {0}
      /\ Len(Front(stack)) = Len(stack) - 1 /\ stack \in Seq(Range(stack))
  BY OnTop DEF Frames
<1>2. \A i \in 1..(Len(stack) - 1) : Front(stack)[i] = stack[i]
  BY <1>1, SubSeqProperties DEF Front
<1>3. /\ Append(stack, e)[1] = stack[1]
      /\ Append(stack, e) # << >> /\ Append(Front(stack), e) # << >>
  <2>1. 1 \in 1..Len(stack)
    BY <1>1
  <2> QED
    BY <1>1, <2>1, Appended
<1>4. CASE Len(stack) = 1
  <2>1. Len(Front(stack)) = 0 /\ Top = stack[1]
    BY <1>1, <1>4 DEF Top, Last
  <2>2. Append(Front(stack), e)[1] = e
    <3>1. Append(Front(stack), e)[Len(Front(stack)) + 1] = e
      BY <1>1, AppendProperties
    <3> QED
      BY <2>1, <3>1
  <2> QED
    BY <1>3, <2>1, <2>2
<1>5. CASE Len(stack) # 1
  <2>1. 1 \in 1..Len(Front(stack)) /\ Front(stack)[1] = stack[1]
    BY <1>1, <1>2, <1>5
  <2>2. Append(Front(stack), e)[1] = stack[1]
    BY <1>1, <2>1, Appended
  <2> QED
    BY <1>3, <2>2
<1> QED
  BY <1>4, <1>5

\* The return to the directory above.
LEMMA FirstReturns ==
    ASSUME Frames, Len(stack) > 1
    PROVE  LET s == Append(Front(Front(stack)), [stack[Len(stack) - 1] EXCEPT !.seqno = @ + 1])
           IN  s # << >> /\ s[1].path = stack[1].path
<1>1. /\ stack # << >> /\ Len(stack) \in Nat /\ stack \in Seq(Range(stack))
      /\ Len(Front(stack)) = Len(stack) - 1
      /\ Front(stack) \in Seq(Range(Front(stack)))
      /\ \A i \in 1..Len(stack) : Good(stack[i])
  BY OnTop, EmptySeq DEF Frames
<1> DEFINE above == [stack[Len(stack) - 1] EXCEPT !.seqno = @ + 1]
           b == Front(stack)
<1>2. \A i \in 1..Len(b) : b[i] = stack[i]
  BY <1>1, SubSeqProperties DEF Front
<1>3. above.path = stack[Len(stack) - 1].path
  <2>1. Good(stack[Len(stack) - 1])
    BY <1>1
  <2> QED
    BY <2>1 DEF Good
<1> HIDE DEF above, b
<1>4. /\ b \in Seq(Range(b)) /\ b # << >> /\ Len(b) \in Nat \ {0} /\ Len(b) = Len(stack) - 1
  BY <1>1, EmptySeq DEF b
<1>5. /\ Front(b) \in Seq(Range(Front(b))) /\ Len(Front(b)) = Len(b) - 1
      /\ \A i \in 1..Len(Front(b)) : Front(b)[i] = b[i]
  BY <1>4, Fronted, SubSeqProperties DEF Front
<1>6. Append(Front(b), above) # << >>
  BY <1>5, Appended
<1>7. CASE Len(b) = 1
  <2>1. Append(Front(b), above)[Len(Front(b)) + 1] = above
    BY <1>5, AppendProperties
  <2>2. Append(Front(b), above)[1] = above
    BY <1>5, <1>7, <2>1
  <2>3. Len(stack) - 1 = 1
    BY <1>4, <1>7
  <2> QED
    BY <1>3, <1>6, <2>2, <2>3 DEF above, b
<1>8. CASE Len(b) # 1
  <2>1. 1 \in 1..Len(Front(b)) /\ 1 \in 1..Len(b)
    BY <1>4, <1>5, <1>8
  <2>2. Append(Front(b), above)[1] = stack[1]
    BY <1>2, <1>5, <2>1, Appended
  <2> QED
    BY <1>6, <2>2 DEF above, b
<1> QED
  BY <1>7, <1>8

\* A removal, and where the session goes with it: the command is done only with
\* the path it was given.
LEMMA RemovedOnward ==
    ASSUME InCommand, setup.cmd = "rm", NEW p, IsPath(p), NEW o, o \in Unlink(p) \/ o \in Rmdir(p),
           link' = o.link, job' = job, pc \in Removing,
           \/ /\ pc' \in Removing /\ exit' = exit
              /\ stack' # << >> /\ (stack # << >> => stack'[1].path = stack[1].path)
           \/ /\ pc' = "end" /\ exit' \in {0, 1}
              /\ exit' = 0 /\ stack[1].path = setup.path => Removed(o.answer) /\ p = setup.path
    PROVE  TInv'
<1>1. Orderly /\ job = setup.cmd /\ exit = -1 /\ pc # "end"
  BY DEF InCommand, TInv, Removing
<1>2. /\ ~link.late => Rooted
      /\ IInv
  BY DEF InCommand, TInv
<1>3. Orderly'
  <2>1. IsLine(o.link) /\ (~o.link.late => ~link.late /\ o.link.pending = << >>)
    BY <1>1, RemovalOrderly DEF OrderlyAfter
  <2> QED
    BY <2>1 DEF Orderly
<1>4. ASSUME ~link'.late
      PROVE  /\ Rooted
             /\ "tree" \in DOMAIN Modem' /\ IsTree(Modem'.tree)
             /\ Removed(o.answer) => \A q \in DOMAIN Modem'.tree : ~IsPrefix(p, q)
  <2>1. ~link.late
    BY <1>1, <1>4, RemovalOrderly DEF OrderlyAfter
  <2>2. Rooted
    BY <1>2, <2>1
  <2>3. /\ "tree" \in DOMAIN o.link.modem /\ IsTree(o.link.modem.tree)
        /\ Removed(o.answer) => \A q \in DOMAIN o.link.modem.tree : ~IsPrefix(p, q)
    BY <1>1, <1>4, <2>2, RemovesInTime DEF Rooted
  <2> QED
    BY <2>2, <2>3 DEF Modem
<1>5. setup' = setup
  BY DEF InCommand
<1>6. CASE /\ pc' \in Removing /\ exit' = exit
           /\ stack' # << >> /\ (stack # << >> => stack'[1].path = stack[1].path)
  <2>1. ~link'.late => Rooted'
    BY <1>4, <1>5, <1>6 DEF Rooted
  <2>2. pc' \in Stations
    BY <1>6 DEF Stations
  <2> QED
    BY <1>1, <1>3, <1>6, <2>1, <2>2, OnwardKeeps DEF Onward
<1>7. CASE /\ pc' = "end" /\ exit' \in {0, 1}
           /\ exit' = 0 /\ stack[1].path = setup.path => Removed(o.answer) /\ p = setup.path
  <2>1. ~link'.late => Rooted'
    BY <1>4, <1>5, <1>7 DEF Rooted, Removing
  <2>2. ASSUME exit' = 0, ~link'.late PROVE Under(setup.path)' \cap DOMAIN Modem'.tree = {}
    <3>1. Removed(o.answer) /\ p = setup.path
      BY <1>4, <1>7, <2>2 DEF Rooted
    <3> QED
      BY <1>4, <1>5, <2>2, <3>1 DEF Under
  <2>3. ExitIsTrue'
    BY <1>5, <2>2 DEF ExitIsTrue
  <2> QED
    BY <1>1, <1>3, <1>5, <1>7, <2>1, <2>3 DEF TInv
<1> QED
  BY <1>6, <1>7

\* Requests of efsrm that remove nothing.
LEMMA LooksTrue ==
    ASSUME InCommand, setup.cmd = "rm", RmStart \/ RmOpendir \/ RmReaddir \/ RmStat \/ RmClosedir
    PROVE  TInv'
<1>1. Orderly /\ job = setup.cmd /\ pc \in Stations \cup {"end"}
  BY DEF InCommand, TInv
<1>2. IInv /\ setup' = setup
  BY DEF InCommand
<1>3. ASSUME NEW o, link' = o.link,
             \/ \E path : o \in Opendir(path)
             \/ \E h, seqno : o \in Readdir(h, seqno)
             \/ \E path : o \in Stat(path)
             \/ \E h : o \in Closedir(h),
             job' = job, exit' = exit, pc' \in Removing, pc # "end",
             stack' # << >>, stack'[1].path = setup.path \/ link.late
      PROVE  TInv'
  <2>1. /\ OrderlyAfter(o.link)
        /\ ~o.link.late => SameTree(o.link.modem) /\ SameOpen(o.link.modem)
    BY <1>1, <1>3, AsksInTime
  <2>2. pc' \in Stations
    BY <1>3 DEF Stations
  <2>3. CASE stack'[1].path = setup.path
    BY <1>3, <2>1, <2>2, <2>3, AskedOnward
  <2>4. CASE link.late
    <3>1. Orderly' /\ link'.late
      BY <1>3, <2>1, <2>4 DEF OrderlyAfter, Orderly
    <3> QED
      BY <1>1, <1>3, <2>2, <3>1, OnwardKeeps DEF Onward, InCommand, TInv
  <2> QED
    BY <1>3, <2>3, <2>4
<1>4. CASE RmStart
  <2>1. PICK o \in Stat(setup.path) : link' = o.link
    BY <1>4 DEF RmStart, Take
  <2>2. /\ stack' = << Frame(setup.path) >> /\ job' = job /\ exit' = exit /\ pc = "rm"
        /\ pc' \in {"rm_opendir", "rm_unlink_self"}
    BY <1>4 DEF RmStart, Go
  <2>3. stack' # << >> /\ stack'[1].path = setup.path
    BY <2>2 DEF Frame
  <2> QED
    BY <1>3, <2>1, <2>2, <2>3 DEF Removing
<1>5. CASE RmOpendir \/ RmReaddir \/ RmStat \/ RmClosedir
  <2>1. /\ pc \in Removing /\ pc # "end" /\ exit' = exit /\ job' = job
    BY <1>5 DEF RmOpendir, RmReaddir, RmStat, RmClosedir, Removing, commandVars
  <2>2. Frames /\ stack # << >>
    BY <1>2, <2>1 DEF IInv, Place
  <2>3. stack[1].path = setup.path \/ link.late
    BY <2>1 DEF InCommand, TInv, Rooted
  <2>4. Good(Top) /\ \A x : [Top EXCEPT !.dirp = x].path = Top.path
                     /\ [Top EXCEPT !.seqno = x].path = Top.path
                     /\ [Top EXCEPT !.name = x].path = Top.path
    BY <2>2, OnTop DEF Good
  <2>5. \A e : e.path = Top.path /\ Replace(e) => stack' # << >> /\ stack'[1].path = stack[1].path
    BY <2>2, FirstStays DEF Replace
  <2>6. NextEntry.path = Top.path
    BY <2>4 DEF NextEntry
  <2>7. CASE RmOpendir
    <3>1. PICK o \in Opendir(Top.path) :
             /\ link' = o.link
             /\ IF Opened(o.answer)
                THEN Replace([Top EXCEPT !.dirp = o.answer.w4]) /\ Go("rm_readdir")
                ELSE Go("rm_unlink_self") /\ UNCHANGED stack
      BY <2>7 DEF RmOpendir, Take
    <3>2. /\ pc' \in Removing /\ stack' # << >> /\ stack'[1].path = stack[1].path
      BY <2>2, <2>4, <2>5, <3>1 DEF Go, Removing
    <3> QED
      BY <1>3, <2>1, <2>3, <3>1, <3>2
  <2>8. CASE RmReaddir
    <3>1. PICK o \in Readdir(Top.dirp, Top.seqno) :
             /\ link' = o.link
             /\ IF ~Entry(o.answer) THEN Go("rm_closedir") /\ UNCHANGED stack
                ELSE IF Skipped(o.answer.name) THEN Replace(NextEntry) /\ UNCHANGED pc
                ELSE Replace([Top EXCEPT !.name = o.answer.name]) /\ Go("rm_stat")
      BY <2>8 DEF RmReaddir, Take
    <3>2. /\ pc' \in Removing /\ stack' # << >> /\ stack'[1].path = stack[1].path
      BY <2>1, <2>2, <2>4, <2>5, <2>6, <3>1 DEF Go, Removing
    <3> QED
      BY <1>3, <2>1, <2>3, <3>1, <3>2
  <2>9. CASE RmStat
    <3>1. PICK o \in Stat(FullPath) :
             /\ link' = o.link
             /\ IF ~Statted(o.answer) THEN Replace(NextEntry) /\ Go("rm_readdir")
                ELSE IF o.answer.w8 = Mode("dir")
                THEN stack' = Append(stack, Frame(FullPath)) /\ Go("rm_opendir")
                ELSE Go("rm_unlink") /\ UNCHANGED stack
      BY <2>9 DEF RmStat, Take
    <3>2. Append(stack, Frame(FullPath)) # << >> /\ Append(stack, Frame(FullPath))[1] = stack[1]
      BY <2>2, FirstStays
    <3>3. /\ pc' \in Removing /\ stack' # << >> /\ stack'[1].path = stack[1].path
      BY <2>2, <2>5, <2>6, <3>1, <3>2 DEF Go, Removing
    <3> QED
      BY <1>3, <2>1, <2>3, <3>1, <3>3
  <2>10. CASE RmClosedir
    <3>1. PICK o \in Closedir(Top.dirp) : link' = o.link
      BY <2>10 DEF RmClosedir, Take
    <3>2. pc' \in Removing /\ stack' = stack
      BY <2>10 DEF RmClosedir, Go, Removing, commandVars
    <3> QED
      BY <1>3, <2>1, <2>2, <2>3, <3>1, <3>2
  <2> QED
    BY <1>5, <2>7, <2>8, <2>9, <2>10
<1> QED
  BY <1>4, <1>5

\* Its removals.
LEMMA RemovalsTrue ==
    ASSUME InCommand, setup.cmd = "rm", RmUnlink \/ RmUnlinkSelf \/ RmRmdir
    PROVE  TInv'
<1>1. Orderly /\ job = setup.cmd /\ IInv /\ pc \in Removing /\ job' = job /\ exit = -1
  BY DEF InCommand, TInv, RmUnlink, RmUnlinkSelf, RmRmdir, Removing
<1>2. Frames /\ stack # << >> /\ Place
  BY <1>1 DEF IInv, Place, InCommand
<1>3. Good(Top) /\ Below(Top.path) /\ Len(stack) \in Nat \ {0}
  BY <1>2, OnTop DEF Good
<1>4. CASE RmUnlink
  <2>1. PICK o \in Unlink(FullPath) : link' = o.link
    BY <1>4 DEF RmUnlink, Take
  <2>2. IsPath(FullPath)
    <3>1. pc = "rm_unlink"
      BY <1>4 DEF RmUnlink
    <3>2. ~Skipped(Top.name)
      BY <1>2, <3>1 DEF Place
    <3>3. IsPath(Top.path) /\ IsPrefix(setup.path, Top.path) /\ Proper(Top.path)
      BY <1>3 DEF Below, IsPath
    <3>4. IsPath(setup.path)
      BY <1>1, RemovalSetups DEF IInv
    <3>5. setup.path \in Seq(Range(setup.path)) /\ Top.path \in Seq(Range(Top.path))
      BY <3>3, <3>4 DEF IsPath
    <3> QED
      BY <3>2, <3>3, <3>5, Deeper DEF FullPath, IsPath
  <2>3. Replace(NextEntry) /\ pc' = "rm_readdir" /\ exit' = exit
    BY <1>4 DEF RmUnlink, Go
  <2>4. NextEntry.path = Top.path
    BY <1>3 DEF NextEntry, Good
  <2>5. stack' # << >> /\ stack'[1].path = stack[1].path
    BY <1>2, <2>3, <2>4, FirstStays DEF Replace
  <2>6. pc' \in Removing
    BY <2>3 DEF Removing
  <2> QED
    BY <1>1, <2>1, <2>2, <2>3, <2>5, <2>6, RemovedOnward
<1>5. CASE RmUnlinkSelf \/ RmRmdir
  <2>1. PICK o : /\ o \in Unlink(Top.path) \/ o \in Rmdir(Top.path)
                 /\ link' = o.link /\ Return(Removed(o.answer))
    BY <1>5 DEF RmUnlinkSelf, RmRmdir, Take
  <2>2. IsPath(Top.path)
    BY <1>3 DEF Below
  <2>3. CASE Len(stack) > 1
    <3>1. /\ pc' = "rm_readdir" /\ exit' = exit
          /\ stack' = Append(Front(Front(stack)), [stack[Len(stack) - 1] EXCEPT !.seqno = @ + 1])
      BY <2>1, <2>3 DEF Return, Go
    <3>2. stack' # << >> /\ stack'[1].path = stack[1].path
      BY <1>2, <2>3, <3>1, FirstReturns
    <3>3. pc' \in Removing
      BY <3>1 DEF Removing
    <3> QED
      BY <1>1, <2>1, <2>2, <3>1, <3>2, <3>3, RemovedOnward
  <2>4. CASE ~(Len(stack) > 1)
    <3>1. pc' = "end" /\ exit' = IF Removed(o.answer) THEN 0 ELSE 1
      BY <2>1, <2>4 DEF Return, End
    <3>2. Top = stack[1]
      <4>1. Len(stack) = 1
        <5>1. PICK n \in Nat \ {0} : n = Len(stack)
          BY <1>3
        <5>2. ~(n > 1) => n = 1
          BY <5>1
        <5> QED
          BY <2>4, <5>1, <5>2
      <4> QED
        BY <4>1 DEF Top, Last
    <3>3. /\ exit' \in {0, 1}
          /\ exit' = 0 /\ stack[1].path = setup.path => Removed(o.answer) /\ Top.path = setup.path
      BY <3>1, <3>2
    <3> QED
      BY <1>1, <2>1, <2>2, <3>1, <3>3, RemovedOnward
  <2> QED
    BY <2>3, <2>4
<1> QED
  BY <1>4, <1>5

-----------------------------------------------------------------------------
\* A session starts with nothing on its way and nothing claimed.
LEMMA TruthStarts == Init => TInv
<1> SUFFICES ASSUME Init, setup.cmd # "xqcn" PROVE TInv
  BY DEF TInv
<1>1. /\ link = Connected(setup.modem) /\ setup \in Setups
      /\ pc = "spc" /\ exit = -1 /\ job = setup.cmd
  BY DEF Init, CommandInit
<1>2. Modem = setup.modem /\ Orderly
  <2>1. /\ link.modem = setup.modem /\ link.pending = << >>
        /\ {"modem", "pending", "late"} \subseteq DOMAIN link
    BY <1>1 DEF Connected
  <2>2. << >> \in Seq(Range(<< >>))
    OBVIOUS
  <2> QED
    BY <2>1, <2>2 DEF Modem, Orderly, IsLine, IsLink
<1>3. setup.cmd = "rm" => Rooted
  BY <1>1, <1>2, SessionSetups DEF Rooted, Removing
<1>4. pc \in Stations
  BY <1>1 DEF Stations, Opening
<1> QED
  BY <1>1, <1>2, <1>3, <1>4 DEF TInv, ExitIsTrue

\* Every step keeps the invariant.
LEMMA TruthGoesOn == IInv /\ RInv /\ TInv /\ [Next]_vars => TInv'
<1> SUFFICES ASSUME IInv, RInv, TInv, [Next]_vars, setup'.cmd # "xqcn" PROVE TInv'
  BY DEF TInv
<1>1. setup' = setup /\ InCommand
  BY DEF Next, vars, Ended, InCommand, RInv
<1>2. setup.cmd \in {"nvread", "nvwrite", "rm"} /\ pc \in Stations \cup {"end"}
  BY <1>1, SessionSetups DEF InCommand, TInv
<1>3. CASE UNCHANGED vars
  BY <1>1, <1>3 DEF TInv, vars, Orderly, Stations, Modem, Rooted, ExitIsTrue, Under, InCommand
<1>4. CASE CommandNext
  <2>1. NvReadCommand \/ NvWriteCommand => setup.cmd # "rm"
    BY <1>2 DEF NvReadCommand, NvWriteCommand, Stations, Opening, Removing
  <2>2. \/ RmStart \/ RmOpendir \/ RmReaddir \/ RmStat \/ RmUnlink \/ RmUnlinkSelf
        \/ RmClosedir \/ RmRmdir
        => setup.cmd = "rm"
    <3>1. RmStart \/ RmOpendir \/ RmReaddir \/ RmStat => pc \in {"rm", "rm_opendir", "rm_readdir", "rm_stat"}
      BY DEF RmStart, RmOpendir, RmReaddir, RmStat
    <3>2. RmUnlink \/ RmUnlinkSelf \/ RmClosedir \/ RmRmdir
          => pc \in {"rm_unlink", "rm_unlink_self", "rm_closedir", "rm_rmdir"}
      BY DEF RmUnlink, RmUnlinkSelf, RmClosedir, RmRmdir
    <3> QED
      BY <1>2, <3>1, <3>2 DEF Stations
  <2> QED
    BY <1>1, <1>4, <2>2, OpeningTrue, NvTrue, LooksTrue, RemovalsTrue DEF CommandNext
<1>5. ~XqcnNext
  BY <1>1, NoXqcn DEF InCommand, RInv
<1> QED
  BY <1>3, <1>4, <1>5 DEF Next, Ended

\* A DIAG command that ends with status 0 has done what it says, unless an
\* answer came after its timeout: for every modem, file system, path and item,
\* whichever requests fail.
THEOREM ExitIsTrueHolds == Spec => []ExitIsTrue
<1>1. TInv => ExitIsTrue
  BY DEF TInv, ExitIsTrue
<1>2. Init => TInv
  BY TruthStarts
<1>3. IInv /\ RInv /\ TInv /\ [Next]_vars => TInv'
  BY TruthGoesOn
<1> QED
  BY <1>1, <1>2, <1>3, Invariant, RecordsInvariant, PTL DEF Spec

-----------------------------------------------------------------------------
(* Sequences put together, and what is chosen from them.                   *)

\* Induction over the numbers, as a set.
LEMMA Induction ==
    ASSUME NEW S, 0 \in S, \A n \in Nat : n \in S => n + 1 \in S
    PROVE  Nat \subseteq S
<1> SUFFICES ASSUME Nat \ S # {} PROVE FALSE
  OBVIOUS
<1>1. PICK x \in Nat \ S : \A y \in Nat \ S : x <= y
  BY Least
<1>2. x - 1 \in Nat /\ x - 1 \in S
  BY <1>1
<1> QED
  BY <1>1, <1>2

\* The concatenation of the first i sequences, for every i up to n.
Concatenates(f, ss, n) ==
    f = [i \in 1..n |-> IF i = 1 THEN ss[i] ELSE f[i - 1] \o ss[i]]

\* There is such a function, so FlattenSeq takes it.
LEMMA Concatenation ==
    ASSUME NEW ss, NEW n \in Nat \ {0}, Len(ss) = n
    PROVE  \E f : Concatenates(f, ss, n) /\ FlattenSeq(ss) = f[n]
<1> DEFINE S == {m \in Nat : \E f : Concatenates(f, ss, m)}
<1>1. 0 \in S
  <2> DEFINE f == [i \in 1..0 |-> ss]
  <2>1. f = [i \in 1..0 |-> IF i = 1 THEN ss[i] ELSE f[i - 1] \o ss[i]]
    OBVIOUS
  <2> QED
    BY <2>1 DEF Concatenates
<1>2. ASSUME NEW m \in Nat, m \in S PROVE m + 1 \in S
  <2>1. PICK f : f = [i \in 1..m |-> IF i = 1 THEN ss[i] ELSE f[i - 1] \o ss[i]]
    BY <1>2 DEF Concatenates
  <2> DEFINE g == [i \in 1..(m + 1) |->
                     IF i \in 1..m THEN f[i] ELSE IF i = 1 THEN ss[i] ELSE f[i - 1] \o ss[i]]
  <2>2. ASSUME NEW i \in 1..(m + 1)
        PROVE  g[i] = IF i = 1 THEN ss[i] ELSE g[i - 1] \o ss[i]
    <3>1. i # 1 => i - 1 \in 1..(m + 1) /\ i - 1 \in 1..m
      OBVIOUS
    <3>2. i # 1 => g[i - 1] = f[i - 1]
      BY <3>1
    <3>3. CASE i \in 1..m
      <4>1. g[i] = f[i]
        BY <3>3
      <4>2. f[i] = IF i = 1 THEN ss[i] ELSE f[i - 1] \o ss[i]
        BY <2>1, <3>3
      <4> HIDE DEF g
      <4> QED
        BY <3>2, <4>1, <4>2
    <3>4. CASE i \notin 1..m
      <4>1. g[i] = IF i = 1 THEN ss[i] ELSE f[i - 1] \o ss[i]
        BY <3>4
      <4> HIDE DEF g
      <4> QED
        BY <3>2, <4>1
    <3> QED
      BY <3>3, <3>4
  <2>3. g = [i \in 1..(m + 1) |-> g[i]]
    OBVIOUS
  <2> HIDE DEF g
  <2>4. g = [i \in 1..(m + 1) |-> IF i = 1 THEN ss[i] ELSE g[i - 1] \o ss[i]]
    BY <2>2, <2>3
  <2>5. Concatenates(g, ss, m + 1)
    BY <2>4 DEF Concatenates
  <2>6. \E h : Concatenates(h, ss, m + 1)
    BY <2>5
  <2> QED
    BY <2>6
<1>3. n \in S
  <2> HIDE DEF S
  <2> QED
    BY <1>1, <1>2, Induction
<1> DEFINE c == CHOOSE f : f = [i \in 1..Len(ss) |-> IF i = 1 THEN ss[i] ELSE f[i - 1] \o ss[i]]
<1>4. c = [i \in 1..n |-> IF i = 1 THEN ss[i] ELSE c[i - 1] \o ss[i]]
  BY <1>3 DEF Concatenates
<1>5. FlattenSeq(ss) = c[n]
  BY DEF FlattenSeq
<1> HIDE DEF c
<1> QED
  BY <1>4, <1>5 DEF Concatenates

\* Sequences over a set, one after the other, are one over that set.
LEMMA Flattened ==
    ASSUME NEW S, NEW ss, Len(ss) \in Nat, ss = << >> \/ Len(ss) # 0,
           \A i \in 1..Len(ss) : ss[i] \in Seq(S)
    PROVE  FlattenSeq(ss) \in Seq(S)
<1> DEFINE n == Len(ss)
<1>1. CASE n = 0
  <2>1. FlattenSeq(ss) = << >>
    BY <1>1 DEF FlattenSeq
  <2>2. << >> \in Seq(S)
    OBVIOUS
  <2> QED
    BY <2>1, <2>2, Zenon
<1>2. CASE n # 0
  <2>1. PICK f : Concatenates(f, ss, n) /\ FlattenSeq(ss) = f[n]
    BY <1>2, Concatenation
  <2>2. \A i \in 1..n : f[i] = IF i = 1 THEN ss[i] ELSE f[i - 1] \o ss[i]
    BY <2>1 DEF Concatenates
  <2> DEFINE T == {j \in Nat : j \in 1..n => f[j] \in Seq(S)}
  <2>3. 0 \in T
    OBVIOUS
  <2>4. ASSUME NEW j \in Nat, j \in T, j + 1 \in 1..n PROVE f[j + 1] \in Seq(S)
    <3>1. f[j + 1] = IF j + 1 = 1 THEN ss[j + 1] ELSE f[j + 1 - 1] \o ss[j + 1]
      BY <2>2, <2>4
    <3>2. ss[j + 1] \in Seq(S)
      BY <2>4
    <3>3. CASE j = 0
      BY <3>1, <3>2, <3>3
    <3>4. CASE j # 0
      <4>1. f[j] \in Seq(S) /\ j + 1 - 1 = j /\ j + 1 # 1
        BY <2>4, <3>4
      <4>2. f[j + 1] = f[j] \o ss[j + 1]
        BY <3>1, <4>1
      <4> QED
        BY <3>2, <4>1, <4>2, ConcatProperties
    <3> QED
      BY <3>3, <3>4
  <2>5. \A j \in Nat : j \in T => j + 1 \in T
    BY <2>4
  <2> HIDE DEF T
  <2>6. n \in T
    BY <2>3, <2>5, Induction
  <2> QED
    BY <1>2, <2>1, <2>6 DEF T
<1> QED
  BY <1>1, <1>2

\* What is chosen from a sequence over a set is over that set.
LEMMA ChosenFrom ==
    ASSUME NEW S, NEW s \in Seq(S), NEW K
    PROVE  Chosen(s, K) \in Seq(S)
<1> DEFINE ss == [n \in 1..Len(s) |-> IF n \in K THEN << s[n] >> ELSE << >>]
<1>1. Len(s) \in Nat /\ Len(ss) = Len(s) /\ (ss = << >> \/ Len(ss) # 0)
  <2>1. Len(s) \in Nat
    OBVIOUS
  <2>2. ss \in Seq({<< s[n] >> : n \in 1..Len(s)} \cup {<< >>})
    BY <2>1, SeqDef
  <2>3. Len(ss) = Len(s)
    BY <2>1, <2>2, LenProperties
  <2>4. Len(ss) = 0 => ss = << >>
    BY <2>2, EmptySeq
  <2> QED
    BY <2>1, <2>3, <2>4
<1>2. \A n \in 1..Len(ss) : ss[n] = IF n \in K THEN << s[n] >> ELSE << >>
  BY <1>1
<1>3. \A n \in 1..Len(ss) : s[n] \in S
  BY <1>1, ElementOfSeq
<1> HIDE DEF ss
<1>4. ASSUME NEW n \in 1..Len(ss) PROVE ss[n] \in Seq(S)
  <2>1. << s[n] >> \in Seq(S) /\ << >> \in Seq(S)
    BY <1>3
  <2> QED
    BY <1>2, <2>1
<1>5. Chosen(s, K) = FlattenSeq(ss)
  BY Zenon DEF Chosen, ss
<1> QED
  BY <1>1, <1>4, <1>5, Flattened

-----------------------------------------------------------------------------
(* What a restored file holds, when no answer came late.                   *)

\* The body of a file, read from the file of that path.
Whole(p, b) ==
    p \in DOMAIN setup.modem.tree /\ b \in Seq({p}) /\ Len(b) <= setup.modem.tree[p].size
Owned(p, b) == b = << >> \/ Whole(p, b)
AllOwned(s) == s \in Seq(Range(s)) /\ \A f \in Range(s) : Owned(f.path, f.body)

EfsSections == {"Prov", "Backup", "NvItems"}

\* The file that is added, those that were, those in the document and those
\* restored.
OwnHeld ==
    /\ {"path", "size", "fd", "body"} \subseteq DOMAIN file /\ Owned(file.path, file.body)
    /\ AllOwned(files)
    /\ \A s \in EfsSections : AllOwned(doc[s])
    /\ \A p \in DOMAIN restored : Whole(p, restored[p])

\* The handle that is read is that of the file that is added.
Reads ==
    /\ {"tree", "fds"} \subseteq DOMAIN Modem /\ Modem.tree = setup.modem.tree
    /\ pc = "add_read" =>
         /\ file.path \in DOMAIN setup.modem.tree
         /\ file.fd \in DOMAIN Modem.fds /\ Modem.fds[file.fd] = file.path

OInv ==
    IF setup.cmd = "xqcn"
    THEN Orderly /\ (~link.late => OwnHeld /\ (job = "xqcn" => Reads))
    ELSE restored = << >>

-----------------------------------------------------------------------------
(* The requests of a backup without a late answer.                         *)

\* A handle that was opened is that of the file.
LEMMA OpensInTime ==
    ASSUME Orderly, NEW path, NEW o \in Open(path)
    PROVE  /\ OrderlyAfter(o.link)
           /\ ~o.link.late /\ {"tree", "fds"} \subseteq DOMAIN Modem =>
                 /\ SameTree(o.link.modem) /\ "fds" \in DOMAIN o.link.modem
                 /\ Opened(o.answer) =>
                      /\ path \in DOMAIN Modem.tree
                      /\ o.answer.w4 \in DOMAIN o.link.modem.fds
                      /\ o.link.modem.fds[o.answer.w4] = path
<1> DEFINE h == Min(Free(Modem.fds))
           opened == [Modem EXCEPT !.fds = With(@, h, path)]
           yes == Reply("subsys", 12, Words(h, 0, 0, 0))
           no == Reply("subsys", 12, Words(0, 1, 0, 0))
<1>1. \/ /\ o \in Subsystem(method, opened, yes)
         /\ Exists(path) /\ Kind(path) # "dir" /\ Free(Modem.fds) # {}
      \/ o \in Subsystem(method, Modem, no)
  BY DEF Open, Efs
<1>2. yes.class = "subsys" /\ yes.w4 = h /\ no.class = "subsys" /\ ~Opened(no)
  BY DEF Reply, Nothing, Words, Opened
<1> DEFINE whole == {"tree", "fds"} \subseteq DOMAIN Modem
<1>3. whole => "tree" \in DOMAIN opened /\ opened.tree = Modem.tree /\ "fds" \in DOMAIN opened
  OBVIOUS
<1>4. ASSUME whole PROVE h \in DOMAIN opened.fds /\ opened.fds[h] = path
  <2> HIDE DEF h
  <2>1. opened.fds = With(Modem.fds, h, path)
    BY <1>4
  <2> HIDE DEF opened
  <2> QED
    BY <2>1 DEF With
<1> HIDE DEF h, opened, yes, no
<1>5. CASE /\ o \in Subsystem(method, opened, yes)
           /\ Exists(path) /\ Kind(path) # "dir" /\ Free(Modem.fds) # {}
  <2>1. IsLine(o.link) /\ (~o.link.late => Served1(o, opened, yes))
    BY <1>2, <1>5, OnTimeEfs DEF Orderly
  <2>2. path \in DOMAIN Modem.tree
    BY <1>5 DEF Exists, Kind
  <2>3. ASSUME ~o.link.late
        PROVE  /\ o.link.modem \in {Modem, opened}
               /\ Opened(o.answer) => o.answer = yes /\ o.link.modem = opened
    BY <2>1, <2>3, NoAnswer DEF Served1
  <2>4. ~o.link.late /\ whole => SameTree(o.link.modem) /\ "fds" \in DOMAIN o.link.modem
    BY <1>3, <2>3 DEF SameTree
  <2> QED
    BY <1>2, <1>4, <1>5, <2>1, <2>2, <2>3, <2>4 DEF OrderlyAfter, Served1
<1>6. CASE o \in Subsystem(method, Modem, no)
  <2>1. IsLine(o.link) /\ (~o.link.late => Served1(o, Modem, no))
    BY <1>2, <1>6, OnTimeEfs DEF Orderly
  <2>2. ~o.link.late => ~Opened(o.answer) /\ o.link.modem = Modem
    BY <1>2, <2>1, NoAnswer DEF Served1
  <2> QED
    BY <2>1, <2>2 DEF OrderlyAfter, Served1, SameTree
<1> QED
  BY <1>1, <1>5, <1>6

\* A handle is closed.
LEMMA ClosesInTime ==
    ASSUME Orderly, NEW h, NEW o \in Close(h)
    PROVE  /\ OrderlyAfter(o.link)
           /\ ~o.link.late /\ "fds" \in DOMAIN Modem =>
                 SameTree(o.link.modem) /\ "fds" \in DOMAIN o.link.modem
<1> DEFINE closed == [Modem EXCEPT !.fds = Without(@, h)]
           ok == Reply("subsys", 8, Done)
<1>1. o \in Subsystem(method, closed, ok)
  BY DEF Close, Efs
<1>2. ok.class = "subsys" /\ SameTree(closed) /\ SameTree(Modem)
      /\ ("fds" \in DOMAIN Modem => "fds" \in DOMAIN closed)
  BY Replies DEF SameTree
<1> HIDE DEF closed, ok
<1>3. IsLine(o.link) /\ (~o.link.late => Served1(o, closed, ok))
  BY <1>1, <1>2, OnTimeEfs DEF Orderly
<1> QED
  BY <1>2, <1>3 DEF OrderlyAfter, Served1

\* What is read is the file of the handle, before its end.
LEMMA ReadsInTime ==
    ASSUME Orderly, NEW h, h \in DOMAIN Modem.fds, NEW offset, NEW o \in Read(h, offset)
    PROVE  ~o.link.late /\ BytesRead(o.answer) > 0 =>
              o.answer.src = Modem.fds[h] /\ ~(offset >= Modem.tree[Modem.fds[h]].size)
<1> DEFINE end == Reply("subsys", 20, Words(h, offset, 0, 0))
           unit == [Reply("subsys", 21, Words(h, offset, 1, 0)) EXCEPT !.src = Modem.fds[h]]
<1>1. \/ o \in Subsystem(method, Modem, end)
      \/ /\ o \in Subsystem(method, Modem, unit)
         /\ ~(offset >= Modem.tree[Modem.fds[h]].size)
  BY DEF Read, Efs
<1>2. /\ end.class = "subsys" /\ BytesRead(end) = 0
      /\ unit.class = "subsys" /\ unit.src = Modem.fds[h]
  BY DEF Reply, Nothing, Words, BytesRead
<1>3. ~(0 > 0)
  OBVIOUS
<1> HIDE DEF end, unit
<1>4. CASE o \in Subsystem(method, Modem, end)
  <2>1. ~o.link.late => Served1(o, Modem, end)
    BY <1>2, <1>4, OnTimeEfs DEF Orderly
  <2>2. ~o.link.late => BytesRead(o.answer) = 0
    BY <1>2, <2>1, NoAnswer DEF Served1
  <2> QED
    BY <1>3, <2>2
<1>5. CASE /\ o \in Subsystem(method, Modem, unit)
           /\ ~(offset >= Modem.tree[Modem.fds[h]].size)
  <2>1. ~o.link.late => Served1(o, Modem, unit)
    BY <1>2, <1>5, OnTimeEfs DEF Orderly
  <2>2. ~o.link.late /\ o.answer # unit => BytesRead(o.answer) = 0
    BY <2>1, NoAnswer DEF Served1
  <2> QED
    BY <1>2, <1>3, <1>5, <2>2
<1> QED
  BY <1>1, <1>4, <1>5

\* The requests for items leave the files alone.
LEMMA ItemsInTime ==
    ASSUME Orderly, NEW o,
           \/ \E id : o \in NvRead(id) \/ o \in NvReadSub(id)
           \/ \E id, value : o \in NvWrite(id, value)
    PROVE  OrderlyAfter(o.link) /\ (~o.link.late => SameTree(o.link.modem) /\ SameOpen(o.link.modem))
<1>1. PICK class, modem, reply :
         /\ o \in Send(class, modem, reply) /\ Accepts(class, reply)
         /\ SameTree(modem) /\ SameOpen(modem)
  <2>1. \A nv : SameTree([Modem EXCEPT !.nv = nv]) /\ SameOpen([Modem EXCEPT !.nv = nv])
    BY DEF SameTree, SameOpen
  <2>2. SameTree(Modem) /\ SameOpen(Modem)
    BY DEF SameTree, SameOpen
  <2>3. CASE \E id : o \in NvRead(id) \/ o \in NvReadSub(id)
    BY <2>2, <2>3, ItemAnswer DEF NvRead, NvReadSub
  <2>4. CASE \E id, value : o \in NvWrite(id, value)
    <3>1. PICK id, value : o \in NvWrite(id, value)
      BY <2>4
    <3>2. PICK modem : /\ o \in Send("nvwrite", modem, NvAnswer("nvwrite", 133, id, Status(id)))
                       /\ modem = Modem \/ \E nv : modem = [Modem EXCEPT !.nv = nv]
      BY <3>1 DEF NvWrite
    <3>3. SameTree(modem) /\ SameOpen(modem)
      BY <2>1, <2>2, <3>2
    <3> QED
      BY <3>2, <3>3, ItemAnswer
  <2> QED
    BY <2>3, <2>4
<1>2. SameTree(Modem) /\ SameOpen(Modem)
  BY DEF SameTree, SameOpen
<1> QED
  BY <1>1, <1>2, OnTime DEF Orderly, OrderlyAfter
-----------------------------------------------------------------------------
(* Each step keeps to the file's own path.                                 *)

InBackup == InXqcn /\ OInv

\* A body that is part of one.
LEMMA Parts ==
    ASSUME setup \in Setups, NEW p, NEW b, Whole(p, b), b # << >>
    PROVE  Whole(p, Front(b))
<1>1. b \in Seq({p}) /\ Len(b) <= setup.modem.tree[p].size /\ setup.modem.tree[p].size \in Nat
  BY SessionSetups DEF Whole, IsTree
<1>2. Front(b) \in Seq({p}) /\ Len(b) \in Nat /\ Len(Front(b)) = Len(b) - 1
  <2>1. Len(b) \in Nat \ {0}
    BY <1>1, EmptySeq
  <2>2. Front(b) = SubSeq(b, 1, Len(b) - 1)
    BY DEF Front
  <2>3. /\ Len(SubSeq(b, 1, Len(b) - 1)) = Len(b) - 1
        /\ SubSeq(b, 1, Len(b) - 1) \in Seq({p})
    <3>1. 1 \in 1..(Len(b) + 1) /\ Len(b) - 1 \in (1 - 1)..Len(b)
      BY <2>1
    <3>2. PICK m : m = Len(b) - 1
      OBVIOUS
    <3> QED
      BY <1>1, <2>1, <3>1, <3>2, SubSeqProperties
  <2> QED
    BY <2>1, <2>2, <2>3
<1> QED
  BY <1>1, <1>2 DEF Whole

\* A list of files with one more.
LEMMA AddsOwned ==
    ASSUME NEW s, AllOwned(s), NEW f, Owned(f.path, f.body)
    PROVE  AllOwned(Append(s, f))
  BY Appended DEF AllOwned

\* What every step has to leave.
LEMMA OwnGoes ==
    ASSUME InBackup, OrderlyAfter(link'),
           ~link'.late => OwnHeld' /\ (job' = "xqcn" => Reads')
    PROVE  OInv'
  BY DEF InBackup, InXqcn, OInv, OrderlyAfter, Orderly

\* A file of which nothing was read yet, or as much as before.
Begun(f) ==
    /\ {"path", "size", "fd", "body"} \subseteq DOMAIN f
    /\ f.body = << >> \/ (f.body = file.body /\ f.path = file.path)

\* The steps before the first read leave the file so.
LEMMA Begins ==
    /\ Begun(NoFile) /\ \A p : Begun([NoFile EXCEPT !.path = p])
    /\ OwnHeld => Begun(file) /\ \A n : Begun([file EXCEPT !.size = n])
  BY DEF Begun, NoFile, OwnHeld

\* A step that puts nothing into a body.
LEMMA NothingRead ==
    ASSUME InBackup, OrderlyAfter(link'),
           ~link'.late /\ job = "xqcn" => SameTree(link'.modem) /\ "fds" \in DOMAIN link'.modem,
           job' = job, files' = files, doc' = doc, restored' = restored,
           OwnHeld => Begun(file'), job' = "xqcn" => pc' # "add_read"
    PROVE  OInv'
<1> SUFFICES ASSUME ~link'.late PROVE OwnHeld' /\ (job' = "xqcn" => Reads')
  BY OwnGoes
<1>1. ~link.late /\ setup' = setup /\ OwnHeld /\ (job = "xqcn" => Reads)
  BY DEF OrderlyAfter, InBackup, InXqcn, OInv
<1>2. OwnHeld'
  BY <1>1 DEF OwnHeld, Begun, Owned, AllOwned, Whole
<1>3. job' = "xqcn" => Reads'
  BY <1>1 DEF Reads, SameTree, Modem
<1> QED
  BY <1>2, <1>3

\* The requests that open a session, and the scans.
LEMMA ConnectsOwn ==
    ASSUME InBackup, Backup \/ Restore,
           \/ /\ SendSpc \/ SendPassword \/ DetectAlt \/ DetectStd \/ EfsQuery
              /\ UNCHANGED xqcnVars
           \/ Scan \/ ScanSim \/ FeatureQuery \/ BuildId \/ Offline \/ SyncAfterNv \/ Reset
    PROVE  OInv'
<1> USE DEF Take
<1>1. Orderly /\ (~link.late => OwnHeld /\ (job = "xqcn" => Reads))
  BY DEF InBackup, InXqcn, OInv
<1>2. PICK o : /\ link' = o.link
               /\ OrderlyAfter(o.link)
               /\ ~o.link.late => SameTree(o.link.modem) /\ SameOpen(o.link.modem)
  <2>1. CASE SendSpc \/ SendPassword \/ FeatureQuery \/ BuildId \/ Offline \/ Reset
    <3>1. PICK o : link' = o.link /\ \E class, size : o \in Send(class, Modem, Reply(class, size, Done))
      BY <2>1 DEF SendSpc, SendPassword, FeatureQuery, BuildId, Metadata, Offline, Reset
    <3> QED
      BY <1>1, <3>1, AsksInTime
  <2>2. CASE DetectAlt \/ DetectStd \/ EfsQuery \/ SyncAfterNv
    <3>1. PICK o : link' = o.link /\ ((\E m : o \in Hello(m)) \/ o \in Query \/ o \in Sync)
      BY <2>2 DEF DetectAlt, DetectStd, EfsDetect, EfsQuery, SyncAfterNv
    <3> QED
      BY <1>1, <3>1, AsksInTime
  <2>3. CASE Scan \/ ScanSim
    <3>1. PICK o : link' = o.link /\ \E id : o \in NvRead(id) \/ o \in NvReadSub(id)
      BY <2>3 DEF Scan, ScanSim
    <3> QED
      BY <1>1, <3>1, ItemsInTime
  <2> QED
    BY <2>1, <2>2, <2>3
<1>3. /\ job' = job /\ files' = files /\ doc' = doc /\ restored' = restored /\ file' = file
      /\ pc' # "add_read"
  <2>1. job \in {"xqcn", "xqcn_restore"}
    BY DEF Backup, Restore
  <2>2. CASE /\ SendSpc \/ SendPassword \/ DetectAlt \/ DetectStd \/ EfsQuery
             /\ UNCHANGED xqcnVars
    BY <2>1, <2>2 DEF SendSpc, SendPassword, DetectAlt, DetectStd, EfsDetect, EfsQuery, Go, End,
                      FirstRequest, commandVars, xqcnVars
  <2>3. CASE Scan \/ ScanSim \/ FeatureQuery \/ BuildId \/ Offline \/ SyncAfterNv \/ Reset
    BY <2>3 DEF Scan, ScanSim, ScanNext, FeatureQuery, BuildId, Metadata, Offline, SyncAfterNv, Reset,
                Go, End, sessionVars, xqcnVars, restoreVars
  <2> QED
    BY <2>2, <2>3
<1>4. ASSUME ~link'.late, job' = "xqcn" PROVE SameTree(link'.modem) /\ "fds" \in DOMAIN link'.modem
  BY <1>1, <1>2, <1>3, <1>4 DEF OrderlyAfter, Reads, SameOpen
<1> QED
  BY <1>1, <1>2, <1>3, <1>4, Begins, NothingRead
\* The tree walk, and the file that is asked for.
LEMMA WalksOwn ==
    ASSUME InBackup, Backup,
           WalkOpendir \/ WalkReaddir \/ WalkStat \/ WalkClosedir \/ WalkEntry \/ Probe \/ AddStat
    PROVE  OInv'
<1> USE DEF Take
<1>1. Orderly /\ (~link.late => OwnHeld /\ Reads) /\ job = "xqcn"
  BY DEF InBackup, InXqcn, OInv, Backup
<1>2. \/ link' = link
      \/ \E o : /\ link' = o.link
                /\ OrderlyAfter(o.link)
                /\ ~o.link.late => SameTree(o.link.modem) /\ SameOpen(o.link.modem)
  <2>1. CASE WalkEntry \/ Probe
    BY <2>1 DEF WalkEntry, Probe
  <2>2. CASE WalkOpendir \/ WalkReaddir \/ WalkStat \/ WalkClosedir \/ AddStat
    <3>1. \/ link' = link
          \/ \E o : /\ link' = o.link
                    /\ \/ \E path : o \in Opendir(path)
                       \/ \E h, seqno : o \in Readdir(h, seqno)
                       \/ \E path : o \in Stat(path)
                       \/ \E h : o \in Closedir(h)
      BY <2>2 DEF WalkOpendir, WalkReaddir, WalkStat, WalkClosedir, AddStat
    <3> QED
      BY <1>1, <3>1, AsksInTime
  <2> QED
    BY <2>1, <2>2
<1>3. OrderlyAfter(link')
  BY <1>1, <1>2 DEF Orderly, OrderlyAfter
<1>4. ASSUME ~link'.late PROVE SameTree(link'.modem) /\ "fds" \in DOMAIN link'.modem
  <2>1. ~link.late /\ Reads
    BY <1>1, <1>3, <1>4 DEF OrderlyAfter
  <2> QED
    BY <1>2, <1>4, <2>1 DEF Reads, SameTree, SameOpen, Modem
<1>5. /\ job' = job /\ files' = files /\ doc' = doc /\ restored' = restored
      /\ pc' # "add_read"
  <2>1. CASE WalkOpendir \/ WalkReaddir \/ WalkStat \/ WalkClosedir \/ WalkEntry
    BY <2>1 DEF WalkOpendir, WalkReaddir, WalkStat, WalkClosedir, WalkEntry, Go, WalkVars,
                sessionVars, restoreVars
  <2>2. CASE Probe \/ AddStat
    BY <2>2 DEF Probe, AddStat, AddReturns, Go, AddVars, sessionVars, restoreVars
  <2> QED
    BY <2>1, <2>2
<1>6. \/ file' = file \/ file' = NoFile
      \/ \E p : file' = [NoFile EXCEPT !.path = p]
      \/ \E n : file' = [file EXCEPT !.size = n]
  <2>1. CASE WalkOpendir \/ WalkReaddir \/ WalkStat \/ WalkClosedir \/ WalkEntry
    BY <2>1 DEF WalkOpendir, WalkReaddir, WalkStat, WalkClosedir, WalkEntry, WalkVars
  <2>2. CASE Probe \/ AddStat
    BY <2>2 DEF Probe, AddStat, AddReturns
  <2> QED
    BY <2>1, <2>2
<1>7. OwnHeld => Begun(file')
  BY <1>6, Begins
<1> QED
  BY <1>3, <1>4, <1>5, <1>7, NothingRead

\* The file is opened, read unit by unit, and closed.
LEMMA AddsOwn ==
    ASSUME InBackup, Backup, AddOpen \/ AddRead \/ AddClose
    PROVE  OInv'
<1> USE DEF Take
<1>1. Orderly /\ (~link.late => OwnHeld /\ Reads) /\ job = "xqcn" /\ setup' = setup
      /\ setup \in Setups
  BY DEF InBackup, InXqcn, OInv, Backup
<1>2. UNCHANGED << job, doc, restored >>
  BY DEF AddOpen, AddRead, AddClose, AddVars, sessionVars, restoreVars
<1>3. CASE AddOpen
  <2>1. PICK o \in Open(file.path) :
           /\ link' = o.link
           /\ IF Opened(o.answer) THEN file' = [file EXCEPT !.fd = o.answer.w4] /\ Go("add_read")
              ELSE AddReturns
    BY <1>3 DEF AddOpen
  <2>2. files' = files
    BY <1>3 DEF AddOpen
  <2>3. /\ OrderlyAfter(o.link)
        /\ ~o.link.late /\ {"tree", "fds"} \subseteq DOMAIN Modem =>
              /\ SameTree(o.link.modem) /\ "fds" \in DOMAIN o.link.modem
              /\ Opened(o.answer) =>
                   /\ file.path \in DOMAIN Modem.tree
                   /\ o.answer.w4 \in DOMAIN o.link.modem.fds
                   /\ o.link.modem.fds[o.answer.w4] = file.path
    BY <1>1, <2>1, OpensInTime
  <2>4. OrderlyAfter(link')
    BY <2>1, <2>3
  <2>5. SUFFICES ASSUME ~link'.late PROVE OwnHeld' /\ Reads'
    BY <2>4, OwnGoes
  <2>6. ~link.late /\ OwnHeld /\ Reads
    BY <1>1, <2>4, <2>5 DEF OrderlyAfter
  <2>7. {"tree", "fds"} \subseteq DOMAIN Modem' /\ Modem'.tree = setup'.modem.tree
    BY <1>1, <2>1, <2>3, <2>5, <2>6 DEF Reads, SameTree, Modem
  <2>8. CASE Opened(o.answer)
    <3>1. /\ file' = [file EXCEPT !.fd = o.answer.w4]
          /\ DOMAIN file' = DOMAIN file /\ file'.fd = o.answer.w4
          /\ file'.path = file.path /\ file'.body = file.body
      BY <2>1, <2>6, <2>8 DEF OwnHeld
    <3>2. OwnHeld'
      BY <1>1, <1>2, <2>2, <2>6, <3>1 DEF OwnHeld, Owned, AllOwned, Whole
    <3>3. Reads'
      BY <1>1, <2>1, <2>3, <2>5, <2>6, <2>7, <2>8, <3>1 DEF Reads, Modem
    <3> QED
      BY <3>2, <3>3
  <2>9. CASE ~Opened(o.answer)
    <3>1. file' = NoFile /\ pc' # "add_read"
      BY <2>1, <2>9 DEF AddReturns, Go
    <3>2. OwnHeld'
      BY <1>1, <1>2, <2>2, <2>6, <3>1 DEF OwnHeld, Owned, AllOwned, Whole, NoFile
    <3> QED
      BY <2>7, <3>1, <3>2 DEF Reads
  <2> QED
    BY <2>8, <2>9
<1>4. CASE AddRead
  <2>1. files' = files /\ pc = "add_read"
    BY <1>4 DEF AddRead
  <2>2. CASE Len(file.body) >= file.size
    <3>1. UNCHANGED << link, file >> /\ pc' # "add_read"
      BY <1>4, <2>2 DEF AddRead, Go
    <3>2. OrderlyAfter(link')
      BY <1>1, <3>1 DEF Orderly, OrderlyAfter
    <3>3. ~link'.late => SameTree(link'.modem) /\ "fds" \in DOMAIN link'.modem
      BY <1>1, <3>1 DEF Reads, SameTree, Modem
    <3> QED
      BY <1>2, <2>1, <3>1, <3>2, <3>3, Begins, NothingRead
  <2>3. CASE ~(Len(file.body) >= file.size)
    <3>1. PICK o \in Read(file.fd, Len(file.body)) :
             /\ link' = o.link
             /\ IF BytesRead(o.answer) > 0
                THEN file' = [file EXCEPT !.body = Append(@, o.answer.src)] /\ UNCHANGED pc
                ELSE Go("add_close") /\ UNCHANGED file
      BY <1>4, <2>3 DEF AddRead
    <3>2. /\ OrderlyAfter(o.link)
          /\ ~o.link.late => SameTree(o.link.modem) /\ SameOpen(o.link.modem)
      BY <1>1, <3>1, AsksInTime
    <3>3. SUFFICES ASSUME ~link'.late PROVE OwnHeld' /\ Reads'
      BY <3>1, <3>2, OwnGoes
    <3>4. ~link.late /\ OwnHeld /\ Reads
      BY <1>1, <3>1, <3>2, <3>3 DEF OrderlyAfter
    <3>5. /\ {"tree", "fds"} \subseteq DOMAIN Modem' /\ Modem'.tree = setup'.modem.tree
          /\ Modem'.fds = Modem.fds
      BY <1>1, <3>1, <3>2, <3>3, <3>4 DEF Reads, SameTree, SameOpen, Modem
    <3>6. CASE BytesRead(o.answer) > 0
      <4>1. /\ o.answer.src = file.path
            /\ ~(Len(file.body) >= setup.modem.tree[file.path].size)
        BY <2>1, <3>1, <3>3, <3>4, <3>6, <1>1, ReadsInTime DEF Reads
      <4>2. /\ DOMAIN file' = DOMAIN file /\ file'.body = Append(file.body, file.path)
            /\ file'.path = file.path /\ file'.fd = file.fd /\ pc' = pc
        BY <3>1, <3>4, <3>6, <4>1 DEF OwnHeld
      <4>3. Whole(file.path, Append(file.body, file.path))
        <5>1. file.path \in DOMAIN setup.modem.tree /\ setup.modem.tree[file.path].size \in Nat
          BY <1>1, <2>1, <3>4, SessionSetups DEF Reads, IsTree
        <5>2. file.body \in Seq({file.path}) /\ Len(file.body) \in Nat
          <6>1. CASE file.body = << >>
            BY <6>1
          <6>2. CASE Whole(file.path, file.body)
            BY <6>2 DEF Whole
          <6> QED
            BY <3>4, <6>1, <6>2 DEF OwnHeld, Owned
        <5>3. /\ Append(file.body, file.path) \in Seq({file.path})
              /\ Len(Append(file.body, file.path)) = Len(file.body) + 1
          BY <5>2
        <5> QED
          BY <4>1, <5>1, <5>2, <5>3 DEF Whole
      <4>4. OwnHeld'
        BY <1>1, <1>2, <2>1, <3>4, <4>2, <4>3 DEF OwnHeld, Owned, AllOwned, Whole
      <4>5. Reads'
        BY <1>1, <2>1, <3>4, <3>5, <4>2 DEF Reads
      <4> QED
        BY <4>4, <4>5
    <3>7. CASE ~(BytesRead(o.answer) > 0)
      <4>1. file' = file /\ pc' # "add_read"
        BY <3>1, <3>7 DEF Go
      <4>2. OwnHeld'
        BY <1>1, <1>2, <2>1, <3>4, <4>1 DEF OwnHeld, Owned, AllOwned, Whole
      <4> QED
        BY <3>5, <4>1, <4>2 DEF Reads
    <3> QED
      BY <3>6, <3>7
  <2> QED
    BY <2>2, <2>3
<1>5. CASE AddClose
  <2>1. PICK o \in Close(file.fd) : link' = o.link
    BY <1>5 DEF AddClose
  <2>2. /\ files' = Append(files, [path |-> file.path, body |-> file.body])
        /\ file' = NoFile /\ pc' # "add_read"
    BY <1>5 DEF AddClose, AddReturns, Go
  <2>3. /\ OrderlyAfter(o.link)
        /\ ~o.link.late /\ "fds" \in DOMAIN Modem =>
              SameTree(o.link.modem) /\ "fds" \in DOMAIN o.link.modem
    BY <1>1, <2>1, ClosesInTime
  <2>4. SUFFICES ASSUME ~link'.late PROVE OwnHeld' /\ Reads'
    BY <2>1, <2>3, OwnGoes
  <2>5. ~link.late /\ OwnHeld /\ Reads
    BY <1>1, <2>1, <2>3, <2>4 DEF OrderlyAfter
  <2>6. {"tree", "fds"} \subseteq DOMAIN Modem' /\ Modem'.tree = setup'.modem.tree
    BY <1>1, <2>1, <2>3, <2>4, <2>5 DEF Reads, SameTree, Modem
  <2>7. AllOwned(files')
    BY <2>2, <2>5, AddsOwned DEF OwnHeld
  <2>8. OwnHeld'
    BY <1>1, <1>2, <2>2, <2>5, <2>7 DEF OwnHeld, Owned, AllOwned, Whole, NoFile
  <2> QED
    BY <2>2, <2>6, <2>8 DEF Reads
<1> QED
  BY <1>3, <1>4, <1>5
\* The document has files that were added, and no others.
LEMMA DocumentOwn ==
    ASSUME InBackup, Backup, WriteDocument
    PROVE  OInv'
<1>1. Orderly /\ (~link.late => OwnHeld /\ Reads) /\ job = "xqcn" /\ setup' = setup
  BY DEF InBackup, InXqcn, OInv, Backup
<1>2. UNCHANGED << file, files, restored >>
  BY DEF WriteDocument
<1>3. CASE setup.canCreate
  <2>1. /\ link' = [link EXCEPT !.modem = setup.target, !.pending = << >>]
        /\ job' = "xqcn_restore"
        /\ \A s \in EfsSections : \E K : doc'[s] = Chosen(files, K)
    <3>1. /\ link' = [link EXCEPT !.modem = setup.target, !.pending = << >>]
          /\ job' = "xqcn_restore"
          /\ doc' = [def |-> def, sim1 |-> sim1,
                     Prov |-> InSections({"Prov"}),
                     Backup |-> InSections({"Backup", "NvItems"}),
                     NvItems |-> InSections({"NvItems"})]
      BY <1>3 DEF WriteDocument
    <3>2. \A S : \E K : InSections(S) = Chosen(files, K)
      BY DEF InSections
    <3> QED
      BY <3>1, <3>2 DEF EfsSections
  <2>2. OrderlyAfter(link')
    BY <1>1, <2>1, EmptySeq DEF Orderly, OrderlyAfter, IsLine, IsLink, Range
  <2>3. SUFFICES ASSUME ~link'.late PROVE OwnHeld'
    BY <2>1, <2>2, OwnGoes
  <2>4. OwnHeld
    BY <1>1, <2>2, <2>3 DEF OrderlyAfter
  <2>5. ASSUME NEW K PROVE AllOwned(Chosen(files, K))
    <3>1. files \in Seq(Range(files))
      BY <2>4 DEF OwnHeld, AllOwned
    <3>2. PICK c : c = Chosen(files, K)
      OBVIOUS
    <3>3. c \in Seq(Range(files))
      BY <3>1, <3>2, ChosenFrom
    <3>4. c \in Seq(Range(c)) /\ DOMAIN c = 1..Len(c)
      BY <3>3, OverRange
    <3>5. Range(c) \subseteq Range(files)
      <4>1. \A i \in 1..Len(c) : c[i] \in Range(files)
        BY <3>3
      <4> QED
        BY <3>4, <4>1 DEF Range
    <3> QED
      BY <2>4, <3>2, <3>4, <3>5 DEF OwnHeld, AllOwned
  <2>6. \A s \in EfsSections : AllOwned(doc'[s])
    BY <2>1, <2>5
  <2> QED
    BY <1>1, <1>2, <2>4, <2>6 DEF OwnHeld, Owned, AllOwned, Whole
<1>4. CASE ~setup.canCreate
  <2>1. UNCHANGED << link, job, doc >> /\ pc' # "add_read"
    BY <1>4 DEF WriteDocument, End
  <2>2. OrderlyAfter(link')
    BY <1>1, <2>1 DEF Orderly, OrderlyAfter
  <2>3. ~link'.late => SameTree(link'.modem) /\ "fds" \in DOMAIN link'.modem
    BY <1>1, <2>1 DEF Reads, SameTree, Modem
  <2> QED
    BY <1>2, <2>1, <2>2, <2>3, Begins, NothingRead
<1> QED
  BY <1>3, <1>4

\* The restore of the items.
LEMMA RestoresNvOwn ==
    ASSUME InBackup, Restore, RestoreNv
    PROVE  OInv'
<1>1. Orderly /\ job = "xqcn_restore"
  BY DEF InBackup, InXqcn, OInv, Restore
<1>2. UNCHANGED << job, file, files, doc, restored >>
  BY DEF RestoreNv, sessionVars
<1>3. \/ link' = link
      \/ \E o : link' = o.link /\ \E id, value : o \in NvWrite(id, value)
  BY DEF RestoreNv, Take
<1>4. OrderlyAfter(link')
  BY <1>1, <1>3, ItemsInTime DEF Orderly, OrderlyAfter
<1> QED
  BY <1>1, <1>2, <1>4, Begins, NothingRead

\* The restore of the files: each gets its own, or a part of it.
LEMMA RestoresFilesOwn ==
    ASSUME InBackup, Restore, NEW s \in EfsSections, RestoreFile(s)
    PROVE  OInv'
<1>1. Orderly /\ (~link.late => OwnHeld) /\ job = "xqcn_restore" /\ setup' = setup
      /\ setup \in Setups
  BY DEF InBackup, InXqcn, OInv, Restore
<1>2. UNCHANGED << job, file, files, doc >>
  BY DEF RestoreFile, sessionVars
<1>3. CASE cursor = Len(doc[s])
  <2>1. (link' = link \/ \E o : link' = o.link /\ o \in Sync) /\ restored' = restored
    BY <1>3 DEF RestoreFile, Take
  <2>2. OrderlyAfter(link')
    BY <1>1, <2>1, AsksInTime DEF Orderly, OrderlyAfter
  <2> QED
    BY <1>1, <1>2, <2>1, <2>2, Begins, NothingRead
<1>4. CASE cursor # Len(doc[s])
  <2> DEFINE i == cursor + 1
             p == doc[s][i].path
             b == IF i \in DOMAIN doc[s] THEN doc[s][i].body ELSE << >>
  <2>1. /\ link' = link \/ link' = [link EXCEPT !.faults = @ + 1]
        /\ \/ restored' = restored
           \/ b # << >> /\ restored' = With(restored, p, b)
           \/ b # << >> /\ restored' = With(restored, p, Front(b))
    BY <1>4 DEF RestoreFile, Datas
  <2>2. OrderlyAfter(link')
    BY <1>1, <2>1 DEF Orderly, OrderlyAfter, IsLine, IsLink
  <2>3. CASE restored' = restored
    BY <1>1, <1>2, <2>2, <2>3, Begins, NothingRead
  <2>4. CASE b # << >> /\ \E w \in {b, Front(b)} : restored' = With(restored, p, w)
    <3>1. SUFFICES ASSUME ~link'.late PROVE OwnHeld'
      BY <1>1, <1>2, <2>2, OwnGoes
    <3>2. OwnHeld
      BY <1>1, <2>2, <3>1 DEF OrderlyAfter
    <3>3. Whole(p, b)
      <4>1. i \in DOMAIN doc[s] /\ b = doc[s][i].body
        BY <2>4
      <4>2. doc[s][i] \in Range(doc[s])
        BY <4>1 DEF Range
      <4> QED
        BY <2>4, <3>2, <4>1, <4>2 DEF OwnHeld, AllOwned, Owned
    <3>4. PICK w : restored' = With(restored, p, w) /\ Whole(p, w)
      <4>1. Whole(p, Front(b))
        BY <1>1, <2>4, <3>3, Parts
      <4> QED
        BY <2>4, <3>3, <4>1
    <3> HIDE DEF p, b
    <3>5. \A x \in DOMAIN restored' : Whole(x, restored'[x])
      BY <3>2, <3>4 DEF With, OwnHeld
    <3> QED
      BY <1>1, <1>2, <3>2, <3>5 DEF OwnHeld, Owned, AllOwned, Whole
  <2> QED
    BY <2>1, <2>3, <2>4
<1> QED
  BY <1>3, <1>4

-----------------------------------------------------------------------------
\* A session starts with nothing read.
LEMMA OwnStarts == Init => OInv
<1> SUFFICES ASSUME Init PROVE OInv
  OBVIOUS
<1>1. /\ link = Connected(setup.modem) /\ setup \in Setups /\ pc = "spc" /\ restored = << >>
      /\ file = NoFile /\ files = << >> /\ doc = NoDoc
  BY DEF Init, CommandInit, XqcnInit
<1>2. Modem = setup.modem /\ Orderly
  <2>1. /\ link.modem = setup.modem /\ link.pending = << >>
        /\ {"modem", "pending", "late"} \subseteq DOMAIN link
    BY <1>1 DEF Connected
  <2>2. << >> \in Seq(Range(<< >>))
    OBVIOUS
  <2> QED
    BY <2>1, <2>2 DEF Modem, Orderly, IsLine, IsLink
<1>3. Reads
  BY <1>1, <1>2, SessionSetups DEF Reads
<1>4. AllOwned(<< >>)
  BY EmptySeq DEF AllOwned, Range
<1>5. OwnHeld
  <2>1. \A s \in EfsSections : doc[s] = << >>
    BY <1>1 DEF NoDoc, EfsSections
  <2>2. DOMAIN restored = {}
    BY <1>1
  <2>3. {"path", "size", "fd", "body"} \subseteq DOMAIN file /\ file.body = << >>
    BY <1>1 DEF NoFile
  <2> QED
    BY <1>1, <1>4, <2>1, <2>2, <2>3 DEF OwnHeld, Owned
<1> QED
  BY <1>1, <1>2, <1>3, <1>5 DEF OInv

\* Every step keeps the invariant.
LEMMA OwnGoesOn == RInv /\ OInv /\ [Next]_vars => OInv'
<1> SUFFICES ASSUME RInv, OInv, [Next]_vars PROVE OInv'
  OBVIOUS
<1>1. setup' = setup /\ setup \in Setups
  BY DEF Next, vars, Ended, RInv
<1>2. CASE UNCHANGED vars
  <2>1. UNCHANGED << setup, link, job, pc, file, files, doc, restored >>
    BY <1>2 DEF vars, xqcnVars
  <2>2. Orderly' <=> Orderly
    BY <2>1 DEF Orderly
  <2>3. OwnHeld' <=> OwnHeld
    BY <2>1 DEF OwnHeld, Owned, AllOwned, Whole
  <2>4. Reads' <=> Reads
    BY <2>1 DEF Reads, Modem
  <2> QED
    BY <2>1, <2>2, <2>3, <2>4 DEF OInv
<1>3. CASE Next /\ ~Ended /\ setup.cmd # "xqcn"
  <2>1. ~XqcnNext
    BY <1>3, NoXqcn DEF RInv
  <2>2. restored' = restored
    BY <1>3, <2>1 DEF Next, xqcnVars
  <2> QED
    BY <1>1, <1>3, <2>2 DEF OInv
<1>4. CASE Next /\ ~Ended /\ setup.cmd = "xqcn"
  <2>1. InBackup /\ (Backup \/ Restore)
    BY <1>1, <1>4 DEF InBackup, InXqcn, RInv
  <2>2. CASE CommandNext /\ UNCHANGED xqcnVars
    BY <2>1, <2>2, StepsOfParts, ConnectsOwn
  <2>3. CASE XqcnNext
    <3>1. CASE /\ Backup
               /\ \/ Scan \/ ScanSim
                  \/ WalkOpendir \/ WalkReaddir \/ WalkStat \/ WalkClosedir \/ WalkEntry \/ Probe
                  \/ AddStat \/ AddOpen \/ AddRead \/ AddClose \/ FeatureQuery \/ BuildId
                  \/ WriteDocument
      BY <2>1, <3>1, ConnectsOwn, WalksOwn, AddsOwn, DocumentOwn
    <3>2. CASE /\ Restore
               /\ \/ Offline \/ RestoreNv \/ SyncAfterNv \/ Reset
                  \/ \E s \in {"Prov", "Backup", "NvItems"} : RestoreFile(s)
      BY <2>1, <3>2, ConnectsOwn, RestoresNvOwn, RestoresFilesOwn DEF EfsSections
    <3> QED
      BY <2>1, <2>3, <3>1, <3>2, StepsOfParts
  <2> QED
    BY <1>4, <2>2, <2>3 DEF Next
<1> QED
  BY <1>2, <1>3, <1>4 DEF Ended

\* A file that is restored holds what was read from the file of its path, as
\* far as it was read, unless an answer came after its timeout: for every file
\* system, every choice of sections and probes, and whichever requests fail.
THEOREM OwnContentsHolds == Spec => []OwnContents
<1>1. ASSUME RInv, OInv PROVE OwnContents
  <2> SUFFICES ASSUME ~link.late, NEW p \in DOMAIN restored
               PROVE  /\ Range(restored[p]) \subseteq {p}
                      /\ Len(restored[p]) <= setup.modem.tree[p].size
    BY DEF OwnContents
  <2>1. CASE setup.cmd = "xqcn"
    <3>1. Whole(p, restored[p])
      BY <1>1, <2>1 DEF OInv, OwnHeld
    <3>2. Range(restored[p]) \subseteq {p}
      <4>1. PICK b : b = restored[p]
        OBVIOUS
      <4>2. DOMAIN b = 1..Len(b) /\ \A i \in 1..Len(b) : b[i] \in {p}
        BY <3>1, <4>1, OverRange DEF Whole
      <4> QED
        BY <4>1, <4>2 DEF Range
    <3> QED
      BY <3>1, <3>2 DEF Whole
  <2>2. CASE setup.cmd # "xqcn"
    BY <1>1, <2>2 DEF OInv
  <2> QED
    BY <2>1, <2>2
<1> QED
  BY <1>1, OwnStarts, OwnGoesOn, RecordsInvariant, PTL DEF Spec

=============================================================================
