-------------------------- MODULE EfsArchiveProofs --------------------------
(***************************************************************************)
(* The archive that a backup reports as complete is sound, what a restore  *)
(* counts is on the modem, it loses nothing without a cause, and a restore *)
(* that succeeds gives the file system back: for every tree, every list of *)
(* probes, every capacity of the path_set and whatever fails.              *)
(***************************************************************************)
EXTENDS EfsArchive, SequenceTheorems, FiniteSetTheorems, WellFoundedInduction, TLAPS

-----------------------------------------------------------------------------
(* The inductive invariant.                                                *)

\* The first units of the headers of an archive; no two are the same.
IsHead(unit) == unit.type = "header" /\ unit.at = 1
Heads(s) == {s[i] : i \in {j \in 1..Len(s) : IsHead(s[j])}}
Distinct(s) == \A i, j \in 1..Len(s) : i # j /\ IsHead(s[i]) => s[i] # s[j]

\* The tree, and its paths.
IsTree(t) ==
    /\ IsFiniteSet(DOMAIN t)
    /\ \A p \in DOMAIN t : p \in Seq(Range(p)) /\ p # Root /\ t[p].size \in Nat

\* A directory of the stack: what is left of it are entries of its own, each
\* once.
Child(t, p, d) == p \in DOMAIN t /\ Len(p) = Len(d) + 1 /\ Front(p) = d
IsList(s) == s \in Seq(Range(s)) /\ IsInjective(s)
Todo(f) == Range(f.listing) \cup Range(f.entries)
IsFrame(t, f) ==
    /\ f = [path |-> f.path, listing |-> f.listing, entries |-> f.entries]
    /\ f.path # Root => f.path \in DOMAIN t /\ t[f.path].kind = "dir"
    /\ IsList(f.listing) /\ IsList(f.entries)
    /\ Range(f.listing) \cap Range(f.entries) = {}
    /\ \A p \in Todo(f) : Child(t, p, f.path)

\* The directories of the stack lie one in the other, and the one that was
\* entered is not left in the one above.
IsStack(t, st) ==
    /\ st \in Seq(Range(st))
    /\ \A k \in 1..Len(st) :
          /\ IsFrame(t, st[k]) /\ Len(st[k].path) = k - 1
          /\ \A j \in 1..k : st[j].path = SubSeq(st[k].path, 1, j - 1)
          /\ k < Len(st) => st[k + 1].path \notin Todo(st[k])

\* Neither the path nor a directory above it is left in the stack.
Passed(q, st) ==
    \A k \in 1..Len(st) : \A n \in 0..Len(q) : SubSeq(q, 1, n) \notin Todo(st[k])

Reading == bpc \in {"readdir", "closedir"}
Walking == bpc \in {"opendir", "entry"} \/ Reading
Remembers == Cardinality(written) < setup.capacity

WalkInv ==
    /\ bpc \in {"opendir", "readdir", "closedir", "entry", "body", "probe", "done", "failed"}
    /\ bpc \notin {"done", "failed"} => IsStack(Tree, stack)
    /\ Walking => stack # << >>
    /\ bpc = "opendir" => Todo(Top) = {}
    /\ bpc = "probe" => stack = << >>
    /\ handles \subseteq IF Reading THEN {Top.path} ELSE {}
    /\ written \subseteq DOMAIN Tree /\ Cardinality(written) <= setup.capacity
    /\ bpc = "body" =>
          /\ body = [path |-> body.path, size |-> body.size, got |-> body.got,
                     ended |-> body.ended]
          /\ body.path \in DOMAIN Tree /\ Tree[body.path].kind # "dir"
          /\ body.size \in Nat /\ body.got \in 0..body.size
          /\ ~body.ended => body.got < body.size

\* What was archived, and what will be archived no more.
Archived(h) ==
    /\ h.path \in DOMAIN Tree
    /\ (h.kind = "dir") <=> (Tree[h.path].kind = "dir")
    /\ h.kind # "dir" => h.path \in written \/ (bpc = "body" /\ h.path = body.path)
    /\ Passed(h.path, stack)
    /\ bpc = "opendir" => \A n \in 0..Len(h.path) : SubSeq(h.path, 1, n) # Top.path
    /\ Reading => h.path # Top.path

OnceInv ==
    Remembers =>
        /\ Distinct(archive)
        /\ bpc \notin {"done", "failed"} => \A h \in Heads(archive) : Archived(h)

CauseInv ==
    /\ bpc = "done" => ~full
    /\ ~Fault("errno") => skipped = {}

IInv ==
    /\ setup \in Setups /\ archive \in Seq(Range(archive))
    /\ WalkInv /\ OnceInv /\ CauseInv

-----------------------------------------------------------------------------
(* Sequences.                                                              *)

\* A sequence is one over its elements.
LEMMA OverRange ==
    ASSUME NEW S, NEW s \in Seq(S)
    PROVE  s \in Seq(Range(s)) /\ DOMAIN s = 1..Len(s) /\ Len(s) \in Nat /\ Range(s) \subseteq S
<1>1. Len(s) \in Nat /\ DOMAIN s = 1..Len(s) /\ s \in [1..Len(s) -> S]
  BY LenProperties
<1>2. s \in [1..Len(s) -> Range(s)]
  BY <1>1 DEF Range
<1>3. Range(s) \subseteq S
  BY <1>1 DEF Range
<1> QED
  BY <1>1, <1>2, <1>3, SeqDef

\* Two sequences, one after the other.
LEMMA Joined ==
    ASSUME NEW s, NEW t, s \in Seq(Range(s)), t \in Seq(Range(t))
    PROVE  /\ s \o t \in Seq(Range(s \o t))
           /\ Len(s) \in Nat /\ Len(t) \in Nat /\ Len(s \o t) = Len(s) + Len(t)
           /\ \A i \in 1..Len(s) : (s \o t)[i] = s[i]
           /\ \A i \in 1..Len(t) : (s \o t)[Len(s) + i] = t[i]
           /\ \A i \in 1..(Len(s) + Len(t)) : i \in 1..Len(s) \/ i - Len(s) \in 1..Len(t)
           /\ Range(s \o t) = Range(s) \cup Range(t)
<1> DEFINE S == Range(s) \cup Range(t)
<1>1. s \in Seq(S) /\ t \in Seq(S)
  BY SeqMonotonic
<1> HIDE DEF S
<1>2. /\ s \o t \in Seq(S) /\ Len(s \o t) = Len(s) + Len(t)
      /\ \A i \in 1..(Len(s) + Len(t)) :
            (s \o t)[i] = IF i <= Len(s) THEN s[i] ELSE t[i - Len(s)]
  BY <1>1, ConcatProperties
<1>3. /\ Len(s) \in Nat /\ Len(t) \in Nat
      /\ DOMAIN s = 1..Len(s) /\ DOMAIN t = 1..Len(t)
  BY OverRange
<1>4. s \o t \in Seq(Range(s \o t)) /\ DOMAIN (s \o t) = 1..(Len(s) + Len(t))
  BY <1>2, OverRange
<1>5. \A i \in 1..Len(s) : i \in 1..(Len(s) + Len(t)) /\ (s \o t)[i] = s[i]
  BY <1>2, <1>3
<1>6. \A i \in 1..Len(t) : /\ Len(s) + i \in 1..(Len(s) + Len(t))
                           /\ (s \o t)[Len(s) + i] = t[i]
  BY <1>2, <1>3
<1>7. \A i \in 1..(Len(s) + Len(t)) :
         \/ i \in 1..Len(s)
         \/ i - Len(s) \in 1..Len(t) /\ i = Len(s) + (i - Len(s))
  BY <1>3
<1>8. Range(s \o t) = Range(s) \cup Range(t)
  <2>1. Range(s \o t) \subseteq Range(s) \cup Range(t)
    BY <1>3, <1>4, <1>5, <1>6, <1>7 DEF Range
  <2>2. Range(s) \cup Range(t) \subseteq Range(s \o t)
    BY <1>3, <1>4, <1>5, <1>6 DEF Range
  <2> QED
    BY <2>1, <2>2
<1> QED
  BY <1>2, <1>3, <1>4, <1>5, <1>6, <1>7, <1>8

\* What is appended to a sequence is its one new element.
LEMMA Appended ==
    ASSUME NEW s, s \in Seq(Range(s)), NEW e
    PROVE  /\ Append(s, e) \in Seq(Range(Append(s, e)))
           /\ Range(Append(s, e)) = Range(s) \cup {e}
           /\ Append(s, e) # << >>
           /\ Len(s) \in Nat /\ Len(Append(s, e)) = Len(s) + 1
           /\ Append(s, e)[Len(s) + 1] = e /\ Last(Append(s, e)) = e
           /\ \A i \in 1..Len(s) : Append(s, e)[i] = s[i]
<1> DEFINE S == Range(s) \cup {e}
<1>1. s \in Seq(S) /\ e \in S
  BY SeqMonotonic
<1> HIDE DEF S
<1>2. /\ Append(s, e) \in Seq(S) /\ Len(Append(s, e)) = Len(s) + 1
      /\ \A i \in 1..Len(s) : Append(s, e)[i] = s[i]
      /\ Append(s, e)[Len(s) + 1] = e
      /\ Append(s, e) # << >>
  BY <1>1, AppendProperties
<1>3. DOMAIN Append(s, e) = 1..(Len(s) + 1) /\ DOMAIN s = 1..Len(s) /\ Len(s) \in Nat
  BY <1>1, <1>2, OverRange
<1>4. Range(Append(s, e)) = Range(s) \cup {e}
  BY <1>2, <1>3 DEF Range
<1>5. Last(Append(s, e)) = e
  BY <1>2 DEF Last
<1> QED
  BY <1>2, <1>3, <1>4, <1>5, OverRange

\* All but the last element.
LEMMA Fronted ==
    ASSUME NEW s, s \in Seq(Range(s)), s # << >>
    PROVE  /\ Front(s) \in Seq(Range(Front(s))) /\ Range(Front(s)) \subseteq Range(s)
           /\ Len(s) \in Nat \ {0} /\ Len(Front(s)) = Len(s) - 1
           /\ \A i \in 1..(Len(s) - 1) : Front(s)[i] = s[i]
<1> DEFINE S == Range(s)
<1>1. Len(s) \in Nat \ {0} /\ DOMAIN s = 1..Len(s)
  BY OverRange, EmptySeq
<1>2. Front(s) \in Seq(S) /\ Len(Front(s)) = Len(s) - 1
        /\ \A i \in 1..(Len(s) - 1) : Front(s)[i] = s[i]
  BY <1>1, SubSeqProperties DEF Front
<1> QED
  BY <1>1, <1>2, OverRange

\* The head and the tail of a sequence without duplicates.
LEMMA ListShrinks ==
    ASSUME NEW s, IsList(s), s # << >>
    PROVE  /\ IsList(Tail(s)) /\ Head(s) \in Range(s)
           /\ Range(Tail(s)) = Range(s) \ {Head(s)}
<1> DEFINE S == Range(s)
<1>1. /\ Len(s) \in Nat \ {0} /\ DOMAIN s = 1..Len(s) /\ s \in Seq(S)
      /\ \A i, j \in 1..Len(s) : s[i] = s[j] => i = j
  BY OverRange, EmptySeq DEF IsList, IsInjective
<1>2. /\ Head(s) = s[1] /\ Tail(s) \in Seq(S) /\ Len(Tail(s)) = Len(s) - 1
      /\ \A i \in 1..Len(Tail(s)) : Tail(s)[i] = s[i + 1]
  BY <1>1, HeadTailProperties
<1>3. Tail(s) \in Seq(Range(Tail(s))) /\ DOMAIN Tail(s) = 1..(Len(s) - 1)
  BY <1>2, OverRange
<1>4. \A i \in 1..(Len(s) - 1) : i + 1 \in 1..Len(s) /\ i + 1 # 1 /\ Tail(s)[i] = s[i + 1]
  BY <1>1, <1>2
<1>5. \A i, j \in 1..(Len(s) - 1) : i + 1 = j + 1 => i = j
  BY <1>1
<1>6. IsInjective(Tail(s))
  BY <1>1, <1>3, <1>4, <1>5 DEF IsInjective
<1>7. 1 \in 1..Len(s)
  BY <1>1
<1>8. Head(s) \in Range(s)
  BY <1>1, <1>2, <1>7 DEF Range
<1>9. Range(Tail(s)) \subseteq Range(s) \ {Head(s)}
  <2> SUFFICES ASSUME NEW i \in 1..(Len(s) - 1) PROVE Tail(s)[i] \in Range(s) \ {Head(s)}
    BY <1>3 DEF Range
  <2>1. Tail(s)[i] = s[i + 1] /\ i + 1 \in 1..Len(s) /\ i + 1 # 1
    BY <1>4
  <2>2. s[i + 1] # s[1]
    BY <1>1, <1>7, <2>1
  <2> QED
    BY <1>1, <1>2, <2>1, <2>2 DEF Range
<1>10. Range(s) \ {Head(s)} \subseteq Range(Tail(s))
  <2> SUFFICES ASSUME NEW i \in 1..Len(s), s[i] # s[1] PROVE s[i] \in Range(Tail(s))
    BY <1>1, <1>2 DEF Range
  <2>1. i - 1 \in 1..(Len(s) - 1) /\ i = (i - 1) + 1
    BY <1>1
  <2>2. Tail(s)[i - 1] = s[i]
    BY <1>4, <2>1
  <2> QED
    BY <1>3, <2>1, <2>2 DEF Range
<1> QED
  BY <1>3, <1>6, <1>8, <1>9, <1>10 DEF IsList

\* An element more, which was not there.
LEMMA ListGrows ==
    ASSUME NEW s, IsList(s), NEW e, e \notin Range(s)
    PROVE  IsList(Append(s, e)) /\ Range(Append(s, e)) = Range(s) \cup {e}
<1> DEFINE t == Append(s, e)
<1>1. /\ t \in Seq(Range(t)) /\ Range(t) = Range(s) \cup {e}
      /\ Len(s) \in Nat /\ Len(t) = Len(s) + 1 /\ t[Len(s) + 1] = e
      /\ \A i \in 1..Len(s) : t[i] = s[i]
  BY Appended DEF IsList
<1>2. DOMAIN s = 1..Len(s) /\ DOMAIN t = 1..(Len(s) + 1)
  BY <1>1, OverRange DEF IsList
<1> HIDE DEF t
<1>3. ASSUME NEW i \in 1..Len(s) PROVE t[i] \in Range(s)
  BY <1>1, <1>2 DEF Range
<1>4. \A i \in 1..(Len(s) + 1) : i \in 1..Len(s) \/ i = Len(s) + 1
  BY <1>1
<1>5. IsInjective(t)
  BY <1>1, <1>2, <1>3, <1>4 DEF IsInjective, IsList
<1> QED
  BY <1>1, <1>5 DEF IsList, t

\* The listing of a finite set has no element twice.
LEMMA SetListed ==
    ASSUME NEW S, IsFiniteSet(S)
    PROVE  IsList(SetToSeq(S)) /\ Range(SetToSeq(S)) \subseteq S
<1> DEFINE n == Cardinality(S)
<1>1. n \in Nat
  BY FS_CardinalityType
<1>2. PICK f : f \in Bijection(1..n, S)
  BY FS_CardinalityType DEF ExistsBijection
<1>3. f \in [1..n -> S] /\ IsInjective(f)
  BY <1>2 DEF Bijection, Injection, IsInjective
<1> DEFINE g == SetToSeq(S)
<1>4. g \in [1..n -> S] /\ IsInjective(g)
  BY <1>3 DEF SetToSeq
<1> HIDE DEF n, g
<1>5. g \in Seq(S)
  BY <1>1, <1>4, SeqDef
<1>6. g \in Seq(Range(g)) /\ Range(g) \subseteq S
  BY <1>5, OverRange
<1> QED
  BY <1>4, <1>6 DEF IsList, g

-----------------------------------------------------------------------------
(* The units of an archive.                                                *)

Mark(p, kind, size) ==
    [type |-> "header", path |-> p, kind |-> kind, size |-> size, at |-> 1]

\* A concatenation has the headers of both.
LEMMA HeadsJoined ==
    ASSUME NEW s, NEW t, s \in Seq(Range(s)), t \in Seq(Range(t))
    PROVE  /\ Heads(s \o t) \subseteq Heads(s) \cup Heads(t)
           /\ Distinct(s) /\ Distinct(t) /\ Heads(s) \cap Heads(t) = {} => Distinct(s \o t)
<1> DEFINE u == s \o t
           m == Len(s)
           n == Len(t)
<1>1. /\ m \in Nat /\ n \in Nat /\ Len(u) = m + n
      /\ \A i \in 1..m : u[i] = s[i]
      /\ \A i \in 1..(m + n) : i \in 1..m \/ i - m \in 1..n
      /\ \A i \in 1..n : u[m + i] = t[i]
  BY Joined
<1> HIDE DEF u, m, n
<1>2. \A i \in 1..(m + n) : \/ i \in 1..m /\ u[i] = s[i]
                            \/ i - m \in 1..n /\ u[i] = t[i - m]
  <2> SUFFICES ASSUME NEW i \in 1..(m + n), i \notin 1..m
               PROVE  i - m \in 1..n /\ u[i] = t[i - m]
    BY <1>1
  <2>1. i - m \in 1..n /\ m + (i - m) = i
    BY <1>1
  <2> QED
    BY <1>1, <2>1
<1>3. Heads(u) \subseteq Heads(s) \cup Heads(t)
  BY <1>1, <1>2 DEF Heads, m, n
<1>4. ASSUME Distinct(s), Distinct(t), Heads(s) \cap Heads(t) = {}
      PROVE  Distinct(u)
  <2> SUFFICES ASSUME NEW i \in 1..(m + n), NEW j \in 1..(m + n), IsHead(u[i]), u[i] = u[j]
               PROVE  i = j
    BY <1>1 DEF Distinct
  <2>1. CASE i \in 1..m /\ u[i] = s[i] /\ j \in 1..m /\ u[j] = s[j]
    BY <1>4, <2>1 DEF Distinct, m
  <2>2. CASE i \in 1..m /\ u[i] = s[i] /\ j - m \in 1..n /\ u[j] = t[j - m]
    BY <1>4, <2>2 DEF Heads, m, n
  <2>3. CASE i - m \in 1..n /\ u[i] = t[i - m] /\ j \in 1..m /\ u[j] = s[j]
    BY <1>4, <2>3 DEF Heads, m, n
  <2>4. CASE i - m \in 1..n /\ u[i] = t[i - m] /\ j - m \in 1..n /\ u[j] = t[j - m]
    <3>1. i - m = j - m
      BY <1>4, <2>4 DEF Distinct, n
    <3> QED
      BY <1>1, <3>1
  <2> QED
    BY <1>2, <2>1, <2>2, <2>3, <2>4
<1> QED
  BY <1>3, <1>4 DEF u

\* The units of one header.
LEMMA HeaderHeads ==
    ASSUME NEW p, NEW kind, NEW size
    PROVE  LET h == Header(p, kind, size)
           IN  h \in Seq(Range(h)) /\ Heads(h) = {Mark(p, kind, size)} /\ Distinct(h)
<1> DEFINE unit(k) == [type |-> "header", path |-> p, kind |-> kind, size |-> size, at |-> k]
           h == Header(p, kind, size)
           S == {unit(k) : k \in 1..2}
<1>1. h = [k \in 1..2 |-> unit(k)]
  BY DEF Header, BLOCK
<1>2. h \in Seq(S) /\ Len(h) = 2
  BY <1>1
<1>3. h[1] = unit(1) /\ h[2] = unit(2) /\ 1..2 = {1, 2}
  BY <1>1
<1> HIDE DEF h
<1>4. h[1] = Mark(p, kind, size) /\ IsHead(h[1]) /\ ~IsHead(h[2])
  BY <1>3 DEF Mark, IsHead
<1>5. Heads(h) = {Mark(p, kind, size)} /\ Distinct(h)
  BY <1>2, <1>3, <1>4 DEF Heads, Distinct
<1> QED
  BY <1>2, <1>5, OverRange DEF h

\* Units that are not of a header.
LEMMA Headless ==
    ASSUME NEW s, s \in Seq(Range(s)), \A i \in 1..Len(s) : s[i].type # "header"
    PROVE  Heads(s) = {} /\ Distinct(s)
  BY DEF Heads, Distinct, IsHead

\* Zeros are such units.
LEMMA ZerosHeadless ==
    ASSUME NEW n \in Nat
    PROVE  Zeros(n) \in Seq(Range(Zeros(n))) /\ Heads(Zeros(n)) = {} /\ Distinct(Zeros(n))
<1> DEFINE z == Zeros(n)
<1>1. z \in Seq({Zero}) /\ Len(z) = n /\ \A i \in 1..n : z[i] = Zero
  BY DEF Zeros
<1> HIDE DEF z
<1>2. \A i \in 1..Len(z) : z[i].type # "header"
  BY <1>1 DEF Zero
<1>3. z \in Seq(Range(z))
  BY <1>1, OverRange
<1> QED
  BY <1>2, <1>3, Headless DEF z

\* So is the padding of a file.
LEMMA PaddingHeadless ==
    ASSUME NEW size \in Nat
    PROVE  /\ Padding(size) \in Seq(Range(Padding(size)))
           /\ Heads(Padding(size)) = {} /\ Distinct(Padding(size))
<1>1. (BLOCK - (size % BLOCK)) % BLOCK \in Nat
  BY DEF BLOCK
<1> QED
  BY <1>1, ZerosHeadless DEF Padding

\* So are the contents of a file, and what is copied of them.
LEMMA ContentHeadless ==
    ASSUME NEW p, NEW size \in Nat, NEW a \in 1..(size + 1), NEW b \in 0..size
    PROVE  LET s == SubSeq(Content(p, size), a, b)
           IN  s \in Seq(Range(s)) /\ Heads(s) = {} /\ Distinct(s)
<1> DEFINE c == Content(p, size)
           s == SubSeq(c, a, b)
           S == {[type |-> "data", path |-> p, at |-> k] : k \in 1..size}
<1>1. c = [k \in 1..size |-> [type |-> "data", path |-> p, at |-> k]]
  BY DEF Content
<1>2. \A i \in 1..size : c[i] \in S
  BY <1>1
<1>3. \A i \in a..b : i \in 1..size
  OBVIOUS
<1> HIDE DEF c, S
<1>4. s \in Seq(S)
  <2>1. a \in Int /\ b \in Int /\ \A i \in a..b : c[i] \in S
    BY <1>2, <1>3
  <2> QED
    BY <2>1, SubSeqProperties
<1> HIDE DEF s
<1>5. s \in Seq(Range(s)) /\ Range(s) \subseteq S /\ DOMAIN s = 1..Len(s)
  BY <1>4, OverRange
<1>6. \A i \in 1..Len(s) : s[i] \in S
  BY <1>5 DEF Range
<1>7. \A u \in S : u.type # "header"
  BY DEF S
<1> QED
  BY <1>5, <1>6, <1>7, Headless DEF s, c

\* What a write leaves in the archive when it is not a header.
LEMMA WriteHeadless ==
    ASSUME archive \in Seq(Range(archive)), NEW u, u \in Seq(Range(u)), Heads(u) = {},
           Distinct(u), Write(u)
    PROVE  /\ archive' \in Seq(Range(archive'))
           /\ Heads(archive') \subseteq Heads(archive)
           /\ Distinct(archive) => Distinct(archive')
<1>1. archive' = archive \/ archive' = archive \o u
  BY DEF Write
<1>2. /\ archive \o u \in Seq(Range(archive \o u))
      /\ Heads(archive \o u) \subseteq Heads(archive)
      /\ Distinct(archive) => Distinct(archive \o u)
  BY Joined, HeadsJoined
<1> QED
  BY <1>1, <1>2

\* What a header leaves in it: one header more, a new one if its path is new.
LEMMA WriteHeader ==
    ASSUME archive \in Seq(Range(archive)), NEW p, NEW kind, NEW size,
           Write(Header(p, kind, size))
    PROVE  /\ archive' \in Seq(Range(archive'))
           /\ Heads(archive') \subseteq Heads(archive) \cup {Mark(p, kind, size)}
           /\ Distinct(archive) /\ (\A h \in Heads(archive) : h.path # p) => Distinct(archive')
<1> DEFINE u == Header(p, kind, size)
<1>1. u \in Seq(Range(u)) /\ Heads(u) = {Mark(p, kind, size)} /\ Distinct(u)
  BY HeaderHeads
<1>2. Mark(p, kind, size).path = p
  BY DEF Mark
<1>3. archive' = archive \/ archive' = archive \o u
  BY DEF Write
<1> HIDE DEF u
<1>4. /\ archive \o u \in Seq(Range(archive \o u))
      /\ Heads(archive \o u) \subseteq Heads(archive) \cup {Mark(p, kind, size)}
      /\ Distinct(archive) /\ Heads(archive) \cap Heads(u) = {} => Distinct(archive \o u)
  BY <1>1, Joined, HeadsJoined
<1>5. (\A h \in Heads(archive) : h.path # p) => Heads(archive) \cap Heads(u) = {}
  BY <1>1, <1>2
<1> QED
  BY <1>3, <1>4, <1>5

\* The headers of a shorter copy are among those of the archive.
LEMMA CutHeads ==
    ASSUME NEW s, s \in Seq(Range(s)), NEW n \in 0..Len(s)
    PROVE  LET t == SubSeq(s, 1, n)
           IN  /\ t \in Seq(Range(t)) /\ Heads(t) \subseteq Heads(s)
               /\ Distinct(s) => Distinct(t)
<1> DEFINE t == SubSeq(s, 1, n)
<1>1. Len(s) \in Nat /\ DOMAIN s = 1..Len(s)
  BY OverRange
<1>2. \A i \in 1..n : i \in 1..Len(s) /\ s[i] \in Range(s)
  BY <1>1 DEF Range
<1>3. t \in Seq(Range(s)) /\ Len(t) = n /\ \A i \in 1..n : t[i] = s[i]
  <2>1. 1 \in Int /\ n \in Int
    BY <1>1
  <2>2. t \in Seq(Range(s)) /\ Len(t) = (IF 1 <= n THEN n - 1 + 1 ELSE 0)
          /\ \A i \in 1..(n - 1 + 1) : t[i] = s[1 + i - 1]
    BY <1>2, <2>1, SubSeqProperties
  <2>3. n \in Nat /\ n - 1 + 1 = n /\ \A i \in 1..n : 1 + i - 1 = i
    BY <1>1
  <2> QED
    BY <2>2, <2>3
<1> HIDE DEF t
<1> QED
  BY <1>2, <1>3, OverRange DEF Heads, Distinct, t

-----------------------------------------------------------------------------
(* Paths, and the stack of directories.                                    *)

\* The tree of every setup is one.
LEMMA Trees ==
    ASSUME setup \in Setups
    PROVE  IsTree(Tree) /\ setup.capacity \in Nat
  BY EfsConstants DEF IsTree, IsSetup, Tree, Node, Root

\* The beginning of a path.
LEMMA Beginning ==
    ASSUME NEW p, p \in Seq(Range(p))
    PROVE  /\ Len(p) \in Nat
           /\ SubSeq(p, 1, Len(p)) = p
           /\ \A n \in 0..Len(p) : Len(SubSeq(p, 1, n)) = n
           /\ \A n \in 0..Len(p) : \A m \in 0..n :
                 SubSeq(SubSeq(p, 1, n), 1, m) = SubSeq(p, 1, m)
<1>1. Len(p) \in Nat /\ p \in [1..Len(p) -> Range(p)]
  BY LenProperties
<1>2. ASSUME NEW n \in 0..Len(p)
      PROVE  SubSeq(p, 1, n) = [i \in 1..n |-> p[i]] /\ Len(SubSeq(p, 1, n)) = n
  BY <1>1
<1>3. SubSeq(p, 1, Len(p)) = p
  BY <1>1, <1>2
<1>4. ASSUME NEW n \in 0..Len(p), NEW m \in 0..n
      PROVE  SubSeq(SubSeq(p, 1, n), 1, m) = SubSeq(p, 1, m)
  <2>1. m \in 0..Len(p) /\ \A i \in 1..m : i \in 1..n
    BY <1>1
  <2>2. SubSeq(SubSeq(p, 1, n), 1, m) = [i \in 1..m |-> SubSeq(p, 1, n)[i]]
    BY <1>1, <2>1
  <2>3. \A i \in 1..m : SubSeq(p, 1, n)[i] = p[i]
    BY <1>2, <2>1
  <2> QED
    BY <1>2, <2>1, <2>2, <2>3
<1> QED
  BY <1>1, <1>2, <1>3, <1>4

\* A path begins as the directory does in which it is.
LEMMA ChildBegins ==
    ASSUME NEW p, p \in Seq(Range(p)), NEW d, Len(p) = Len(d) + 1, Len(d) \in Nat, Front(p) = d
    PROVE  /\ SubSeq(p, 1, Len(d)) = d /\ SubSeq(p, 1, Len(p)) = p
           /\ \A m \in 0..Len(d) : SubSeq(p, 1, m) = SubSeq(d, 1, m)
<1>1. Len(d) \in 0..Len(p) /\ Len(p) - 1 = Len(d)
  OBVIOUS
<1>2. SubSeq(p, 1, Len(d)) = d
  BY <1>1 DEF Front
<1> QED
  BY <1>1, <1>2, Beginning

\* The directory on top of the stack.
LEMMA OnTop ==
    ASSUME NEW t, IsTree(t), NEW st, IsStack(t, st), st # << >>
    PROVE  /\ Len(st) \in Nat \ {0} /\ Len(st) \in 1..Len(st) /\ Last(st) = st[Len(st)]
           /\ IsFrame(t, Last(st)) /\ Len(Last(st).path) = Len(st) - 1
           /\ Last(st).path \in Seq(Range(Last(st).path))
<1>1. Len(st) \in Nat \ {0}
  BY OverRange, EmptySeq DEF IsStack
<1>2. Len(st) \in 1..Len(st) /\ Last(st) = st[Len(st)]
  BY <1>1 DEF Last
<1>3. IsFrame(t, Last(st)) /\ Len(Last(st).path) = Len(st) - 1
  BY <1>2 DEF IsStack
<1>4. Root \in Seq(Range(Root))
  BY DEF Root, Range
<1>5. Last(st).path \in Seq(Range(Last(st).path))
  BY <1>3, <1>4 DEF IsTree, IsFrame
<1> QED
  BY <1>1, <1>2, <1>3, <1>5

\* The directory on top is one that was passed; and so is what it no longer
\* lists.
LEMMA PassedHere ==
    ASSUME NEW t, IsTree(t), NEW st, IsStack(t, st), st # << >>
    PROVE  /\ Passed(Last(st).path, st)
           /\ \A p : Child(t, p, Last(st).path) /\ p \notin Todo(Last(st)) => Passed(p, st)
<1> DEFINE d == Last(st).path
<1>1. /\ Len(st) \in Nat \ {0} /\ Len(st) \in 1..Len(st) /\ Last(st) = st[Len(st)]
      /\ Len(d) = Len(st) - 1 /\ d \in Seq(Range(d))
  BY OnTop
<1>2. ASSUME NEW k \in 1..Len(st), NEW q, q \in Seq(Range(q)), NEW n \in 0..Len(q),
             SubSeq(q, 1, n) \in Todo(st[k])
      PROVE  n = k /\ Len(q) \in Nat
  <2>1. Child(t, SubSeq(q, 1, n), st[k].path) /\ Len(st[k].path) = k - 1
    BY <1>2 DEF IsStack, IsFrame
  <2>2. Len(SubSeq(q, 1, n)) = n /\ Len(q) \in Nat
    BY <1>2, Beginning
  <2> QED
    BY <1>1, <2>1, <2>2 DEF Child
<1>3. ASSUME NEW k \in 1..Len(st), k <= Len(d)
      PROVE  SubSeq(d, 1, k) \notin Todo(st[k])
  <2>1. k + 1 \in 1..Len(st) /\ k < Len(st) /\ k + 1 - 1 = k
    BY <1>1, <1>3
  <2>2. st[k + 1].path = SubSeq(st[Len(st)].path, 1, k + 1 - 1)
    <3>1. k + 1 \in 1..Len(st) /\ Len(st) \in 1..Len(st)
      BY <1>1, <2>1
    <3>2. \A j \in 1..Len(st) : st[j].path = SubSeq(st[Len(st)].path, 1, j - 1)
      BY <3>1 DEF IsStack
    <3> QED
      BY <3>1, <3>2
  <2>3. st[k + 1].path \notin Todo(st[k])
    BY <2>1 DEF IsStack
  <2> QED
    BY <1>1, <2>1, <2>2, <2>3
<1>4. Passed(d, st)
  <2> SUFFICES ASSUME NEW k \in 1..Len(st), NEW n \in 0..Len(d), SubSeq(d, 1, n) \in Todo(st[k])
               PROVE  FALSE
    BY DEF Passed
  <2>1. n = k
    BY <1>1, <1>2
  <2> QED
    BY <1>1, <1>3, <2>1
<1>5. ASSUME NEW p, Child(t, p, d), p \notin Todo(Last(st))
      PROVE  Passed(p, st)
  <2>1. p \in Seq(Range(p))
    BY <1>5 DEF IsTree, Child
  <2> SUFFICES ASSUME NEW k \in 1..Len(st), NEW n \in 0..Len(p), SubSeq(p, 1, n) \in Todo(st[k])
               PROVE  FALSE
    BY DEF Passed
  <2>2. n = k /\ Len(p) = Len(st) /\ Len(p) = Len(d) + 1
    BY <1>1, <1>2, <1>5, <2>1 DEF Child
  <2>3. SubSeq(p, 1, Len(p)) = p /\ \A m \in 0..Len(d) : SubSeq(p, 1, m) = SubSeq(d, 1, m)
    BY <1>1, <1>5, <2>1, ChildBegins DEF Child
  <2>4. CASE k = Len(st)
    BY <1>1, <1>5, <2>2, <2>3, <2>4
  <2>5. CASE k < Len(st)
    <3>1. k <= Len(d) /\ k \in 0..Len(d)
      BY <1>1, <2>5
    <3> QED
      BY <1>3, <2>2, <2>3, <3>1
  <2> QED
    BY <1>1, <2>4, <2>5
<1> QED
  BY <1>4, <1>5

\* The directory on top changes.
LEMMA Replaced ==
    ASSUME NEW t, IsTree(t), NEW st, IsStack(t, st), st # << >>,
           NEW f, IsFrame(t, f), f.path = Last(st).path
    PROVE  LET new == Append(Front(st), f)
           IN  /\ IsStack(t, new) /\ new # << >> /\ Last(new) = f
               /\ Todo(f) \subseteq Todo(Last(st)) => \A q : Passed(q, st) => Passed(q, new)
<1> DEFINE new == Append(Front(st), f)
           n == Len(st)
<1>1. n \in Nat \ {0} /\ Last(st) = st[n] /\ Len(Last(st).path) = n - 1
  BY OnTop
<1>2. /\ Front(st) \in Seq(Range(Front(st))) /\ Len(Front(st)) = n - 1
      /\ \A i \in 1..(n - 1) : Front(st)[i] = st[i]
  BY Fronted DEF IsStack
<1>3. /\ new \in Seq(Range(new)) /\ new # << >> /\ Last(new) = f
      /\ Len(new) = n /\ new[n] = f
      /\ \A i \in 1..(n - 1) : new[i] = st[i]
  BY <1>1, <1>2, Appended
<1> HIDE DEF new, n
<1>4. \A k \in 1..n : new[k].path = st[k].path /\ (k \in 1..(n - 1) \/ k = n)
  BY <1>1, <1>3
<1>5. ASSUME NEW k \in 1..n
      PROVE  /\ IsFrame(t, new[k]) /\ Len(new[k].path) = k - 1
             /\ \A j \in 1..k : new[j].path = SubSeq(new[k].path, 1, j - 1)
             /\ k < n => new[k + 1].path \notin Todo(new[k])
  <2>1. /\ IsFrame(t, st[k]) /\ Len(st[k].path) = k - 1
        /\ \A j \in 1..k : st[j].path = SubSeq(st[k].path, 1, j - 1)
        /\ k < n => st[k + 1].path \notin Todo(st[k])
    BY DEF IsStack, n
  <2>2. IsFrame(t, new[k])
    BY <1>3, <1>4, <2>1
  <2>3. \A j \in 1..k : j \in 1..n
    BY <1>1
  <2>4. k < n => k + 1 \in 1..n /\ k \in 1..(n - 1)
    BY <1>1
  <2> QED
    BY <1>3, <1>4, <2>1, <2>2, <2>3, <2>4
<1>6. IsStack(t, new)
  BY <1>3, <1>5 DEF IsStack
<1>7. ASSUME Todo(f) \subseteq Todo(Last(st)), NEW q, Passed(q, st)
      PROVE  Passed(q, new)
  <2>1. \A k \in 1..n : Todo(new[k]) \subseteq Todo(st[k])
    BY <1>1, <1>3, <1>4, <1>7
  <2> QED
    BY <1>3, <1>7, <2>1 DEF Passed, n
<1> QED
  BY <1>3, <1>6, <1>7 DEF new

\* A directory is left.
LEMMA Popped ==
    ASSUME NEW t, IsTree(t), NEW st, IsStack(t, st), st # << >>
    PROVE  /\ IsStack(t, Front(st)) /\ \A q : Passed(q, st) => Passed(q, Front(st))
           /\ Len(st) > 1 <=> Front(st) # << >>
<1> DEFINE new == Front(st)
           n == Len(st)
<1>1. /\ n \in Nat \ {0}
      /\ new \in Seq(Range(new)) /\ Len(new) = n - 1
      /\ \A i \in 1..(n - 1) : new[i] = st[i]
  BY Fronted DEF IsStack
<1>2. new # << >> <=> Len(new) # 0
  BY <1>1, EmptySeq
<1> HIDE DEF new, n
<1>3. \A k \in 1..(n - 1) : k \in 1..n /\ k + 1 \in 1..n /\ k < n
  BY <1>1
<1>4. IsStack(t, new)
  <2>1. ASSUME NEW k \in 1..(n - 1)
        PROVE  /\ IsFrame(t, new[k]) /\ Len(new[k].path) = k - 1
               /\ \A j \in 1..k : new[j].path = SubSeq(new[k].path, 1, j - 1)
               /\ k < n - 1 => new[k + 1].path \notin Todo(new[k])
    <3>1. /\ IsFrame(t, st[k]) /\ Len(st[k].path) = k - 1
          /\ \A j \in 1..k : st[j].path = SubSeq(st[k].path, 1, j - 1)
          /\ st[k + 1].path \notin Todo(st[k])
      BY <1>3 DEF IsStack, n
    <3>2. (\A j \in 1..k : j \in 1..(n - 1)) /\ (k < n - 1 => k + 1 \in 1..(n - 1))
      BY <1>1
    <3> QED
      BY <1>1, <3>1, <3>2
  <2> QED
    BY <1>1, <2>1 DEF IsStack
<1>5. \A q : Passed(q, st) => Passed(q, new)
  BY <1>1, <1>3 DEF Passed, n
<1>6. n > 1 <=> n - 1 # 0
  BY <1>1
<1> QED
  BY <1>1, <1>2, <1>4, <1>5, <1>6 DEF new, n

\* A directory is entered, which is no longer in the list it was in.
LEMMA Entered ==
    ASSUME NEW t, IsTree(t), NEW st, IsStack(t, st), st # << >>, NEW p,
           Child(t, p, Last(st).path), t[p].kind = "dir", p \notin Todo(Last(st))
    PROVE  LET new == Append(st, Frame(p))
           IN  /\ IsStack(t, new) /\ new # << >> /\ Last(new) = Frame(p)
               /\ \A q : Passed(q, st) => Passed(q, new)
<1> DEFINE d == Last(st).path
           f == Frame(p)
           new == Append(st, f)
           n == Len(st)
<1>1. /\ n \in Nat \ {0} /\ Last(st) = st[n] /\ Len(d) = n - 1 /\ d \in Seq(Range(d))
  BY OnTop
<1>2. /\ p \in Seq(Range(p)) /\ p \in DOMAIN t /\ Len(p) = n
      /\ SubSeq(p, 1, n) = p /\ \A m \in 0..(n - 1) : SubSeq(p, 1, m) = SubSeq(d, 1, m)
  <2>1. p \in Seq(Range(p)) /\ p \in DOMAIN t /\ Front(p) = d /\ Len(p) = Len(d) + 1
    BY DEF IsTree, Child
  <2>2. Len(d) \in Nat
    BY <1>1
  <2> HIDE DEF d, n
  <2>3. /\ SubSeq(p, 1, Len(p)) = p
        /\ \A m \in 0..Len(d) : SubSeq(p, 1, m) = SubSeq(d, 1, m)
    BY <2>1, <2>2, ChildBegins
  <2>4. Len(p) = n /\ Len(d) = n - 1 /\ n \in Nat
    BY <1>1, <2>1
  <2> QED
    BY <2>1, <2>3, <2>4
<1>3. /\ f = [path |-> f.path, listing |-> f.listing, entries |-> f.entries]
      /\ f.path = p /\ f.listing = << >> /\ f.entries = << >>
  BY DEF Frame
<1>4. IsList(<< >>) /\ Range(<< >>) = {}
  BY EmptySeq DEF IsList, Range, IsInjective
<1>5. Todo(f) = {} /\ IsFrame(t, f)
  BY <1>2, <1>3, <1>4 DEF Todo, IsFrame
<1>6. /\ new \in Seq(Range(new)) /\ new # << >> /\ Last(new) = f
      /\ Len(new) = n + 1 /\ new[n + 1] = f
      /\ \A i \in 1..n : new[i] = st[i]
  <2>1. st \in Seq(Range(st))
    BY DEF IsStack
  <2> QED
    BY <2>1, Appended
<1> HIDE DEF new, n, f
<1>7. ASSUME NEW k \in 1..n
      PROVE  /\ IsFrame(t, new[k]) /\ Len(new[k].path) = k - 1
             /\ \A j \in 1..k : new[j].path = SubSeq(new[k].path, 1, j - 1)
             /\ new[k + 1].path \notin Todo(new[k])
  <2>1. /\ IsFrame(t, st[k]) /\ Len(st[k].path) = k - 1
        /\ \A j \in 1..k : st[j].path = SubSeq(st[k].path, 1, j - 1)
        /\ k < n => st[k + 1].path \notin Todo(st[k])
    BY DEF IsStack, n
  <2>2. \A j \in 1..k : j \in 1..n
    BY <1>1
  <2>3. CASE k = n
    BY <1>1, <1>3, <1>6, <2>1, <2>2, <2>3
  <2>4. CASE k < n
    <3>1. k + 1 \in 1..n
      BY <1>1, <2>4
    <3> QED
      BY <1>6, <2>1, <2>2, <2>4, <3>1
  <2>5. k = n \/ k < n
    BY <1>1
  <2> QED
    BY <2>3, <2>4, <2>5
<1>8. ASSUME NEW j \in 1..(n + 1)
      PROVE  new[j].path = SubSeq(new[n + 1].path, 1, j - 1)
  <2>1. CASE j = n + 1
    BY <1>1, <1>2, <1>3, <1>6, <2>1
  <2>2. CASE j \in 1..n
    <3>1. n \in 1..n /\ j - 1 \in 0..(n - 1)
      BY <1>1, <2>2
    <3>2. st[j].path = SubSeq(d, 1, j - 1)
      BY <1>1, <2>2, <3>1 DEF IsStack, n
    <3> QED
      BY <1>2, <1>3, <1>6, <2>2, <3>1, <3>2
  <2> QED
    BY <1>1, <2>1, <2>2
<1>9. \A k \in 1..(n + 1) : k \in 1..n \/ (k = n + 1 /\ ~(k < n + 1))
  BY <1>1
<1>10. Len(new[n + 1].path) = n + 1 - 1
  BY <1>1, <1>2, <1>3, <1>6
<1>11. IsStack(t, new)
  <2>1. ASSUME NEW k \in 1..Len(new)
        PROVE  /\ IsFrame(t, new[k]) /\ Len(new[k].path) = k - 1
               /\ \A j \in 1..k : new[j].path = SubSeq(new[k].path, 1, j - 1)
               /\ k < Len(new) => new[k + 1].path \notin Todo(new[k])
    <3>1. CASE k \in 1..n
      BY <1>7, <3>1
    <3>2. CASE k = n + 1 /\ ~(k < n + 1)
      BY <1>5, <1>6, <1>8, <1>10, <3>2
    <3> QED
      BY <1>6, <1>9, <3>1, <3>2
  <2> QED
    BY <1>6, <2>1 DEF IsStack
<1>12. \A q : Passed(q, st) => Passed(q, new)
  BY <1>5, <1>6, <1>9 DEF Passed, n
<1> QED
  BY <1>6, <1>11, <1>12 DEF new, f

-----------------------------------------------------------------------------
(* What the steps leave of the archive.                                    *)

\* The circumstances stay.
LEMMA Same ==
    ASSUME setup \in Setups, setup' = setup
    PROVE  /\ Tree' = Tree /\ IsTree(Tree) /\ setup.capacity \in Nat
           /\ setup' \in Setups /\ setup'.capacity = setup.capacity
           /\ \A f : Fault(f)' <=> Fault(f)
  BY Trees DEF Tree, Fault

\* A path that is tracked is remembered while there is room.
LEMMA Tracked ==
    ASSUME IInv, setup' = setup, NEW p \in DOMAIN Tree, Track(p)
    PROVE  /\ written' \subseteq DOMAIN Tree /\ Cardinality(written') <= setup.capacity
           /\ Remembers' => Remembers /\ written' = written \cup {p}
<1>1. /\ written \subseteq DOMAIN Tree /\ Cardinality(written) <= setup.capacity
      /\ IsFiniteSet(DOMAIN Tree) /\ setup.capacity \in Nat
  BY Trees DEF IInv, WalkInv, IsTree
<1>2. IsFiniteSet(written) /\ Cardinality(written) \in Nat
  BY <1>1, FS_Subset, FS_CardinalityType
<1>3. Cardinality(written \cup {p}) <= Cardinality(written) + 1
  <2>1. Cardinality(written \cup {p}) =
          IF p \in written THEN Cardinality(written) ELSE Cardinality(written) + 1
    BY <1>2, FS_AddElement
  <2> QED
    BY <1>2, <2>1
<1>4. CASE Remembers
  <2>1. written' = written \cup {p}
    BY <1>4 DEF Track, Remembers
  <2>2. Cardinality(written \cup {p}) \in Nat
    BY <1>2, FS_AddElement, FS_CardinalityType
  <2>3. Cardinality(written) + 1 <= setup.capacity
    BY <1>1, <1>2, <1>4 DEF Remembers
  <2>4. Cardinality(written \cup {p}) <= setup.capacity
    BY <1>1, <1>2, <1>3, <2>2, <2>3
  <2> QED
    BY <1>1, <1>4, <2>1, <2>4
<1>5. CASE ~Remembers
  <2>1. written' = written
    BY <1>5 DEF Track, Remembers
  <2> QED
    BY <1>1, <1>5, <2>1 DEF Remembers
<1> QED
  BY <1>4, <1>5

\* A step that archives no header keeps what is said of those there are.
LEMMA KeepsHeaders ==
    ASSUME IInv, setup' = setup,
           Heads(archive') \subseteq Heads(archive), Distinct(archive) => Distinct(archive'),
           bpc \notin {"done", "failed"},
           Remembers' => Remembers /\ written \subseteq written',
           bpc = "body" => \/ bpc' = "body" /\ body'.path = body.path
                           \/ Remembers' => body.path \in written',
           bpc' \notin {"done", "failed"} => \A q : Passed(q, stack) => Passed(q, stack'),
           bpc' = "opendir" =>
             \A h \in Heads(archive) :
                Archived(h) => \A n \in 0..Len(h.path) : SubSeq(h.path, 1, n) # Last(stack').path,
           Reading' =>
             \A h \in Heads(archive) : Archived(h) => h.path # Last(stack').path
    PROVE  OnceInv'
<1>1. Tree' = Tree
  BY Same DEF IInv
<1>2. ASSUME Remembers' PROVE Distinct(archive') /\ \A h \in Heads(archive) : Archived(h)
  BY <1>2 DEF IInv, OnceInv
<1>3. ASSUME Remembers', bpc' \notin {"done", "failed"}, NEW h \in Heads(archive')
      PROVE  Archived(h)'
  <2>1. h \in Heads(archive) /\ Archived(h)
    BY <1>2, <1>3
  <2>2. /\ h.path \in DOMAIN Tree'
        /\ (h.kind = "dir") <=> (Tree'[h.path].kind = "dir")
    BY <1>1, <2>1 DEF Archived
  <2>3. h.kind # "dir" => h.path \in written' \/ (bpc' = "body" /\ h.path = body'.path)
    BY <1>3, <2>1 DEF Archived
  <2>4. Passed(h.path, stack')
    BY <1>3, <2>1 DEF Archived
  <2>5. /\ bpc' = "opendir" => \A n \in 0..Len(h.path) : SubSeq(h.path, 1, n) # Last(stack').path
        /\ Reading' => h.path # Last(stack').path
    BY <2>1
  <2> QED
    BY <2>2, <2>3, <2>4, <2>5 DEF Archived, Top
<1> QED
  BY <1>2, <1>3 DEF OnceInv

\* A header of a path that was not archived yet.
LEMMA AddsHeader ==
    ASSUME IInv, setup' = setup, NEW p \in DOMAIN Tree, NEW kind, NEW size,
           Write(Header(p, kind, size)),
           (kind = "dir") <=> (Tree[p].kind = "dir"),
           bpc \notin {"done", "failed", "body"},
           \A h \in Heads(archive) : Archived(h) => h.path # p,
           Remembers' => Remembers /\ written \subseteq written',
           kind # "dir" => \/ bpc' = "body" /\ body'.path = p
                           \/ Remembers' => p \in written',
           bpc' # "opendir", ~Reading', Passed(p, stack'),
           \A q : Passed(q, stack) => Passed(q, stack')
    PROVE  OnceInv' /\ archive' \in Seq(Range(archive'))
<1>1. Tree' = Tree
  BY Same DEF IInv
<1>2. /\ archive' \in Seq(Range(archive'))
      /\ Heads(archive') \subseteq Heads(archive) \cup {Mark(p, kind, size)}
      /\ Distinct(archive) /\ (\A h \in Heads(archive) : h.path # p) => Distinct(archive')
  BY WriteHeader DEF IInv
<1>3. ASSUME Remembers' PROVE Distinct(archive') /\ \A h \in Heads(archive) : Archived(h)
  BY <1>2, <1>3 DEF IInv, OnceInv
<1>4. ASSUME Remembers', NEW h \in Heads(archive')
      PROVE  Archived(h)'
  <2>1. CASE h \in Heads(archive)
    <3>1. Archived(h)
      BY <1>3, <1>4, <2>1
    <3>2. /\ h.path \in DOMAIN Tree'
          /\ (h.kind = "dir") <=> (Tree'[h.path].kind = "dir")
      BY <1>1, <3>1 DEF Archived
    <3>3. h.kind # "dir" => h.path \in written'
      BY <1>4, <3>1 DEF Archived
    <3>4. Passed(h.path, stack')
      BY <3>1 DEF Archived
    <3> QED
      BY <3>2, <3>3, <3>4 DEF Archived
  <2>2. CASE h = Mark(p, kind, size)
    <3>1. h.path = p /\ h.kind = kind
      BY <2>2 DEF Mark
    <3>2. h.kind # "dir" => h.path \in written' \/ (bpc' = "body" /\ h.path = body'.path)
      BY <1>4, <3>1
    <3>3. /\ h.path \in DOMAIN Tree'
          /\ (h.kind = "dir") <=> (Tree'[h.path].kind = "dir")
      BY <1>1, <3>1
    <3> QED
      BY <3>1, <3>2, <3>3 DEF Archived
  <2> QED
    BY <1>2, <2>1, <2>2
<1> QED
  BY <1>2, <1>3, <1>4 DEF OnceInv

-----------------------------------------------------------------------------
(* The steps of the backup.                                                *)

\* The entries that readdir shows of a directory are its own, each once.
LEMMA ListsChildren ==
    ASSUME setup \in Setups, NEW d
    PROVE  IsList(Listed(d)) /\ \A p \in Range(Listed(d)) : Child(Tree, p, d)
<1> DEFINE S == {p \in DOMAIN Tree : Front(p) = d /\ ~Tree[p].hidden}
<1>1. IsTree(Tree)
  BY Trees
<1>2. IsFiniteSet(S)
  <2>1. S \in SUBSET DOMAIN Tree /\ IsFiniteSet(DOMAIN Tree)
    BY <1>1 DEF IsTree
  <2> QED
    BY <2>1, FS_Subset
<1>3. IsList(SetToSeq(S)) /\ Range(SetToSeq(S)) \subseteq S
  BY <1>2, SetListed
<1>4. ASSUME NEW p \in S PROVE Child(Tree, p, d)
  <2>1. p \in DOMAIN Tree /\ p \in Seq(Range(p)) /\ p # << >> /\ Front(p) = d
    BY <1>1, <1>4 DEF IsTree, Root
  <2>2. Len(p) \in Nat \ {0} /\ Len(Front(p)) = Len(p) - 1
    BY <2>1, Fronted
  <2> QED
    BY <2>1, <2>2 DEF Child
<1> QED
  BY <1>3, <1>4 DEF Listed

\* The directory is opened and its listing begins.
LEMMA OpenDirKeeps ==
    ASSUME IInv, OpenDir, setup' = setup
    PROVE  IInv'
<1> DEFINE d == Top.path
           f == [Top EXCEPT !.listing = Listed(d)]
<1>1. /\ setup \in Setups /\ bpc = "opendir" /\ bpc' = "readdir"
      /\ stack' = Append(Front(stack), f) /\ handles' = handles \cup {d}
      /\ UNCHANGED <<body, written, full, skipped, archive>>
  BY DEF IInv, OpenDir, Replace
<1>2. /\ Tree' = Tree /\ IsTree(Tree) /\ setup' \in Setups /\ setup'.capacity = setup.capacity
      /\ \A x : Fault(x)' <=> Fault(x)
  BY <1>1, Same
<1>3. IsStack(Tree, stack) /\ stack # << >> /\ Todo(Last(stack)) = {} /\ handles = {}
  BY <1>1 DEF IInv, WalkInv, Walking, Reading, Top
<1>4. /\ IsFrame(Tree, Last(stack)) /\ Len(stack) \in 1..Len(stack)
      /\ d \in Seq(Range(d)) /\ d = Last(stack).path
  BY <1>2, <1>3, OnTop DEF Top
<1>5. IsList(Listed(d)) /\ \A p \in Range(Listed(d)) : Child(Tree, p, d)
  BY <1>1, ListsChildren
<1>6. /\ f = [path |-> d, listing |-> Listed(d), entries |-> Last(stack).entries]
      /\ f.path = d /\ f.listing = Listed(d) /\ f.entries = Last(stack).entries
  BY <1>4 DEF IsFrame, Top
<1>7. Range(f.entries) = {} /\ Todo(f) = Range(Listed(d)) /\ IsList(f.entries)
  BY <1>3, <1>4, <1>6 DEF Todo, IsFrame
<1> HIDE DEF f
<1>8. IsFrame(Tree, f)
  BY <1>4, <1>5, <1>6, <1>7 DEF IsFrame
<1>9. IsStack(Tree, stack') /\ stack' # << >> /\ Last(stack') = f
  BY <1>1, <1>2, <1>3, <1>4, <1>6, <1>8, Replaced
<1>10. ASSUME Remembers, NEW h \in Heads(archive)
       PROVE  Passed(h.path, stack') /\ h.path # d
  <2> DEFINE q == h.path
  <2>1. /\ q \in DOMAIN Tree /\ Passed(q, stack)
        /\ \A n \in 0..Len(q) : SubSeq(q, 1, n) # d
    BY <1>1, <1>10 DEF IInv, OnceInv, Archived
  <2>2. q \in Seq(Range(q))
    BY <1>2, <2>1 DEF IsTree
  <2> HIDE DEF q
  <2>3. /\ Len(q) \in Nat /\ SubSeq(q, 1, Len(q)) = q
        /\ \A n \in 0..Len(q) : \A m \in 0..n : SubSeq(SubSeq(q, 1, n), 1, m) = SubSeq(q, 1, m)
        /\ \A n \in 0..Len(q) : Len(SubSeq(q, 1, n)) = n
    BY <2>2, Beginning
  <2>4. q # d
    BY <2>1, <2>3
  <2>5. ASSUME NEW n \in 0..Len(q), SubSeq(q, 1, n) \in Todo(f) PROVE FALSE
    <3> DEFINE x == SubSeq(q, 1, n)
    <3>1. Child(Tree, x, d)
      BY <1>5, <1>7, <2>5
    <3>2. Len(x) = Len(d) + 1 /\ Front(x) = d /\ Len(x) = n /\ Len(d) \in Nat
      BY <1>4, <2>3, <3>1, OverRange DEF Child
    <3>3. n - 1 \in 0..n /\ n - 1 \in 0..Len(q)
      BY <2>3, <3>2
    <3>4. d = SubSeq(q, 1, n - 1)
      BY <2>3, <3>2, <3>3 DEF Front
    <3> QED
      BY <2>1, <3>3, <3>4
  <2>6. Passed(q, stack')
    <3>1. /\ Len(stack') = Len(stack) /\ Len(stack) \in Nat \ {0}
          /\ \A k \in 1..(Len(stack) - 1) : stack'[k] = stack[k]
          /\ stack'[Len(stack)] = f
      <4>1. /\ Front(stack) \in Seq(Range(Front(stack))) /\ Len(Front(stack)) = Len(stack) - 1
            /\ \A i \in 1..(Len(stack) - 1) : Front(stack)[i] = stack[i]
            /\ Len(stack) \in Nat \ {0}
        BY <1>3, Fronted DEF IsStack
      <4>2. /\ Len(stack') = Len(stack) - 1 + 1 /\ stack'[Len(stack) - 1 + 1] = f
            /\ \A i \in 1..(Len(stack) - 1) : stack'[i] = Front(stack)[i]
        BY <1>1, <4>1, Appended
      <4> QED
        BY <4>1, <4>2
    <3>2. \A k \in 1..Len(stack) : k \in 1..(Len(stack) - 1) \/ k = Len(stack)
      BY <3>1
    <3> QED
      BY <2>1, <2>5, <3>1, <3>2 DEF Passed
  <2> QED
    BY <2>4, <2>6 DEF q
<1>11. OnceInv'
  <2>1. Remembers' <=> Remembers
    BY <1>1, <1>2 DEF Remembers
  <2>2. ASSUME Remembers, NEW h \in Heads(archive) PROVE Archived(h)'
    <3>1. Archived(h)
      BY <1>1, <2>2 DEF IInv, OnceInv
    <3>2. Passed(h.path, stack') /\ h.path # Last(stack').path
      BY <1>6, <1>9, <1>10, <2>2
    <3> QED
      BY <1>1, <1>2, <3>1, <3>2 DEF Archived, Top
  <2>3. Remembers => Distinct(archive)
    BY DEF IInv, OnceInv
  <2> QED
    BY <1>1, <2>1, <2>2, <2>3 DEF OnceInv
<1>12. WalkInv'
  BY <1>1, <1>2, <1>3, <1>6, <1>9 DEF IInv, WalkInv, Walking, Reading, Top
<1>13. CauseInv' /\ archive' \in Seq(Range(archive'))
  BY <1>1, <1>2 DEF IInv, CauseInv
<1> QED
  BY <1>2, <1>11, <1>12, <1>13 DEF IInv

\* The directory cannot be opened, for a reason; the one above goes on.
LEMMA OpenDirFailsKeeps ==
    ASSUME IInv, OpenDirFails, setup' = setup
    PROVE  IInv'
<1>1. /\ setup \in Setups /\ bpc = "opendir"
      /\ bpc' = IF Len(stack) > 1 THEN "entry" ELSE "failed"
      /\ stack' = Front(stack)
      /\ UNCHANGED <<handles, body, written, full, archive>>
  BY DEF IInv, OpenDirFails, Return
<1>2. /\ Tree' = Tree /\ IsTree(Tree) /\ setup' \in Setups /\ setup'.capacity = setup.capacity
      /\ \A x : Fault(x)' <=> Fault(x)
  BY <1>1, Same
<1>3. IsStack(Tree, stack) /\ stack # << >> /\ handles = {}
  BY <1>1 DEF IInv, WalkInv, Walking, Reading
<1>4. /\ IsStack(Tree, stack') /\ \A q : Passed(q, stack) => Passed(q, stack')
      /\ Len(stack) > 1 <=> stack' # << >>
  BY <1>1, <1>2, <1>3, Popped
<1>5. Fault("errno")
  <2>1. Cardinality(handles) = 0 /\ MaxHandles \in Nat \ {0}
    BY <1>3, FS_EmptySet, EfsConstants
  <2> QED
    BY <2>1 DEF OpenDirFails
<1>6. CauseInv' /\ archive' \in Seq(Range(archive'))
  BY <1>1, <1>2, <1>5 DEF IInv, CauseInv
<1>7. WalkInv'
  BY <1>1, <1>2, <1>3, <1>4 DEF IInv, WalkInv, Walking, Reading
<1>8. OnceInv'
  <2>1. ~Reading' /\ bpc' # "opendir" /\ (Remembers' => Remembers)
    BY <1>1, <1>2 DEF Reading, Remembers
  <2> QED
    BY <1>1, <1>4, <2>1, KeepsHeaders
<1> QED
  BY <1>2, <1>6, <1>7, <1>8 DEF IInv

\* An entry is read, or its stat fails.
LEMMA ReadDirKeeps ==
    ASSUME IInv, ReadDir, setup' = setup
    PROVE  IInv'
<1> DEFINE p == Head(Top.listing)
           f == [Top EXCEPT !.listing = Tail(@)]
           g == [f EXCEPT !.entries = Append(@, p)]
<1>1. /\ setup \in Setups /\ bpc = "readdir" /\ bpc' = "readdir" /\ Top.listing # << >>
      /\ \/ stack' = Append(Front(stack), g) /\ skipped' = skipped
         \/ stack' = Append(Front(stack), f) /\ Fault("errno")
      /\ UNCHANGED <<handles, body, written, full, archive>>
  BY DEF IInv, ReadDir, Replace
<1>2. /\ Tree' = Tree /\ IsTree(Tree) /\ setup' \in Setups /\ setup'.capacity = setup.capacity
      /\ \A x : Fault(x)' <=> Fault(x)
  BY <1>1, Same
<1>3. IsStack(Tree, stack) /\ stack # << >> /\ handles \subseteq {Last(stack).path}
  BY <1>1 DEF IInv, WalkInv, Walking, Reading, Top
<1>4. /\ IsFrame(Tree, Last(stack))
      /\ IsList(Last(stack).listing) /\ Last(stack).listing # << >>
  BY <1>1, <1>2, <1>3, OnTop DEF Top, IsFrame
<1>5. /\ IsList(Tail(Last(stack).listing)) /\ p \in Range(Last(stack).listing)
      /\ Range(Tail(Last(stack).listing)) = Range(Last(stack).listing) \ {p}
  BY <1>4, ListShrinks DEF Top
<1>6. /\ f = [path |-> Last(stack).path, listing |-> Tail(Last(stack).listing),
              entries |-> Last(stack).entries]
      /\ g = [path |-> Last(stack).path, listing |-> Tail(Last(stack).listing),
              entries |-> Append(Last(stack).entries, p)]
  <2> DEFINE e == Last(stack)
  <2>1. e = [path |-> e.path, listing |-> e.listing, entries |-> e.entries]
    BY <1>4 DEF IsFrame
  <2>2. /\ f = [e EXCEPT !.listing = Tail(e.listing)]
        /\ g = [f EXCEPT !.entries = Append(f.entries, p)]
    BY DEF Top
  <2> HIDE DEF e, f, g, p
  <2>3. f = [path |-> e.path, listing |-> Tail(e.listing), entries |-> e.entries]
    BY <2>1, <2>2
  <2>4. g = [path |-> e.path, listing |-> Tail(e.listing), entries |-> Append(e.entries, p)]
    BY <2>2, <2>3
  <2> QED
    BY <2>3, <2>4 DEF e
<1>7. p \notin Range(Last(stack).entries) /\ IsList(Last(stack).entries)
  BY <1>4, <1>5 DEF IsFrame
<1>8. /\ IsList(Append(Last(stack).entries, p))
      /\ Range(Append(Last(stack).entries, p)) = Range(Last(stack).entries) \cup {p}
  BY <1>7, ListGrows
<1> HIDE DEF f, g, p
<1>9. /\ IsFrame(Tree, f) /\ f.path = Last(stack).path /\ Todo(f) \subseteq Todo(Last(stack))
      /\ IsFrame(Tree, g) /\ g.path = Last(stack).path /\ Todo(g) \subseteq Todo(Last(stack))
  BY <1>4, <1>5, <1>6, <1>7, <1>8 DEF IsFrame, Todo
<1>10. /\ IsStack(Tree, stack') /\ stack' # << >> /\ Last(stack').path = Last(stack).path
       /\ \A q : Passed(q, stack) => Passed(q, stack')
  <2>1. PICK e : stack' = Append(Front(stack), e) /\ e \in {f, g}
    BY <1>1
  <2>2. IsFrame(Tree, e) /\ e.path = Last(stack).path /\ Todo(e) \subseteq Todo(Last(stack))
    BY <1>9, <2>1
  <2> QED
    BY <1>2, <1>3, <2>1, <2>2, Replaced
<1>11. WalkInv'
  BY <1>1, <1>2, <1>3, <1>10 DEF IInv, WalkInv, Walking, Reading, Top
<1>12. CauseInv' /\ archive' \in Seq(Range(archive'))
  BY <1>1, <1>2 DEF IInv, CauseInv
<1>13. OnceInv'
  <2>1. Remembers' => Remembers /\ written \subseteq written'
    BY <1>1, <1>2 DEF Remembers
  <2>2. \A h \in Heads(archive) : Archived(h) => h.path # Last(stack').path
    BY <1>1, <1>10 DEF Archived, Reading, Top
  <2> QED
    BY <1>1, <1>10, <2>1, <2>2, KeepsHeaders
<1> QED
  BY <1>2, <1>11, <1>12, <1>13 DEF IInv

\* The listing ends.
LEMMA ReadDirEndsKeeps ==
    ASSUME IInv, ReadDirEnds, setup' = setup
    PROVE  IInv'
<1> DEFINE f == [Top EXCEPT !.listing = << >>]
<1>1. /\ setup \in Setups /\ bpc = "readdir" /\ bpc' = "closedir"
      /\ stack' = Append(Front(stack), f)
      /\ UNCHANGED <<handles, body, written, full, archive>>
  BY DEF IInv, ReadDirEnds, Replace
<1>2. /\ Tree' = Tree /\ IsTree(Tree) /\ setup' \in Setups /\ setup'.capacity = setup.capacity
      /\ \A x : Fault(x)' <=> Fault(x)
  BY <1>1, Same
<1>3. IsStack(Tree, stack) /\ stack # << >> /\ handles \subseteq {Last(stack).path}
  BY <1>1 DEF IInv, WalkInv, Walking, Reading, Top
<1>4. IsFrame(Tree, Last(stack))
  BY <1>1, <1>2, <1>3, OnTop
<1>5. f = [path |-> Last(stack).path, listing |-> << >>, entries |-> Last(stack).entries]
  BY <1>4 DEF IsFrame, Top
<1>6. IsList(<< >>) /\ Range(<< >>) = {}
  BY EmptySeq DEF IsList, Range, IsInjective
<1> HIDE DEF f
<1>7. IsFrame(Tree, f) /\ f.path = Last(stack).path /\ Todo(f) \subseteq Todo(Last(stack))
  BY <1>4, <1>5, <1>6 DEF IsFrame, Todo
<1>8. /\ IsStack(Tree, stack') /\ stack' # << >> /\ Last(stack') = f
      /\ \A q : Passed(q, stack) => Passed(q, stack')
  BY <1>1, <1>2, <1>3, <1>7, Replaced
<1>9. skipped' = skipped \/ Fault("errno")
  <2>1. CASE Top.listing = << >>
    <3>1. Range(Top.listing) = {}
      BY <1>6, <2>1
    <3> QED
      BY <3>1 DEF ReadDirEnds
  <2> QED
    BY <2>1 DEF ReadDirEnds
<1>10. WalkInv'
  BY <1>1, <1>2, <1>3, <1>7, <1>8 DEF IInv, WalkInv, Walking, Reading, Top
<1>11. CauseInv' /\ archive' \in Seq(Range(archive'))
  BY <1>1, <1>2, <1>9 DEF IInv, CauseInv
<1>12. OnceInv'
  <2>1. Remembers' => Remembers /\ written \subseteq written'
    BY <1>1, <1>2 DEF Remembers
  <2>2. \A h \in Heads(archive) : Archived(h) => h.path # Last(stack').path
    BY <1>1, <1>7, <1>8 DEF Archived, Reading, Top
  <2> QED
    BY <1>1, <1>8, <2>1, <2>2, KeepsHeaders
<1> QED
  BY <1>2, <1>10, <1>11, <1>12 DEF IInv

\* The directory is closed and its header written, or its stat fails.
LEMMA CloseDirKeeps ==
    ASSUME IInv, CloseDir, setup' = setup
    PROVE  IInv'
<1> DEFINE d == Last(stack).path
<1>1. /\ setup \in Setups /\ bpc = "closedir" /\ bpc' = "entry"
      /\ handles' = handles \ {d}
      /\ UNCHANGED <<stack, body, written, full>>
      /\ \/ d # Root /\ Write(Header(d, "dir", 0)) /\ skipped' = skipped
         \/ archive' = archive /\ (skipped' = skipped \/ Fault("errno"))
  BY DEF IInv, CloseDir, Top
<1>2. /\ Tree' = Tree /\ IsTree(Tree) /\ setup' \in Setups /\ setup'.capacity = setup.capacity
      /\ \A x : Fault(x)' <=> Fault(x)
  BY <1>1, Same
<1>3. IsStack(Tree, stack) /\ stack # << >> /\ handles \subseteq {d}
  BY <1>1 DEF IInv, WalkInv, Walking, Reading, Top
<1>4. IsFrame(Tree, Last(stack)) /\ Passed(d, stack)
  BY <1>1, <1>2, <1>3, OnTop, PassedHere
<1>5. WalkInv'
  BY <1>1, <1>2, <1>3 DEF IInv, WalkInv, Walking, Reading
<1>6. CauseInv'
  BY <1>1, <1>2 DEF IInv, CauseInv
<1>7. ~Reading' /\ (Remembers' => Remembers /\ written \subseteq written')
  BY <1>1, <1>2 DEF Reading, Remembers
<1>8. OnceInv' /\ archive' \in Seq(Range(archive'))
  <2>1. CASE d # Root /\ Write(Header(d, "dir", 0))
    <3>1. d \in DOMAIN Tree /\ Tree[d].kind = "dir"
      BY <1>4, <2>1 DEF IsFrame
    <3>2. \A h \in Heads(archive) : Archived(h) => h.path # d
      BY <1>1 DEF Archived, Reading, Top
    <3> HIDE DEF d
    <3> QED
      BY <1>1, <1>4, <1>7, <2>1, <3>1, <3>2, AddsHeader
  <2>2. CASE archive' = archive
    <3>1. OnceInv'
      BY <1>1, <1>7, <2>2, KeepsHeaders
    <3> QED
      BY <2>2, <3>1 DEF IInv
  <2> QED
    BY <1>1, <2>1, <2>2
<1> QED
  BY <1>2, <1>5, <1>6, <1>8 DEF IInv

\* The next entry of the directory on top is taken: it is a path of its own,
\* below what was archived, and what is left of the directory is as before.
LEMMA Taken ==
    ASSUME IInv, bpc = "entry", Top.entries # << >>,
           NEW f, f = [Top EXCEPT !.entries = Tail(@)]
    PROVE  LET p == Head(Top.entries)
               new == Append(Front(stack), f)
           IN  /\ Child(Tree, p, f.path) /\ p \notin Todo(f)
               /\ IsStack(Tree, new) /\ new # << >> /\ Last(new) = f
               /\ \A q : Passed(q, stack) => Passed(q, new)
               /\ Passed(p, new)
               /\ \A h \in Heads(archive) :
                     Archived(h) => \A n \in 0..Len(h.path) : SubSeq(h.path, 1, n) # p
<1> DEFINE p == Head(Top.entries)
           new == Append(Front(stack), f)
           e == Last(stack)
<1>1. IsTree(Tree) /\ IsStack(Tree, stack) /\ stack # << >>
  BY Trees DEF IInv, WalkInv, Walking
<1>2. /\ IsFrame(Tree, e) /\ Len(stack) \in 1..Len(stack) /\ e = stack[Len(stack)]
  BY <1>1, OnTop
<1>3. IsList(e.entries) /\ e.entries # << >> /\ p = Head(e.entries)
  BY <1>2 DEF IsFrame, Top
<1>4. /\ IsList(Tail(e.entries)) /\ p \in Range(e.entries)
      /\ Range(Tail(e.entries)) = Range(e.entries) \ {p}
  BY <1>3, ListShrinks
<1>5. f = [path |-> e.path, listing |-> e.listing, entries |-> Tail(e.entries)]
  <2>1. e = [path |-> e.path, listing |-> e.listing, entries |-> e.entries]
    BY <1>2 DEF IsFrame
  <2>2. f = [e EXCEPT !.entries = Tail(e.entries)]
    BY DEF Top
  <2> HIDE DEF e
  <2> QED
    BY <2>1, <2>2
<1> HIDE DEF p, e
<1>6. f.path = e.path /\ f.listing = e.listing /\ f.entries = Tail(e.entries)
  BY <1>5
<1>7. /\ IsFrame(Tree, f) /\ Todo(f) \subseteq Todo(e)
      /\ p \in Todo(e) /\ p \notin Todo(f) /\ Child(Tree, p, f.path)
  BY <1>2, <1>4, <1>5, <1>6 DEF IsFrame, Todo
<1>8. /\ IsStack(Tree, new) /\ new # << >> /\ Last(new) = f
      /\ \A q : Passed(q, stack) => Passed(q, new)
  <2>1. IsFrame(Tree, f) /\ f.path = Last(stack).path /\ Todo(f) \subseteq Todo(Last(stack))
    BY <1>6, <1>7 DEF e
  <2>2. ASSUME NEW g, IsFrame(Tree, g), g.path = Last(stack).path
        PROVE  /\ IsStack(Tree, Append(Front(stack), g)) /\ Append(Front(stack), g) # << >>
               /\ Last(Append(Front(stack), g)) = g
    BY <1>1, <2>2, Replaced
  <2>3. \A q : Passed(q, stack) => Passed(q, Append(Front(stack), f))
    BY <1>1, <2>1, Replaced
  <2> QED
    BY <2>1, <2>2, <2>3
<1>9. Passed(p, new)
  BY <1>1, <1>7, <1>8, PassedHere
<1>10. ASSUME NEW h \in Heads(archive), Archived(h), NEW n \in 0..Len(h.path)
       PROVE  SubSeq(h.path, 1, n) # p
  BY <1>2, <1>7, <1>10 DEF Archived, Passed
<1> QED
  BY <1>7, <1>8, <1>9, <1>10 DEF p

\* A path is not archived if no path that begins with it is.
LEMMA NotArchived ==
    ASSUME IInv, NEW p, NEW h, Archived(h), \A n \in 0..Len(h.path) : SubSeq(h.path, 1, n) # p
    PROVE  h.path # p
<1>1. h.path \in Seq(Range(h.path))
  BY Trees DEF IInv, Archived, IsTree
<1>2. Len(h.path) \in 0..Len(h.path) /\ SubSeq(h.path, 1, Len(h.path)) = h.path
  BY <1>1, Beginning
<1> QED
  BY <1>2

\* A directory is entered.
LEMMA EnterDirKeeps ==
    ASSUME IInv, EnterDir, setup' = setup
    PROVE  IInv'
<1> DEFINE p == Head(Top.entries)
           f == [Top EXCEPT !.entries = Tail(@)]
           new == Append(Front(stack), f)
<1>1. /\ setup \in Setups /\ bpc = "entry" /\ bpc' = "opendir" /\ Top.entries # << >>
      /\ Tree[p].kind = "dir"
      /\ stack' = Front(stack) \o << f, Frame(p) >>
      /\ UNCHANGED <<handles, body, written, full, skipped, archive>>
  BY DEF IInv, EnterDir, NextEntry
<1>2. /\ Tree' = Tree /\ IsTree(Tree) /\ setup' \in Setups /\ setup'.capacity = setup.capacity
      /\ \A x : Fault(x)' <=> Fault(x)
  BY <1>1, Same
<1>3. handles = {} /\ stack \in Seq(Range(stack)) /\ stack # << >>
  BY <1>1 DEF IInv, WalkInv, Walking, Reading, IsStack
<1>4. /\ Child(Tree, p, f.path) /\ p \notin Todo(f)
      /\ IsStack(Tree, new) /\ new # << >> /\ Last(new) = f
      /\ \A q : Passed(q, stack) => Passed(q, new)
      /\ \A h \in Heads(archive) :
            Archived(h) => \A n \in 0..Len(h.path) : SubSeq(h.path, 1, n) # p
  BY <1>1, Taken
<1>5. stack' = Append(new, Frame(p))
  <2>1. Front(stack) \in Seq(Range(Front(stack)))
    BY <1>3, Fronted
  <2> DEFINE s == Front(stack)
             S == Range(s) \cup {f, Frame(p)}
  <2>2. s \in Seq(S) /\ f \in S /\ Frame(p) \in S
    BY <2>1, SeqMonotonic
  <2> HIDE DEF s, S, f
  <2>3. s \o << f, Frame(p) >> = Append(Append(s, f), Frame(p))
    BY <2>2
  <2> QED
    BY <1>1, <2>3 DEF s, f
<1> HIDE DEF p, f, new
<1>6. /\ IsStack(Tree, stack') /\ stack' # << >> /\ Last(stack') = Frame(p)
      /\ \A q : Passed(q, new) => Passed(q, stack')
  BY <1>1, <1>2, <1>4, <1>5, Entered
<1>7. Last(stack').path = p /\ Todo(Last(stack')) = {}
  <2>1. Range(<< >>) = {}
    BY EmptySeq DEF Range
  <2> QED
    BY <1>6, <2>1 DEF Frame, Todo
<1>8. WalkInv'
  BY <1>1, <1>2, <1>3, <1>6, <1>7 DEF IInv, WalkInv, Walking, Reading, Top
<1>9. CauseInv' /\ archive' \in Seq(Range(archive'))
  BY <1>1, <1>2 DEF IInv, CauseInv
<1>10. OnceInv'
  <2>1. ~Reading' /\ (Remembers' => Remembers /\ written \subseteq written')
    BY <1>1, <1>2 DEF Reading, Remembers
  <2>2. \A q : Passed(q, stack) => Passed(q, stack')
    BY <1>4, <1>6
  <2> QED
    BY <1>1, <1>4, <1>7, <2>1, <2>2, KeepsHeaders
<1> QED
  BY <1>2, <1>8, <1>9, <1>10 DEF IInv

\* A link is archived and remembered.
LEMMA CopyLinkKeeps ==
    ASSUME IInv, CopyLink, setup' = setup
    PROVE  IInv'
<1> DEFINE p == Head(Top.entries)
           f == [Top EXCEPT !.entries = Tail(@)]
<1>1. /\ setup \in Setups /\ bpc = "entry" /\ bpc' = "entry" /\ Top.entries # << >>
      /\ Tree[p].kind = "link" /\ Write(Header(p, "link", 0)) /\ Track(p)
      /\ stack' = Append(Front(stack), f)
      /\ UNCHANGED <<handles, body, full, skipped>>
  BY DEF IInv, CopyLink, NextEntry, Replace
<1>2. /\ Tree' = Tree /\ IsTree(Tree) /\ setup' \in Setups /\ setup'.capacity = setup.capacity
      /\ \A x : Fault(x)' <=> Fault(x)
  BY <1>1, Same
<1>3. handles = {}
  BY <1>1 DEF IInv, WalkInv, Reading
<1>4. /\ p \in DOMAIN Tree /\ Passed(p, stack')
      /\ IsStack(Tree, stack') /\ stack' # << >>
      /\ \A q : Passed(q, stack) => Passed(q, stack')
      /\ \A h \in Heads(archive) :
            Archived(h) => \A n \in 0..Len(h.path) : SubSeq(h.path, 1, n) # p
  BY <1>1, Taken DEF Child
<1> HIDE DEF p, f
<1>5. /\ written' \subseteq DOMAIN Tree /\ Cardinality(written') <= setup.capacity
      /\ Remembers' => Remembers /\ written' = written \cup {p}
  BY <1>1, <1>4, Tracked
<1>6. WalkInv'
  BY <1>1, <1>2, <1>3, <1>4, <1>5 DEF IInv, WalkInv, Walking, Reading
<1>7. CauseInv'
  BY <1>1, <1>2 DEF IInv, CauseInv
<1>8. OnceInv' /\ archive' \in Seq(Range(archive'))
  <2>1. ~Reading' /\ \A h \in Heads(archive) : Archived(h) => h.path # p
    BY <1>1, <1>4, NotArchived DEF Reading
  <2> QED
    BY <1>1, <1>4, <1>5, <2>1, AddsHeader
<1> QED
  BY <1>2, <1>6, <1>7, <1>8 DEF IInv

\* A file is opened, and its header written.
LEMMA OpenFileKeeps ==
    ASSUME IInv, OpenFile, setup' = setup
    PROVE  IInv'
<1> DEFINE p == Head(Top.entries)
           f == [Top EXCEPT !.entries = Tail(@)]
<1>1. /\ setup \in Setups /\ bpc = "entry" /\ bpc' = "body" /\ Top.entries # << >>
      /\ Tree[p].kind = "file" /\ Write(Header(p, "file", Tree[p].size))
      /\ body' = [path |-> p, size |-> Tree[p].size, got |-> 0, ended |-> Tree[p].size = 0]
      /\ stack' = Append(Front(stack), f)
      /\ UNCHANGED <<handles, written, full, skipped>>
  BY DEF IInv, OpenFile, NextEntry, Replace, StartCopy
<1>2. /\ Tree' = Tree /\ IsTree(Tree) /\ setup' \in Setups /\ setup'.capacity = setup.capacity
      /\ \A x : Fault(x)' <=> Fault(x)
  BY <1>1, Same
<1>3. handles = {}
  BY <1>1 DEF IInv, WalkInv, Reading
<1>4. /\ p \in DOMAIN Tree /\ Passed(p, stack')
      /\ IsStack(Tree, stack') /\ stack' # << >>
      /\ \A q : Passed(q, stack) => Passed(q, stack')
      /\ \A h \in Heads(archive) :
            Archived(h) => \A n \in 0..Len(h.path) : SubSeq(h.path, 1, n) # p
  BY <1>1, Taken DEF Child
<1>5. /\ body'.path = p /\ body'.size \in Nat /\ body'.got \in 0..body'.size
      /\ ~body'.ended => body'.got < body'.size
  <2>1. Tree[p].size \in Nat
    BY <1>2, <1>4 DEF IsTree
  <2>2. body'.path = p /\ body'.size = Tree[p].size /\ body'.got = 0
    BY <1>1
  <2>3. ~body'.ended => Tree[p].size # 0
    BY <1>1
  <2> QED
    BY <2>1, <2>2, <2>3
<1> HIDE DEF p, f
<1>6. WalkInv'
  BY <1>1, <1>2, <1>3, <1>4, <1>5 DEF IInv, WalkInv, Walking, Reading
<1>7. CauseInv'
  BY <1>1, <1>2 DEF IInv, CauseInv
<1>8. OnceInv' /\ archive' \in Seq(Range(archive'))
  <2>1. ~Reading' /\ \A h \in Heads(archive) : Archived(h) => h.path # p
    BY <1>1, <1>4, NotArchived DEF Reading
  <2>2. Remembers' => Remembers /\ written \subseteq written'
    BY <1>1, <1>2 DEF Remembers
  <2> QED
    BY <1>1, <1>4, <1>5, <2>1, <2>2, AddsHeader
<1> QED
  BY <1>2, <1>6, <1>7, <1>8 DEF IInv

\* An entry is left out, for a reason.
LEMMA EntryFailsKeeps ==
    ASSUME IInv, EntryFails, setup' = setup
    PROVE  IInv'
<1> DEFINE f == [Top EXCEPT !.entries = Tail(@)]
<1>1. /\ setup \in Setups /\ bpc = "entry" /\ bpc' = "entry" /\ Top.entries # << >>
      /\ Fault("errno") /\ stack' = Append(Front(stack), f)
      /\ UNCHANGED <<handles, body, written, full, archive>>
  BY DEF IInv, EntryFails, NextEntry, Replace
<1>2. /\ Tree' = Tree /\ IsTree(Tree) /\ setup' \in Setups /\ setup'.capacity = setup.capacity
      /\ \A x : Fault(x)' <=> Fault(x)
  BY <1>1, Same
<1>3. handles = {}
  BY <1>1 DEF IInv, WalkInv, Reading
<1>4. /\ IsStack(Tree, stack') /\ stack' # << >>
      /\ \A q : Passed(q, stack) => Passed(q, stack')
  BY <1>1, Taken
<1>5. WalkInv'
  BY <1>1, <1>2, <1>3, <1>4 DEF IInv, WalkInv, Walking, Reading
<1>6. CauseInv' /\ archive' \in Seq(Range(archive'))
  BY <1>1, <1>2 DEF IInv, CauseInv
<1>7. OnceInv'
  <2>1. ~Reading' /\ (Remembers' => Remembers /\ written \subseteq written')
    BY <1>1, <1>2 DEF Reading, Remembers
  <2> QED
    BY <1>1, <1>4, <2>1, KeepsHeaders
<1> QED
  BY <1>2, <1>5, <1>6, <1>7 DEF IInv

\* The directory is done with.
LEMMA LeaveDirKeeps ==
    ASSUME IInv, LeaveDir, setup' = setup
    PROVE  IInv'
<1>1. /\ setup \in Setups /\ bpc = "entry"
      /\ bpc' = IF Len(stack) > 1 THEN "entry" ELSE "probe"
      /\ stack' = Front(stack)
      /\ UNCHANGED <<handles, body, written, full, skipped, archive>>
  BY DEF IInv, LeaveDir, Return
<1>2. /\ Tree' = Tree /\ IsTree(Tree) /\ setup' \in Setups /\ setup'.capacity = setup.capacity
      /\ \A x : Fault(x)' <=> Fault(x)
  BY <1>1, Same
<1>3. IsStack(Tree, stack) /\ stack # << >> /\ handles = {}
  BY <1>1 DEF IInv, WalkInv, Walking, Reading
<1>4. /\ IsStack(Tree, stack') /\ \A q : Passed(q, stack) => Passed(q, stack')
      /\ Len(stack) > 1 <=> stack' # << >>
  BY <1>1, <1>2, <1>3, Popped
<1>5. CauseInv' /\ archive' \in Seq(Range(archive'))
  BY <1>1, <1>2 DEF IInv, CauseInv
<1>6. WalkInv'
  BY <1>1, <1>2, <1>3, <1>4 DEF IInv, WalkInv, Walking, Reading
<1>7. OnceInv'
  <2>1. ~Reading' /\ bpc' # "opendir" /\ (Remembers' => Remembers /\ written \subseteq written')
    BY <1>1, <1>2 DEF Reading, Remembers
  <2> QED
    BY <1>1, <1>4, <2>1, KeepsHeaders
<1> QED
  BY <1>2, <1>5, <1>6, <1>7 DEF IInv

\* The lesser of two numbers.
LEMMA Lesser ==
    ASSUME NEW a \in Nat, NEW b \in Nat
    PROVE  Min({a, b}) \in Nat /\ Min({a, b}) <= a /\ Min({a, b}) <= b
<1>1. \E x \in {a, b} : \A y \in {a, b} : x <= y
  <2>1. CASE a <= b
    BY <2>1
  <2>2. CASE b <= a
    BY <2>2
  <2> QED
    BY <2>1, <2>2
<1>2. Min({a, b}) \in {a, b} /\ \A y \in {a, b} : Min({a, b}) <= y
  BY <1>1 DEF Min
<1> QED
  BY <1>2

\* A part of the file is copied.
LEMMA CopyUnitsKeeps ==
    ASSUME IInv, CopyUnits, setup' = setup
    PROVE  IInv'
<1>1. /\ setup \in Setups /\ bpc = "body" /\ bpc' = "body" /\ ~body.ended
      /\ UNCHANGED <<stack, handles, written, full, skipped>>
  BY DEF IInv, CopyUnits
<1>2. /\ Tree' = Tree /\ IsTree(Tree) /\ setup' \in Setups /\ setup'.capacity = setup.capacity
      /\ \A x : Fault(x)' <=> Fault(x)
  BY <1>1, Same
<1>3. body.size \in Nat /\ body.got \in 0..body.size /\ body.got < body.size
  BY <1>1 DEF IInv, WalkInv
<1>4. PICK n \in 1..Min({EFS_MAX_READ_REQ, body.size - body.got}) :
         /\ Write(SubSeq(Content(body.path, body.size), body.got + 1, body.got + n))
         /\ body' = [body EXCEPT !.got = @ + n, !.ended = full \/ body.got + n = body.size]
  BY DEF CopyUnits
<1>5. n \in Nat /\ n >= 1 /\ body.got + n <= body.size /\ body.got \in Nat
  <2>1. EFS_MAX_READ_REQ \in Nat /\ body.size - body.got \in Nat
    BY <1>3, EfsConstants
  <2> DEFINE m == Min({EFS_MAX_READ_REQ, body.size - body.got})
  <2>2. m \in Nat /\ m <= body.size - body.got
    BY <2>1, Lesser
  <2>3. n \in 1..m
    OBVIOUS
  <2> HIDE DEF m
  <2>4. n \in Nat /\ n >= 1 /\ n <= body.size - body.got
    BY <2>1, <2>2, <2>3
  <2> QED
    BY <1>3, <2>4
<1>6. /\ archive' \in Seq(Range(archive')) /\ Heads(archive') \subseteq Heads(archive)
      /\ Distinct(archive) => Distinct(archive')
  <2> DEFINE u == SubSeq(Content(body.path, body.size), body.got + 1, body.got + n)
  <2>1. body.got + 1 \in 1..(body.size + 1) /\ body.got + n \in 0..body.size
    BY <1>3, <1>5
  <2>2. u \in Seq(Range(u)) /\ Heads(u) = {} /\ Distinct(u)
    BY <1>3, <2>1, ContentHeadless
  <2> HIDE DEF u
  <2>3. Write(u)
    BY <1>4 DEF u
  <2> QED
    BY <2>2, <2>3, WriteHeadless DEF IInv
<1>7. /\ body'.path = body.path /\ body'.size = body.size /\ body'.got = body.got + n
      /\ ~body'.ended => body.got + n # body.size
      /\ body' = [path |-> body'.path, size |-> body'.size, got |-> body'.got,
                  ended |-> body'.ended]
  <2>1. body = [path |-> body.path, size |-> body.size, got |-> body.got, ended |-> body.ended]
    BY <1>1 DEF IInv, WalkInv
  <2>2. body' = [path |-> body.path, size |-> body.size, got |-> body.got + n,
                 ended |-> full \/ body.got + n = body.size]
    BY <1>4, <2>1
  <2> QED
    BY <2>2
<1>8. WalkInv'
  <2>1. body'.got \in 0..body'.size /\ (~body'.ended => body'.got < body'.size)
    <3>1. body.got + n \in 0..body.size
      BY <1>3, <1>5
    <3>2. body.got + n # body.size => body.got + n < body.size
      BY <1>3, <1>5
    <3> QED
      BY <1>7, <3>1, <3>2
  <2> QED
    BY <1>1, <1>2, <1>7, <2>1 DEF IInv, WalkInv, Walking, Reading
<1>9. CauseInv'
  BY <1>1, <1>2 DEF IInv, CauseInv
<1>10. OnceInv'
  <2>1. ~Reading' /\ (Remembers' => Remembers /\ written \subseteq written')
    BY <1>1, <1>2 DEF Reading, Remembers
  <2> QED
    BY <1>1, <1>6, <1>7, <2>1, KeepsHeaders
<1> QED
  BY <1>2, <1>6, <1>8, <1>9, <1>10 DEF IInv

\* The read fails.
LEMMA CopyFailsKeeps ==
    ASSUME IInv, CopyFails, setup' = setup
    PROVE  IInv'
<1>1. /\ setup \in Setups /\ bpc = "body" /\ bpc' = "body"
      /\ body' = [body EXCEPT !.ended = TRUE]
      /\ UNCHANGED <<stack, handles, written, full, skipped, archive>>
  BY DEF IInv, CopyFails
<1>2. /\ Tree' = Tree /\ IsTree(Tree) /\ setup' \in Setups /\ setup'.capacity = setup.capacity
      /\ \A x : Fault(x)' <=> Fault(x)
  BY <1>1, Same
<1>3. body'.path = body.path /\ body'.size = body.size /\ body'.got = body.got /\ body'.ended
  <2>1. body = [path |-> body.path, size |-> body.size, got |-> body.got, ended |-> body.ended]
    BY <1>1 DEF IInv, WalkInv
  <2> QED
    BY <1>1, <2>1
<1>4. WalkInv'
  BY <1>1, <1>2, <1>3 DEF IInv, WalkInv, Walking, Reading
<1>5. CauseInv' /\ archive' \in Seq(Range(archive'))
  BY <1>1, <1>2 DEF IInv, CauseInv
<1>6. OnceInv'
  <2>1. ~Reading' /\ (Remembers' => Remembers /\ written \subseteq written')
    BY <1>1, <1>2 DEF Reading, Remembers
  <2> QED
    BY <1>1, <1>3, <2>1, KeepsHeaders
<1> QED
  BY <1>2, <1>4, <1>5, <1>6 DEF IInv

\* The file ends: its last block is filled, and its path remembered.
LEMMA FinishCopyKeeps ==
    ASSUME IInv, FinishCopy, setup' = setup
    PROVE  IInv'
<1>1. /\ setup \in Setups /\ bpc = "body"
      /\ bpc' = IF stack = << >> THEN "probe" ELSE "entry"
      /\ Write(Padding(body.size)) /\ Track(body.path)
      /\ UNCHANGED <<stack, handles, full, skipped>>
  BY DEF IInv, FinishCopy
<1>2. /\ Tree' = Tree /\ IsTree(Tree) /\ setup' \in Setups /\ setup'.capacity = setup.capacity
      /\ \A x : Fault(x)' <=> Fault(x)
  BY <1>1, Same
<1>3. body.size \in Nat /\ body.path \in DOMAIN Tree
  BY <1>1 DEF IInv, WalkInv
<1>4. /\ archive' \in Seq(Range(archive')) /\ Heads(archive') \subseteq Heads(archive)
      /\ Distinct(archive) => Distinct(archive')
  <2> DEFINE u == Padding(body.size)
  <2>1. u \in Seq(Range(u)) /\ Heads(u) = {} /\ Distinct(u)
    BY <1>3, PaddingHeadless
  <2> HIDE DEF u
  <2>2. Write(u)
    BY <1>1 DEF u
  <2> QED
    BY <2>1, <2>2, WriteHeadless DEF IInv
<1>5. /\ written' \subseteq DOMAIN Tree /\ Cardinality(written') <= setup.capacity
      /\ Remembers' => Remembers /\ written' = written \cup {body.path}
  BY <1>1, <1>3, Tracked
<1>6. WalkInv'
  BY <1>1, <1>2, <1>5 DEF IInv, WalkInv, Walking, Reading
<1>7. CauseInv'
  BY <1>1, <1>2 DEF IInv, CauseInv
<1>8. OnceInv'
  <2>1. ~Reading' /\ bpc' # "opendir"
    BY <1>1 DEF Reading
  <2> QED
    BY <1>1, <1>4, <1>5, <2>1, KeepsHeaders
<1> QED
  BY <1>2, <1>4, <1>6, <1>7, <1>8 DEF IInv

\* A path that is probed is not wanted, or left out for a reason.
LEMMA ProbeSkipsKeeps ==
    ASSUME IInv, ProbeSkips, setup' = setup
    PROVE  IInv'
<1>1. /\ setup \in Setups /\ bpc = "probe" /\ bpc' = "probe"
      /\ skipped' = skipped \/ Fault("errno")
      /\ UNCHANGED <<stack, handles, body, written, full, archive>>
  BY DEF IInv, ProbeSkips
<1>2. /\ Tree' = Tree /\ IsTree(Tree) /\ setup' \in Setups /\ setup'.capacity = setup.capacity
      /\ \A x : Fault(x)' <=> Fault(x)
  BY <1>1, Same
<1>3. WalkInv'
  BY <1>1, <1>2 DEF IInv, WalkInv, Walking, Reading
<1>4. CauseInv' /\ archive' \in Seq(Range(archive'))
  BY <1>1, <1>2 DEF IInv, CauseInv
<1>5. OnceInv'
  <2>1. ~Reading' /\ (Remembers' => Remembers /\ written \subseteq written')
    BY <1>1, <1>2 DEF Reading, Remembers
  <2> QED
    BY <1>1, <2>1, KeepsHeaders
<1> QED
  BY <1>2, <1>3, <1>4, <1>5 DEF IInv

\* A path that is not in the path_set is copied: while the set has room, it
\* was not archived.
LEMMA ProbeFileKeeps ==
    ASSUME IInv, ProbeFile, setup' = setup
    PROVE  IInv'
<1> DEFINE p == Head(probe)
<1>1. /\ setup \in Setups /\ bpc = "probe" /\ bpc' = "body"
      /\ p \notin written /\ p \in DOMAIN Tree /\ Tree[p].kind # "dir"
      /\ Write(Header(p, "file", Tree[p].size))
      /\ body' = [path |-> p, size |-> Tree[p].size, got |-> 0, ended |-> Tree[p].size = 0]
      /\ UNCHANGED <<stack, handles, written, full, skipped>>
  BY DEF IInv, ProbeFile, Wanted, StartCopy
<1> HIDE DEF p
<1>2. /\ Tree' = Tree /\ IsTree(Tree) /\ setup' \in Setups /\ setup'.capacity = setup.capacity
      /\ \A x : Fault(x)' <=> Fault(x)
  BY <1>1, Same
<1>3. stack = << >> /\ handles = {} /\ IsStack(Tree, stack)
  BY <1>1 DEF IInv, WalkInv, Reading
<1>4. /\ body'.path = p /\ body'.size \in Nat /\ body'.got \in 0..body'.size
      /\ ~body'.ended => body'.got < body'.size
  <2>1. Tree[p].size \in Nat
    BY <1>1, <1>2 DEF IsTree
  <2>2. body'.path = p /\ body'.size = Tree[p].size /\ body'.got = 0
    BY <1>1
  <2>3. ~body'.ended => Tree[p].size # 0
    BY <1>1
  <2> QED
    BY <2>1, <2>2, <2>3
<1>5. body' = [path |-> body'.path, size |-> body'.size, got |-> body'.got, ended |-> body'.ended]
  BY <1>1
<1>6. WalkInv'
  BY <1>1, <1>2, <1>3, <1>4, <1>5 DEF IInv, WalkInv, Walking, Reading
<1>7. CauseInv'
  BY <1>1, <1>2 DEF IInv, CauseInv
<1>8. OnceInv' /\ archive' \in Seq(Range(archive'))
  <2>1. ~Reading' /\ \A h \in Heads(archive) : Archived(h) => h.path # p
    BY <1>1 DEF Reading, Archived
  <2>2. Remembers' => Remembers /\ written \subseteq written'
    BY <1>1, <1>2 DEF Remembers
  <2>3. Passed(p, stack')
    BY <1>1, <1>3, EmptySeq DEF Passed
  <2> QED
    BY <1>1, <1>4, <2>1, <2>2, <2>3, AddsHeader
<1> QED
  BY <1>2, <1>6, <1>7, <1>8 DEF IInv

\* The archive ends; this write is looked at.
LEMMA EndArchiveKeeps ==
    ASSUME IInv, EndArchive, setup' = setup
    PROVE  IInv'
<1>1. /\ setup \in Setups /\ bpc = "probe" /\ bpc' = IF full THEN "failed" ELSE "done"
      /\ Write(Zeros(2 * BLOCK))
      /\ UNCHANGED <<stack, handles, body, written, full, skipped>>
  BY DEF IInv, EndArchive
<1>2. /\ Tree' = Tree /\ IsTree(Tree) /\ setup' \in Setups /\ setup'.capacity = setup.capacity
      /\ \A x : Fault(x)' <=> Fault(x)
  BY <1>1, Same
<1>3. /\ archive' \in Seq(Range(archive')) /\ Heads(archive') \subseteq Heads(archive)
      /\ Distinct(archive) => Distinct(archive')
  <2> DEFINE u == Zeros(2 * BLOCK)
  <2>1. u \in Seq(Range(u)) /\ Heads(u) = {} /\ Distinct(u)
    BY ZerosHeadless DEF BLOCK
  <2> HIDE DEF u
  <2>2. Write(u)
    BY <1>1 DEF u
  <2> QED
    BY <2>1, <2>2, WriteHeadless DEF IInv
<1>4. WalkInv'
  BY <1>1, <1>2 DEF IInv, WalkInv, Walking, Reading
<1>5. CauseInv'
  BY <1>1, <1>2 DEF IInv, CauseInv
<1>6. OnceInv'
  <2>1. bpc' \in {"done", "failed"} /\ (Remembers' => Remembers)
    BY <1>1, <1>2 DEF Remembers
  <2> QED
    BY <1>3, <2>1 DEF IInv, OnceInv
<1> QED
  BY <1>2, <1>3, <1>4, <1>5, <1>6 DEF IInv

\* The disk runs full.
LEMMA DiskFillsKeeps ==
    ASSUME IInv, DiskFills, setup' = setup
    PROVE  IInv'
<1>1. /\ setup \in Setups /\ bpc \notin {"done", "failed"}
      /\ UNCHANGED <<bpc, stack, handles, body, written, skipped, archive>>
  BY DEF IInv, DiskFills
<1>2. /\ Tree' = Tree /\ setup' \in Setups /\ setup'.capacity = setup.capacity
      /\ \A x : Fault(x)' <=> Fault(x)
  BY <1>1, Same
<1>3. WalkInv'
  BY <1>1, <1>2 DEF IInv, WalkInv, Walking, Reading, Top
<1>4. CauseInv' /\ archive' \in Seq(Range(archive'))
  BY <1>1, <1>2 DEF IInv, CauseInv
<1>5. OnceInv'
  BY <1>1, <1>2 DEF IInv, OnceInv, Remembers, Archived, Reading, Top
<1> QED
  BY <1>2, <1>3, <1>4, <1>5 DEF IInv

\* The copy is cut short.
LEMMA CutKeeps ==
    ASSUME IInv, Cut
    PROVE  IInv'
<1>1. /\ setup \in Setups /\ bpc = "done" /\ UNCHANGED <<setup, backupVars>>
  BY DEF IInv, Cut
<1>2. PICK n \in 0..(Len(archive) - 1) : archive' = SubSeq(archive, 1, n)
  BY DEF Cut
<1>3. archive \in Seq(Range(archive)) /\ n \in 0..Len(archive)
  BY OverRange DEF IInv
<1>4. archive' \in Seq(Range(archive')) /\ (Distinct(archive) => Distinct(archive'))
  BY <1>2, <1>3, CutHeads
<1>5. /\ Tree' = Tree /\ setup' \in Setups /\ setup'.capacity = setup.capacity
      /\ \A x : Fault(x)' <=> Fault(x)
  BY <1>1, Same
<1>6. WalkInv' /\ CauseInv'
  BY <1>1, <1>5 DEF IInv, WalkInv, CauseInv, Walking, Reading, Top, backupVars
<1>7. OnceInv'
  BY <1>1, <1>4, <1>5 DEF IInv, OnceInv, Remembers, backupVars
<1> QED
  BY <1>4, <1>5, <1>6, <1>7 DEF IInv

\* Every step keeps the invariant.
LEMMA NextKeeps == IInv /\ [Next]_vars => IInv'
<1> SUFFICES ASSUME IInv, [Next]_vars PROVE IInv'
  OBVIOUS
<1>1. CASE Backup
  <2>1. BackupNext /\ setup' = setup
    BY <1>1 DEF Backup
  <2> QED
    BY <2>1, OpenDirKeeps, OpenDirFailsKeeps, ReadDirKeeps, ReadDirEndsKeeps, CloseDirKeeps,
       EnterDirKeeps, CopyLinkKeeps, OpenFileKeeps, EntryFailsKeeps, LeaveDirKeeps,
       CopyUnitsKeeps, CopyFailsKeeps, FinishCopyKeeps, ProbeSkipsKeeps, ProbeFileKeeps,
       EndArchiveKeeps
    DEF BackupNext
<1>2. CASE Disk
  BY <1>2, DiskFillsKeeps DEF Disk
<1>3. CASE Cut
  BY <1>3, CutKeeps
<1>4. CASE UNCHANGED <<setup, archive, backupVars>>
  BY <1>4 DEF IInv, WalkInv, OnceInv, CauseInv, Walking, Reading, Remembers, Archived, Top, Tree,
              Fault, backupVars
<1>5. CASE Restore \/ UNCHANGED vars
  BY <1>4, <1>5 DEF Restore, vars
<1> QED
  BY <1>1, <1>2, <1>3, <1>5 DEF Next

-----------------------------------------------------------------------------
(* The archive that xqcn2tar makes: its members one after the other.       *)

\* A set of natural numbers has a least one.
LEMMA Least ==
    ASSUME NEW T, T \subseteq Nat, T # {}
    PROVE  \E x \in T : \A y \in T : x <= y
<1>1. IsWellFoundedOn({p \in Nat \X Nat : p[1] < p[2]}, Nat)
  BY NatLessThanWellFounded DEF OpToRel
<1>2. PICK x \in T : \A y \in T : ~(<< y, x >> \in {p \in Nat \X Nat : p[1] < p[2]})
  BY <1>1, WFMin
<1>3. \A y \in T : ~(y < x)
  BY <1>2
<1> QED
  BY <1>3

\* Induction over the numbers, as a set.
LEMMA Induction ==
    ASSUME NEW S, 0 \in S, \A n \in Nat : n \in S => n + 1 \in S
    PROVE  Nat \subseteq S
<1> SUFFICES ASSUME Nat \ S # {} PROVE FALSE
  OBVIOUS
<1>1. PICK x \in Nat \ S : \A y \in Nat \ S : x <= y
  BY Least
<1>2. x - 1 \in Nat /\ x - 1 \in S
  BY <1>1
<1> QED
  BY <1>1, <1>2

\* The concatenation of the first i sequences, for every i up to n.
Concatenates(f, ss, n) ==
    f = [i \in 1..n |-> IF i = 1 THEN ss[i] ELSE f[i - 1] \o ss[i]]

\* There is such a function, so FlattenSeq takes it.
LEMMA Concatenation ==
    ASSUME NEW ss, NEW n \in Nat \ {0}, Len(ss) = n
    PROVE  \E f : Concatenates(f, ss, n) /\ FlattenSeq(ss) = f[n]
<1> DEFINE S == {m \in Nat : \E f : Concatenates(f, ss, m)}
<1>1. 0 \in S
  <2> DEFINE f == [i \in 1..0 |-> ss]
  <2>1. f = [i \in 1..0 |-> IF i = 1 THEN ss[i] ELSE f[i - 1] \o ss[i]]
    OBVIOUS
  <2> QED
    BY <2>1 DEF Concatenates
<1>2. ASSUME NEW m \in Nat, m \in S PROVE m + 1 \in S
  <2>1. PICK f : f = [i \in 1..m |-> IF i = 1 THEN ss[i] ELSE f[i - 1] \o ss[i]]
    BY <1>2 DEF Concatenates
  <2> DEFINE g == [i \in 1..(m + 1) |->
                     IF i \in 1..m THEN f[i] ELSE IF i = 1 THEN ss[i] ELSE f[i - 1] \o ss[i]]
  <2>2. ASSUME NEW i \in 1..(m + 1)
        PROVE  g[i] = IF i = 1 THEN ss[i] ELSE g[i - 1] \o ss[i]
    <3>1. i # 1 => i - 1 \in 1..(m + 1) /\ i - 1 \in 1..m
      OBVIOUS
    <3>2. i # 1 => g[i - 1] = f[i - 1]
      BY <3>1
    <3>3. CASE i \in 1..m
      <4>1. g[i] = f[i]
        BY <3>3
      <4>2. f[i] = IF i = 1 THEN ss[i] ELSE f[i - 1] \o ss[i]
        BY <2>1, <3>3
      <4> HIDE DEF g
      <4> QED
        BY <3>2, <4>1, <4>2
    <3>4. CASE i \notin 1..m
      <4>1. g[i] = IF i = 1 THEN ss[i] ELSE f[i - 1] \o ss[i]
        BY <3>4
      <4> HIDE DEF g
      <4> QED
        BY <3>2, <4>1
    <3> QED
      BY <3>3, <3>4
  <2>3. g = [i \in 1..(m + 1) |-> g[i]]
    OBVIOUS
  <2> HIDE DEF g
  <2>4. g = [i \in 1..(m + 1) |-> IF i = 1 THEN ss[i] ELSE g[i - 1] \o ss[i]]
    BY <2>2, <2>3
  <2>5. Concatenates(g, ss, m + 1)
    BY <2>4 DEF Concatenates
  <2>6. \E h : Concatenates(h, ss, m + 1)
    BY <2>5
  <2> QED
    BY <2>6
<1>3. n \in S
  <2> HIDE DEF S
  <2> QED
    BY <1>1, <1>2, Induction
<1> DEFINE c == CHOOSE f : f = [i \in 1..Len(ss) |-> IF i = 1 THEN ss[i] ELSE f[i - 1] \o ss[i]]
<1>4. c = [i \in 1..n |-> IF i = 1 THEN ss[i] ELSE c[i - 1] \o ss[i]]
  BY <1>3 DEF Concatenates
<1>5. FlattenSeq(ss) = c[n]
  BY DEF FlattenSeq
<1> HIDE DEF c
<1> QED
  BY <1>4, <1>5 DEF Concatenates

\* The first m of the sequences have different headers, and no others are
\* in their concatenation.
Sound(c, ss, m) ==
    /\ c \in Seq(Range(c)) /\ Distinct(c)
    /\ \A h \in Heads(c) : \E i \in 1..m : h \in Heads(ss[i])

\* Its headers are those of the sequences.
LEMMA Flattened ==
    ASSUME NEW n \in Nat, NEW ss, ss \in Seq(Range(ss)), Len(ss) = n,
           \A i \in 1..n : ss[i] \in Seq(Range(ss[i])) /\ Distinct(ss[i]),
           \A i, j \in 1..n : i # j => Heads(ss[i]) \cap Heads(ss[j]) = {}
    PROVE  /\ FlattenSeq(ss) \in Seq(Range(FlattenSeq(ss))) /\ Distinct(FlattenSeq(ss))
           /\ \A h \in Heads(FlattenSeq(ss)) : \E i \in 1..n : h \in Heads(ss[i])
<1>1. CASE n = 0
  <2>1. FlattenSeq(ss) = ss
    BY <1>1 DEF FlattenSeq
  <2> QED
    BY <1>1, <2>1 DEF Distinct, Heads
<1>2. CASE n # 0
  <2>1. PICK f : Concatenates(f, ss, n) /\ FlattenSeq(ss) = f[n]
    BY <1>2, Concatenation
  <2> DEFINE S == {m \in Nat : m \in 1..n => Sound(f[m], ss, m)}
  <2>2. 0 \in S
    OBVIOUS
  <2>3. ASSUME NEW m \in Nat, m \in S PROVE m + 1 \in S
    <3> SUFFICES ASSUME m + 1 \in 1..n PROVE Sound(f[m + 1], ss, m + 1)
      OBVIOUS
    <3>1. CASE m = 0
      <4>1. f[1] = ss[1] /\ 1 \in 1..n
        BY <2>1, <3>1 DEF Concatenates
      <4>2. Sound(ss[1], ss, 1)
        BY <4>1 DEF Sound
      <4> QED
        BY <3>1, <4>1, <4>2
    <3>2. CASE m # 0
      <4>1. m \in 1..n /\ m + 1 # 1 /\ m + 1 - 1 = m
        BY <3>2
      <4>2. f[m + 1] = f[m] \o ss[m + 1]
        <5>1. f[m + 1] = IF m + 1 = 1 THEN ss[m + 1] ELSE f[m + 1 - 1] \o ss[m + 1]
          <6>1. \A i \in 1..n : f[i] = IF i = 1 THEN ss[i] ELSE f[i - 1] \o ss[i]
            BY <2>1 DEF Concatenates
          <6> QED
            BY <6>1
        <5> QED
          BY <4>1, <5>1
      <4>3. Sound(f[m], ss, m)
        BY <2>3, <4>1
      <4>4. \A i \in 1..m : i \in 1..n /\ i \in 1..(m + 1) /\ i # m + 1
        BY <4>1
      <4>5. ss[m + 1] \in Seq(Range(ss[m + 1])) /\ Distinct(ss[m + 1]) /\ m + 1 \in 1..(m + 1)
        OBVIOUS
      <4>6. Heads(f[m]) \cap Heads(ss[m + 1]) = {}
        BY <4>3, <4>4 DEF Sound
      <4>7. /\ f[m + 1] \in Seq(Range(f[m + 1])) /\ Distinct(f[m + 1])
            /\ Heads(f[m + 1]) \subseteq Heads(f[m]) \cup Heads(ss[m + 1])
        BY <4>2, <4>3, <4>5, <4>6, Joined, HeadsJoined DEF Sound
      <4> QED
        BY <4>3, <4>4, <4>5, <4>7 DEF Sound
    <3> QED
      BY <3>1, <3>2
  <2> HIDE DEF S
  <2>4. n \in S
    BY <2>2, <2>3, Induction
  <2> USE DEF S
  <2>5. Sound(f[n], ss, n)
    BY <1>2, <2>4
  <2> QED
    BY <2>1, <2>5 DEF Sound
<1> QED
  BY <1>1, <1>2

\* A member of the archive has one header.
LEMMA MemberHeads ==
    ASSUME NEW p, NEW kind, NEW size \in Nat
    PROVE  LET m == Member(p, kind, size)
           IN  m \in Seq(Range(m)) /\ Distinct(m) /\ Heads(m) \subseteq {Mark(p, kind, size)}
<1> DEFINE h == Header(p, kind, size)
           c == Content(p, size)
           z == Padding(size)
           S == {[type |-> "data", path |-> p, at |-> k] : k \in 1..size}
<1>1. h \in Seq(Range(h)) /\ Heads(h) = {Mark(p, kind, size)} /\ Distinct(h)
  BY HeaderHeads
<1>2. z \in Seq(Range(z)) /\ Heads(z) = {} /\ Distinct(z)
  BY PaddingHeadless
<1>3. c \in Seq(Range(c)) /\ Heads(c) = {} /\ Distinct(c)
  <2>1. c \in Seq(S) /\ Len(c) = size
    BY DEF Content
  <2>2. \A i \in 1..Len(c) : c[i].type # "header"
    BY <2>1 DEF Content
  <2> HIDE DEF c, S
  <2>3. c \in Seq(Range(c))
    BY <2>1, OverRange
  <2> QED
    BY <2>2, <2>3, Headless
<1> HIDE DEF h, c, z
<1>4. /\ h \o c \in Seq(Range(h \o c)) /\ Distinct(h \o c)
      /\ Heads(h \o c) \subseteq {Mark(p, kind, size)}
  BY <1>1, <1>3, Joined, HeadsJoined
<1> DEFINE hc == h \o c
<1> HIDE DEF hc
<1>5. /\ hc \o z \in Seq(Range(hc \o z)) /\ Distinct(hc \o z)
      /\ Heads(hc \o z) \subseteq {Mark(p, kind, size)}
  <2>1. /\ hc \in Seq(Range(hc)) /\ Distinct(hc) /\ Heads(hc) \subseteq {Mark(p, kind, size)}
    BY <1>4 DEF hc
  <2> QED
    BY <1>2, <2>1, Joined, HeadsJoined
<1>6. Member(p, kind, size) = hc \o z
  BY DEF Member, h, c, z, hc
<1> QED
  BY <1>5, <1>6

\* The members that xqcn2tar writes.
FileList == SetToSeq({p \in DOMAIN Tree : Tree[p].kind = "file"})
Items == [n \in 1..setup.nv |-> Member(<<"nv_items", n>>, "nv", 1)]
Members == [i \in 1..Len(FileList) |-> Member(FileList[i], "file", Tree[FileList[i]].size)]

\* They are of different items and of different files.
LEMMA Parts ==
    ASSUME setup \in Setups, setup.nv \in Nat
    PROVE  /\ Items \in Seq(Range(Items)) /\ Len(Items) = setup.nv
           /\ \A i \in 1..setup.nv : Items[i] = Member(<<"nv_items", i>>, "nv", 1)
           /\ Members \in Seq(Range(Members)) /\ Len(Members) = Len(FileList)
           /\ Len(FileList) \in Nat
           /\ \A i \in 1..Len(FileList) :
                 /\ Members[i] = Member(FileList[i], "file", Tree[FileList[i]].size)
                 /\ FileList[i] \in DOMAIN Tree /\ Tree[FileList[i]].size \in Nat
                 /\ Tree[FileList[i]].kind = "file"
           /\ \A i, j \in 1..Len(FileList) : i # j => FileList[i] # FileList[j]
<1> DEFINE F == {p \in DOMAIN Tree : Tree[p].kind = "file"}
           l == FileList
<1>1. IsTree(Tree)
  BY Trees
<1>2. IsList(l) /\ Range(l) \subseteq F
  <2>1. F \in SUBSET DOMAIN Tree /\ IsFiniteSet(DOMAIN Tree)
    BY <1>1 DEF IsTree
  <2>2. IsFiniteSet(F)
    BY <2>1, FS_Subset
  <2> QED
    BY <2>2, SetListed DEF FileList
<1> HIDE DEF l
<1>3. /\ Len(l) \in Nat /\ DOMAIN l = 1..Len(l)
      /\ \A i \in 1..Len(l) : l[i] \in DOMAIN Tree /\ Tree[l[i]].size \in Nat /\ l[i] \in F
      /\ \A i, j \in 1..Len(l) : i # j => l[i] # l[j]
  <2>1. Len(l) \in Nat /\ DOMAIN l = 1..Len(l)
    BY <1>2, OverRange DEF IsList
  <2>2. \A i \in 1..Len(l) : l[i] \in F
    BY <1>2, <2>1 DEF Range
  <2> QED
    BY <1>1, <1>2, <2>1, <2>2 DEF IsList, IsInjective, IsTree
<1>4. /\ Items \in Seq(Range(Items)) /\ Len(Items) = setup.nv
      /\ \A i \in 1..setup.nv : Items[i] = Member(<<"nv_items", i>>, "nv", 1)
  <2> DEFINE S == {Member(<<"nv_items", n>>, "nv", 1) : n \in 1..setup.nv}
  <2>1. \A n \in 1..setup.nv : Member(<<"nv_items", n>>, "nv", 1) \in S
    OBVIOUS
  <2> HIDE DEF S
  <2>2. Items \in [1..setup.nv -> S]
    BY <2>1 DEF Items
  <2>3. Items \in Seq(S)
    BY <2>2, SeqDef
  <2>4. DOMAIN Items = 1..setup.nv /\ DOMAIN Items = 1..Len(Items) /\ Len(Items) \in Nat
    BY <2>3, OverRange DEF Items
  <2>5. Len(Items) = setup.nv
    BY <2>4
  <2> QED
    BY <2>3, <2>5, OverRange DEF Items
<1>5. /\ Members \in Seq(Range(Members)) /\ Len(Members) = Len(l)
      /\ \A i \in 1..Len(l) : Members[i] = Member(l[i], "file", Tree[l[i]].size)
  <2> DEFINE S == {Member(l[i], "file", Tree[l[i]].size) : i \in 1..Len(l)}
  <2>1. \A i \in 1..Len(l) : Member(l[i], "file", Tree[l[i]].size) \in S
    OBVIOUS
  <2> HIDE DEF S
  <2>2. Members = [i \in 1..Len(l) |-> Member(l[i], "file", Tree[l[i]].size)]
    BY DEF Members, l
  <2>3. Members \in Seq(S) /\ Len(Members) = Len(l)
    BY <1>3, <2>1, <2>2
  <2>4. Members \in Seq(Range(Members))
    BY <2>3, OverRange
  <2> QED
    BY <2>2, <2>3, <2>4
<1> QED
  BY <1>3, <1>4, <1>5 DEF l

\* So no header is twice in the archive of xqcn2tar.
LEMMA ConvertedOnce ==
    ASSUME setup \in Setups, setup.nv \in Nat
    PROVE  Converted \in Seq(Range(Converted)) /\ Distinct(Converted)
<1> DEFINE l == FileList
           ns == Items
           fs1 == Members
           a == FlattenSeq(ns)
           b == FlattenSeq(fs1)
           z == Zeros(2 * BLOCK)
<1>3. /\ Len(l) \in Nat
      /\ \A i \in 1..Len(l) : l[i] \in DOMAIN Tree /\ Tree[l[i]].size \in Nat
      /\ \A i, j \in 1..Len(l) : i # j => l[i] # l[j]
  BY Parts
<1> HIDE DEF l
<1>4. /\ a \in Seq(Range(a)) /\ Distinct(a)
      /\ \A h \in Heads(a) : h.kind = "nv"
  <2>1. /\ ns \in Seq(Range(ns)) /\ Len(ns) = setup.nv
        /\ \A i \in 1..setup.nv : ns[i] = Member(<<"nv_items", i>>, "nv", 1)
    BY Parts
  <2> HIDE DEF ns
  <2>2. \A i \in 1..setup.nv : /\ ns[i] \in Seq(Range(ns[i])) /\ Distinct(ns[i])
                               /\ Heads(ns[i]) \subseteq {Mark(<<"nv_items", i>>, "nv", 1)}
    BY <2>1, MemberHeads
  <2>3. \A i, j : Mark(<<"nv_items", i>>, "nv", 1) = Mark(<<"nv_items", j>>, "nv", 1) => i = j
    BY DEF Mark
  <2>4. \A i : Mark(<<"nv_items", i>>, "nv", 1).kind = "nv"
    BY DEF Mark
  <2>5. \A i, j \in 1..setup.nv : i # j => Heads(ns[i]) \cap Heads(ns[j]) = {}
    BY <2>2, <2>3
  <2>6. /\ a \in Seq(Range(a)) /\ Distinct(a)
        /\ \A h \in Heads(a) : \E i \in 1..setup.nv : h \in Heads(ns[i])
    BY <2>1, <2>2, <2>5, Flattened
  <2> QED
    BY <2>2, <2>4, <2>6
<1>5. /\ b \in Seq(Range(b)) /\ Distinct(b)
      /\ \A h \in Heads(b) : h.kind = "file"
  <2>1. /\ fs1 \in Seq(Range(fs1)) /\ Len(fs1) = Len(l)
        /\ \A i \in 1..Len(l) : fs1[i] = Member(l[i], "file", Tree[l[i]].size)
    BY Parts DEF l
  <2> HIDE DEF fs1
  <2>2. \A i \in 1..Len(l) : /\ fs1[i] \in Seq(Range(fs1[i])) /\ Distinct(fs1[i])
                             /\ Heads(fs1[i]) \subseteq {Mark(l[i], "file", Tree[l[i]].size)}
    BY <1>3, <2>1, MemberHeads
  <2>3. \A p, q, s, t : Mark(p, "file", s) = Mark(q, "file", t) => p = q
    BY DEF Mark
  <2>4. \A p, s : Mark(p, "file", s).kind = "file"
    BY DEF Mark
  <2>5. \A i, j \in 1..Len(l) : i # j => Heads(fs1[i]) \cap Heads(fs1[j]) = {}
    <3> SUFFICES ASSUME NEW i \in 1..Len(l), NEW j \in 1..Len(l), i # j,
                        NEW h \in Heads(fs1[i]), h \in Heads(fs1[j])
                 PROVE  FALSE
      OBVIOUS
    <3>1. /\ h = Mark(l[i], "file", Tree[l[i]].size)
          /\ h = Mark(l[j], "file", Tree[l[j]].size)
      BY <2>2
    <3>2. l[i] = l[j]
      BY <2>3, <3>1
    <3> QED
      BY <1>3, <3>2
  <2>6. /\ b \in Seq(Range(b)) /\ Distinct(b)
        /\ \A h \in Heads(b) : \E i \in 1..Len(l) : h \in Heads(fs1[i])
    BY <1>3, <2>1, <2>2, <2>5, Flattened
  <2>7. ASSUME NEW h \in Heads(b) PROVE h.kind = "file"
    <3>1. PICK i \in 1..Len(l) : h \in Heads(fs1[i])
      BY <2>6
    <3>2. h = Mark(l[i], "file", Tree[l[i]].size)
      BY <2>2, <3>1
    <3> QED
      BY <2>4, <3>2
  <2> QED
    BY <2>6, <2>7
<1>6. z \in Seq(Range(z)) /\ Heads(z) = {} /\ Distinct(z)
  BY ZerosHeadless DEF BLOCK
<1>7. Converted = a \o b \o z
  BY DEF Converted, Items, Members, FileList
<1> HIDE DEF a, b, z
<1>8. a \o b \in Seq(Range(a \o b)) /\ Distinct(a \o b)
  <2>1. Heads(a) \cap Heads(b) = {}
    BY <1>4, <1>5
  <2> QED
    BY <1>4, <1>5, <2>1, Joined, HeadsJoined
<1> DEFINE ab == a \o b
<1>9. ab \in Seq(Range(ab)) /\ Distinct(ab)
  BY <1>8
<1> HIDE DEF ab
<1>10. ab \o z \in Seq(Range(ab \o z)) /\ Distinct(ab \o z)
  BY <1>6, <1>9, Joined, HeadsJoined
<1> QED
  BY <1>7, <1>10 DEF ab

-----------------------------------------------------------------------------
(* The theorem.                                                            *)

\* A backup begins with nothing archived and the root to be opened; the
\* archive of xqcn2tar is there from the start.
LEMMA InitHolds == Init => IInv
<1> SUFFICES ASSUME Init PROVE IInv
  OBVIOUS
<1>1. /\ setup \in Setups /\ stack = << Frame(Root) >> /\ handles = {} /\ written = {}
      /\ full = FALSE /\ skipped = {}
      /\ bpc = IF setup.nv = 0 THEN "opendir" ELSE "done"
      /\ archive = IF setup.nv = 0 THEN << >> ELSE Converted
  BY DEF Init, BackupInit
<1>2. IsTree(Tree) /\ setup.capacity \in Nat /\ setup.nv \in Nat
  BY <1>1, Trees, EfsConstants DEF IsSetup
<1>3. /\ stack \in Seq(Range(stack)) /\ stack # << >>
      /\ Len(stack) = 1 /\ stack[1] = Frame(Root) /\ Top = Frame(Root)
  <2>1. stack \in Seq({Frame(Root)}) /\ Len(stack) = 1 /\ stack[1] = Frame(Root)
    BY <1>1
  <2>2. stack \in Seq(Range(stack))
    BY <2>1, OverRange
  <2>3. stack # << >>
    BY <1>1
  <2> QED
    BY <2>1, <2>2, <2>3 DEF Top, Last
<1>4. /\ Frame(Root) = [path |-> Frame(Root).path, listing |-> Frame(Root).listing,
                        entries |-> Frame(Root).entries]
      /\ Frame(Root).path = Root /\ Frame(Root).listing = << >> /\ Frame(Root).entries = << >>
  BY DEF Frame
<1>5. IsList(<< >>) /\ Range(<< >>) = {} /\ Len(Root) = 0 /\ SubSeq(Root, 1, 0) = Root
  BY EmptySeq DEF IsList, Range, IsInjective, Root
<1>6. Todo(Frame(Root)) = {} /\ IsFrame(Tree, Frame(Root))
  BY <1>4, <1>5 DEF Todo, IsFrame
<1>7. IsStack(Tree, stack)
  <2>1. ASSUME NEW k \in 1..Len(stack)
        PROVE  /\ IsFrame(Tree, stack[k]) /\ Len(stack[k].path) = k - 1
               /\ \A j \in 1..k : stack[j].path = SubSeq(stack[k].path, 1, j - 1)
               /\ k < Len(stack) => stack[k + 1].path \notin Todo(stack[k])
    <3>1. k = 1 /\ ~(k < Len(stack)) /\ \A j \in 1..k : j = 1 /\ j - 1 = 0
      BY <1>3
    <3>2. stack[k].path = Root /\ IsFrame(Tree, stack[k])
      BY <1>3, <1>4, <1>6, <3>1
    <3>3. Len(stack[k].path) = k - 1
      BY <1>5, <3>1, <3>2
    <3>4. \A j \in 1..k : stack[j].path = SubSeq(stack[k].path, 1, j - 1)
      BY <1>5, <3>1, <3>2
    <3> QED
      BY <3>1, <3>2, <3>3, <3>4
  <2> QED
    BY <1>3, <2>1 DEF IsStack
<1>8. WalkInv
  <2>1. Cardinality(written) = 0
    BY <1>1, FS_EmptySet
  <2> QED
    BY <1>1, <1>2, <1>3, <1>6, <1>7, <2>1 DEF WalkInv, Walking, Reading
<1>9. CauseInv
  BY <1>1 DEF CauseInv
<1>10. /\ archive \in Seq(Range(archive)) /\ Distinct(archive)
       /\ bpc \notin {"done", "failed"} => Heads(archive) = {}
  <2>1. CASE setup.nv = 0
    <3>1. archive = << >> /\ << >> \in Seq(Range(<< >>)) /\ Len(<< >>) = 0
      BY <1>1, <2>1, EmptySeq
    <3> QED
      BY <3>1 DEF Heads, Distinct
  <2>2. CASE setup.nv # 0
    BY <1>1, <1>2, <2>2, ConvertedOnce
  <2> QED
    BY <2>1, <2>2
<1>11. OnceInv
  BY <1>10 DEF OnceInv
<1> QED
  BY <1>1, <1>8, <1>9, <1>10, <1>11 DEF IInv

\* The invariant holds in every behaviour.
THEOREM Invariant == Spec => []IInv
  BY InitHolds, NextKeeps, PTL DEF Spec

(* A backup reported as complete was written in full, no path is archived  *)
(* twice while the path_set has room, and no directory is left out because *)
(* handles ran out: for every tree, however deep, every list of probes,    *)
(* every capacity and number of handles, and whatever fails.               *)
THEOREM ArchiveIsSoundHolds == Spec => []ArchiveIsSound
<1>1. IInv => ArchiveIsSound
  <2> SUFFICES ASSUME IInv PROVE ArchiveIsSound
    OBVIOUS
  <2>1. (bpc = "done" => ~full) /\ (~Fault("errno") => skipped = {})
    BY DEF IInv, CauseInv
  <2>2. ASSUME NEW i \in 1..Len(archive), NEW j \in 1..Len(archive), i # j,
               archive[i].type = "header", archive[i].at = 1, archive[i] = archive[j]
        PROVE  Cardinality(written) = setup.capacity
    <3>1. ~Distinct(archive)
      BY <2>2 DEF Distinct, IsHead
    <3>2. ~(Cardinality(written) < setup.capacity)
      BY <3>1 DEF IInv, OnceInv, Remembers
    <3>3. Cardinality(written) <= setup.capacity /\ setup.capacity \in Nat
      BY Trees DEF IInv, WalkInv
    <3>4. Cardinality(written) \in Nat
      <4>1. written \in SUBSET DOMAIN Tree /\ IsFiniteSet(DOMAIN Tree)
        BY Trees DEF IInv, WalkInv, IsTree
      <4> QED
        BY <4>1, FS_Subset, FS_CardinalityType
    <3> QED
      BY <3>2, <3>3, <3>4
  <2> QED
    BY <2>1, <2>2 DEF ArchiveIsSound
<1> QED
  BY Invariant, <1>1, PTL

-----------------------------------------------------------------------------
(* The archive, and its restore: a second invariant, built on the first.   *)

\* The units of a member, by its header.
Unit(h, k) == Member(h.path, h.kind, h.size)[k]
Length(h) == BLOCK + Blocks(h.size)

\* A header says what the tree does.
Honest(t, h) ==
    /\ h = Mark(h.path, h.kind, h.size) /\ h.size \in Nat
    /\ h.kind \in {"dir", "link", "file", "nv"}
    /\ h.kind # "nv" => h.path \in DOMAIN t
    /\ h.kind = "file" => h.size = t[h.path].size /\ t[h.path].kind # "dir"
    /\ h.kind \in {"dir", "link"} => t[h.path].kind = h.kind /\ h.size = 0
    /\ h.kind = "nv" => h.size = 1

\* Every header is followed by its member, as far as the archive goes.
Follows(s, i) ==
    \A k \in 1..Length(s[i]) : i + k - 1 <= Len(s) => s[i + k - 1] = Unit(s[i], k)
Formed(s) == \A i \in 1..Len(s) : IsHead(s[i]) => s[i].size \in Nat /\ Follows(s, i)

\* Where a member ends, another header or the end of the archive follows.
Border(s, b) ==
    /\ b \in 0..Len(s)
    /\ \/ b = Len(s)
       \/ b + 1 <= Len(s) /\ IsHead(s[b + 1])
       \/ b + 2 <= Len(s) /\ s[b + 1] = Zero /\ s[b + 2] = Zero
Whole(s) ==
    /\ s \in Seq(Range(s)) /\ Formed(s) /\ Border(s, 0)
    /\ \A i \in 1..Len(s) : IsHead(s[i]) => Border(s, i - 1 + Length(s[i]))

\* The last file is there as far as it was copied.
Growing(s, p, size, got) ==
    \E a : /\ Whole(a) /\ Len(s) = Len(a) + BLOCK + got
           /\ \A i \in 1..Len(s) : s[i] = (a \o Member(p, "file", size))[i]

TarInv ==
    /\ \A h \in Heads(archive) : Honest(Tree, h)
    /\ bpc = "body" => body.size = Tree[body.path].size
    /\ ~Fault("read") =>
          /\ Formed(archive)
          /\ ~full /\ bpc \notin {"body", "done", "failed"} => Whole(archive)
          /\ ~full /\ bpc = "body" =>
                /\ Growing(archive, body.path, body.size, body.got)
                /\ body.ended => body.got = body.size
          /\ bpc = "done" /\ ~Fault("cut") => Whole(archive)

\* The file p has its header in the first n units.
Handled(s, n, p) == \E i \in 1..n : IsHead(s[i]) /\ s[i].kind = "file" /\ s[i].path = p

\* The header worked on is at i, and nothing behind it has been counted.
Stands(s, i, c, at, seen) ==
    /\ IsHead(s[i]) /\ c = [path |-> s[i].path, kind |-> s[i].kind, size |-> s[i].size]
    /\ at = i - 1 + BLOCK
    /\ \A p \in seen : Handled(s, i - 1, p)
Behind == CASE rpc \in {"put", "open", "write"} -> cur.size
            [] rpc = "stream" -> offset
            [] OTHER -> 0

PlaceInv ==
    /\ rpc \in {"header", "dir", "link", "nv", "file", "put", "open", "write", "large",
                "stream", "end"}
    /\ bpc # "done" => /\ rpc = "header" /\ pos = 0 /\ ret = 0
                       /\ files = {} /\ warned = {}
    /\ pos \in 0..Len(archive)
    /\ rpc \notin {"header", "end"} => 
          \E i \in 1..Len(archive) : Stands(archive, i, cur, pos - Behind, files)
    /\ rpc = "header" => \A p \in files : Handled(archive, pos, p)
    /\ rpc \in {"dir", "link", "nv", "file"} => cur.kind = rpc
    /\ rpc \in {"put", "open", "write"} => cur.kind = "file" /\ cur.size <= SmallFile
    /\ rpc \in {"large", "stream"} => cur.kind = "file" /\ cur.size > SmallFile
    /\ rpc \in {"write", "stream"} => offset \in 0..cur.size

\* A file as it was in the tree.
Counted(t, p) == [kind |-> "file", data |-> Content(p, t[p].size)]
CopyInv ==
    ~Fault("read") =>
        /\ rpc \in {"put", "open", "write"} => buffer = Content(cur.path, cur.size)
        /\ rpc \in {"write", "stream"} =>
              /\ fs = [q \in DOMAIN fs |-> fs[q]] /\ cur.path \in DOMAIN fs
              /\ fs[cur.path] = [kind |-> "file", data |-> Content(cur.path, offset)]
        /\ Remembers => \A p \in files : p \in DOMAIN fs /\ fs[p] = Counted(Tree, p)

\* The reader is where a header is, whenever it expects one.
EndInv ==
    ~Fault("read") /\ ~Fault("cut") =>
        /\ bpc = "done" /\ rpc = "header" => Border(archive, pos)
        /\ ret = -1 => rpc = "end" /\ cur.size > SmallFile

\* A journal that was emptied has room for any small file.
Ample == \A p \in DOMAIN Tree :
            Tree[p].kind # "dir" /\ Tree[p].size <= SmallFile =>
                Len(p) + Tree[p].size <= setup.journal
WarnInv ==
    /\ used \in Nat /\ try \in {1, 2}
    /\ Ample /\ ~Fault("refuse") /\ ~Fault("sync") =>
          /\ \A p \in warned : Tree[p].kind = "file" => Tree[p].size > SmallFile
          /\ try = 2 /\ rpc \in {"put", "open"} => used = 0
          /\ try = 2 /\ rpc = "write" => used <= Len(cur.path) + offset

-----------------------------------------------------------------------------
(* Members of the archive.                                                 *)

\* What a member takes.
LEMMA Blocked ==
    ASSUME NEW size \in Nat
    PROVE  /\ Padding(size) \in Seq({Zero}) /\ Len(Padding(size)) \in Nat
           /\ \A k \in 1..Len(Padding(size)) : Padding(size)[k] = Zero
           /\ Blocks(size) \in Nat /\ Blocks(size) = size + Len(Padding(size))
           /\ Blocks(0) = 0 /\ BLOCK = 2
<1>1. \A n \in Nat : /\ Zeros(n) \in Seq({Zero}) /\ Len(Zeros(n)) = n
                     /\ \A k \in 1..n : Zeros(n)[k] = Zero
  BY DEF Zeros
<1>2. (BLOCK - (size % BLOCK)) % BLOCK \in Nat /\ (BLOCK - (0 % BLOCK)) % BLOCK = 0 /\ BLOCK = 2
  BY DEF BLOCK
<1>3. Len(Padding(0)) = 0
  BY <1>1, <1>2 DEF Padding
<1> DEFINE n == (BLOCK - (size % BLOCK)) % BLOCK
<1>4. Padding(size) = Zeros(n) /\ n \in Nat
  BY <1>2 DEF Padding
<1> HIDE DEF n
<1> QED
  BY <1>1, <1>2, <1>3, <1>4 DEF Blocks

\* The units of contents.
LEMMA Contents ==
    ASSUME NEW p, NEW size \in Nat
    PROVE  /\ Content(p, size) \in Seq(Range(Content(p, size))) /\ Len(Content(p, size)) = size
           /\ \A k \in 1..size : Content(p, size)[k] = [type |-> "data", path |-> p, at |-> k]
<1> DEFINE c == Content(p, size)
           S == {[type |-> "data", path |-> p, at |-> k] : k \in 1..size}
<1>1. c \in Seq(S) /\ Len(c) = size
      /\ \A k \in 1..size : c[k] = [type |-> "data", path |-> p, at |-> k]
  BY DEF Content
<1> HIDE DEF c, S
<1>2. c \in Seq(Range(c))
  BY <1>1, OverRange
<1> QED
  BY <1>1, <1>2 DEF c

\* Header, contents and padding are where they should be.
LEMMA MemberUnits ==
    ASSUME NEW p, NEW kind, NEW size \in Nat
    PROVE  LET m == Member(p, kind, size)
           IN  /\ m \in Seq(Range(m)) /\ Len(m) = BLOCK + Blocks(size)
               /\ m[1] = Mark(p, kind, size)
               /\ \A k \in 1..BLOCK : m[k] = Header(p, kind, size)[k]
               /\ \A k \in 1..size : m[BLOCK + k] = Content(p, size)[k]
               /\ \A k \in 1..Len(Padding(size)) : m[BLOCK + size + k] = Zero
<1> DEFINE h == Header(p, kind, size)
           c == Content(p, size)
           z == Padding(size)
<1>1. h \in Seq(Range(h)) /\ Len(h) = BLOCK /\ h[1] = Mark(p, kind, size)
  <2>1. h \in Seq(Range(h))
    BY HeaderHeads
  <2>2. Len(h) = BLOCK /\ h[1] = Mark(p, kind, size)
    BY DEF Header, BLOCK, Mark
  <2> QED
    BY <2>1, <2>2
<1>2. c \in Seq(Range(c)) /\ Len(c) = size
  BY Contents
<1>3. z \in Seq(Range(z)) /\ Len(z) \in Nat /\ \A k \in 1..Len(z) : z[k] = Zero
  BY Blocked, PaddingHeadless
<1>4. Blocks(size) = size + Len(z) /\ BLOCK = 2
  BY Blocked
<1>5. Member(p, kind, size) = h \o c \o z
  BY DEF Member
<1> HIDE DEF h, c, z
<1> DEFINE hc == h \o c
<1>6. /\ hc \in Seq(Range(hc)) /\ Len(hc) = BLOCK + size
      /\ \A k \in 1..BLOCK : hc[k] = h[k]
      /\ \A k \in 1..size : hc[BLOCK + k] = c[k]
  BY <1>1, <1>2, Joined
<1> HIDE DEF hc
<1> DEFINE m == hc \o z
<1>7. /\ m \in Seq(Range(m)) /\ Len(m) = Len(hc) + Len(z)
      /\ \A k \in 1..Len(hc) : m[k] = hc[k]
      /\ \A k \in 1..Len(z) : m[Len(hc) + k] = z[k]
  BY <1>3, <1>6, Joined
<1> HIDE DEF m
<1>8. /\ \A k \in 1..BLOCK : k \in 1..Len(hc)
      /\ \A k \in 1..size : BLOCK + k \in 1..Len(hc)
  BY <1>4, <1>6
<1>9. Len(m) = BLOCK + Blocks(size)
  BY <1>3, <1>4, <1>6, <1>7
<1>10. \A k \in 1..BLOCK : m[k] = h[k]
  BY <1>6, <1>7, <1>8
<1>11. \A k \in 1..size : m[BLOCK + k] = c[k]
  BY <1>6, <1>7, <1>8
<1>12. \A k \in 1..Len(z) : m[BLOCK + size + k] = Zero
  BY <1>3, <1>6, <1>7
<1>13. m[1] = Mark(p, kind, size)
  BY <1>1, <1>4, <1>10
<1> QED
  BY <1>5, <1>7, <1>9, <1>10, <1>11, <1>12, <1>13 DEF m, hc, h, c, z

\* A member is all of an archive.
LEMMA MemberWhole ==
    ASSUME NEW p, NEW kind, NEW size \in Nat
    PROVE  Whole(Member(p, kind, size))
<1> DEFINE m == Member(p, kind, size)
           u == Mark(p, kind, size)
<1>1. /\ m \in Seq(Range(m)) /\ Len(m) = BLOCK + Blocks(size) /\ m[1] = u
      /\ Blocks(size) \in Nat /\ BLOCK = 2
  BY MemberUnits, Blocked
<1>2. Heads(m) \subseteq {u} /\ Distinct(m)
  BY MemberHeads
<1>3. IsHead(u) /\ u.path = p /\ u.kind = kind /\ u.size = size
  BY DEF Mark, IsHead
<1>4. \A k : Unit(u, k) = m[k]
  BY <1>3 DEF Unit
<1>5. Length(u) = Len(m)
  BY <1>1, <1>3 DEF Length
<1> HIDE DEF m, u
<1>6. 1 \in 1..Len(m) /\ Len(m) \in Nat
  BY <1>1
<1>7. ASSUME NEW i \in 1..Len(m), IsHead(m[i]) PROVE i = 1
  <2>1. m[i] = u
    BY <1>2, <1>7 DEF Heads
  <2> QED
    BY <1>1, <1>2, <1>6, <1>7, <2>1 DEF Distinct
<1>8. \A k \in 1..Len(m) : 1 + k - 1 = k
  BY <1>6
<1>9. Follows(m, 1)
  BY <1>1, <1>4, <1>5, <1>8 DEF Follows
<1>10. Formed(m)
  BY <1>1, <1>3, <1>7, <1>9 DEF Formed
<1>11. Border(m, 0)
  BY <1>1, <1>3, <1>6 DEF Border
<1>12. 1 - 1 + Len(m) = Len(m) /\ Border(m, Len(m))
  BY <1>6 DEF Border
<1> QED
  BY <1>1, <1>5, <1>7, <1>10, <1>11, <1>12 DEF Whole, m

\* The length of the member behind a header.
LEMMA Long ==
    ASSUME NEW h, h.size \in Nat
    PROVE  /\ Length(h) \in Nat /\ Length(h) = 2 + Blocks(h.size) /\ Blocks(h.size) \in Nat
           /\ Blocks(h.size) = h.size + Len(Padding(h.size)) /\ Len(Padding(h.size)) \in Nat
<1>1. /\ Blocks(h.size) \in Nat /\ BLOCK = 2
      /\ Blocks(h.size) = h.size + Len(Padding(h.size)) /\ Len(Padding(h.size)) \in Nat
  BY Blocked
<1>2. Length(h) = 2 + Blocks(h.size)
  BY <1>1 DEF Length
<1> QED
  BY <1>1, <1>2

\* The borders within the first and the second of two sequences.
LEMMA BordersJoined ==
    ASSUME NEW s, NEW t, s \in Seq(Range(s)), t \in Seq(Range(t)), NEW b
    PROVE  /\ Border(s, b) /\ b # Len(s) => Border(s \o t, b)
           /\ Border(t, b) => Border(s \o t, Len(s) + b)
<1> DEFINE u == s \o t
           m == Len(s)
           n == Len(t)
<1>1. /\ m \in Nat /\ n \in Nat /\ Len(u) = m + n
      /\ \A i \in 1..m : u[i] = s[i]
      /\ \A i \in 1..n : u[m + i] = t[i]
  BY Joined
<1> HIDE DEF u
<1>2. ASSUME Border(s, b), b # m PROVE Border(u, b)
  <2>1. b \in 0..m
    BY <1>2 DEF Border
  <2>2. b \in 0..(m + n) /\ (b + 1 <= m => b + 1 <= m + n) /\ (b + 2 <= m => b + 2 <= m + n)
    BY <1>1, <2>1
  <2>3. (b + 1 <= m => u[b + 1] = s[b + 1]) /\ (b + 2 <= m => u[b + 1] = s[b + 1] /\ u[b + 2] = s[b + 2])
    BY <1>1, <2>1
  <2> QED
    BY <1>1, <1>2, <2>2, <2>3 DEF Border
<1>3. ASSUME Border(t, b) PROVE Border(u, m + b)
  <2>1. b \in 0..n
    BY <1>3 DEF Border
  <2>2. /\ m + b \in 0..(m + n) /\ m + b + 1 = m + (b + 1) /\ m + b + 2 = m + (b + 2)
        /\ (b + 1 <= n => m + b + 1 <= m + n) /\ (b + 2 <= n => m + b + 2 <= m + n)
        /\ (b = n => m + b = m + n)
    <3>1. b \in Nat /\ b <= n /\ m \in Nat /\ n \in Nat
      BY <1>1, <2>1
    <3> QED
      BY <3>1
  <2>3. /\ b + 1 <= n => u[m + b + 1] = t[b + 1]
        /\ b + 2 <= n => u[m + b + 1] = t[b + 1] /\ u[m + b + 2] = t[b + 2]
    <3>1. (b + 1 <= n => b + 1 \in 1..n) /\ (b + 2 <= n => b + 1 \in 1..n /\ b + 2 \in 1..n)
      BY <1>1, <2>1
    <3> QED
      BY <1>1, <2>2, <3>1
  <2> QED
    BY <1>1, <1>3, <2>2, <2>3 DEF Border
<1> QED
  BY <1>2, <1>3 DEF u

\* Two whole archives, one after the other, are one.
LEMMA WholeJoined ==
    ASSUME NEW s, NEW t, Whole(s), Whole(t)
    PROVE  Whole(s \o t)
<1> DEFINE u == s \o t
           m == Len(s)
           n == Len(t)
<1>1. s \in Seq(Range(s)) /\ t \in Seq(Range(t))
  BY DEF Whole
<1>2. /\ u \in Seq(Range(u)) /\ m \in Nat /\ n \in Nat /\ Len(u) = m + n
      /\ \A i \in 1..m : u[i] = s[i]
      /\ \A i \in 1..n : u[m + i] = t[i]
      /\ \A i \in 1..(m + n) : i \in 1..m \/ i - m \in 1..n
  BY <1>1, Joined
<1>3. Border(u, m)
  <2>1. Border(t, 0)
    BY DEF Whole
  <2>2. Border(u, m + 0)
    BY <1>1, <2>1, BordersJoined
  <2> QED
    BY <1>2, <2>2
<1>4. \A b : Border(s, b) => Border(u, b)
  BY <1>1, <1>3, BordersJoined
<1>5. \A b : Border(t, b) => Border(u, m + b)
  BY <1>1, BordersJoined
<1> HIDE DEF u
<1>6. ASSUME NEW i \in 1..m, IsHead(u[i])
      PROVE  u[i].size \in Nat /\ Follows(u, i) /\ Border(u, i - 1 + Length(u[i]))
  <2>1. u[i] = s[i] /\ IsHead(s[i])
    BY <1>2, <1>6
  <2>2. s[i].size \in Nat /\ Follows(s, i) /\ Border(s, i - 1 + Length(s[i]))
    BY <2>1 DEF Whole, Formed
  <2>3. Length(s[i]) \in Nat /\ i - 1 + Length(s[i]) <= m
    BY <2>2, Long DEF Border
  <2>4. ASSUME NEW k \in 1..Length(s[i]) PROVE u[i + k - 1] = Unit(s[i], k)
    <3>1. i + k - 1 \in 1..m /\ i + k - 1 <= m
      BY <1>2, <2>3
    <3>2. s[i + k - 1] = Unit(s[i], k)
      BY <2>2, <3>1 DEF Follows
    <3> QED
      BY <1>2, <3>1, <3>2
  <2> QED
    BY <1>4, <2>1, <2>2, <2>4 DEF Follows
<1>7. ASSUME NEW j \in 1..n, IsHead(u[m + j])
      PROVE  /\ u[m + j].size \in Nat /\ Follows(u, m + j)
             /\ Border(u, m + j - 1 + Length(u[m + j]))
  <2>1. u[m + j] = t[j] /\ IsHead(t[j])
    BY <1>2, <1>7
  <2>2. t[j].size \in Nat /\ Follows(t, j) /\ Border(t, j - 1 + Length(t[j]))
    BY <2>1 DEF Whole, Formed
  <2>3. Length(t[j]) \in Nat /\ m + (j - 1 + Length(t[j])) = m + j - 1 + Length(t[j])
    <3>1. Length(t[j]) \in Nat
      BY <2>2, Long
    <3> QED
      BY <1>2, <3>1
  <2>4. ASSUME NEW k \in 1..Length(t[j]), m + j + k - 1 <= m + n
        PROVE  u[m + j + k - 1] = Unit(t[j], k)
    <3>1. j + k - 1 \in 1..n /\ m + (j + k - 1) = m + j + k - 1
      BY <1>2, <2>3, <2>4
    <3>2. j + k - 1 <= n
      BY <1>2, <3>1
    <3>3. t[j + k - 1] = Unit(t[j], k)
      BY <2>2, <3>2 DEF Follows
    <3>4. u[m + (j + k - 1)] = t[j + k - 1]
      BY <1>2, <3>1
    <3> QED
      BY <3>1, <3>3, <3>4
  <2>5. Follows(u, m + j)
    BY <1>2, <2>1, <2>4 DEF Follows
  <2> QED
    BY <1>5, <2>1, <2>2, <2>3, <2>5
<1>8. ASSUME NEW i \in 1..Len(u), IsHead(u[i])
      PROVE  u[i].size \in Nat /\ Follows(u, i) /\ Border(u, i - 1 + Length(u[i]))
  <2>1. CASE i \in 1..m
    BY <1>6, <1>8, <2>1
  <2>2. CASE i - m \in 1..n
    <3>1. m + (i - m) = i
      BY <1>2
    <3>2. IsHead(u[m + (i - m)])
      BY <1>8, <3>1
    <3>3. /\ u[m + (i - m)].size \in Nat /\ Follows(u, m + (i - m))
          /\ Border(u, m + (i - m) - 1 + Length(u[m + (i - m)]))
      BY <1>7, <2>2, <3>2
    <3> QED
      BY <3>1, <3>3
  <2> QED
    BY <1>2, <2>1, <2>2
<1>9. Border(u, 0)
  BY <1>4 DEF Whole
<1> QED
  BY <1>2, <1>8, <1>9 DEF Whole, Formed, u

\* The end of an archive is one.
LEMMA EndWhole == Whole(Zeros(2 * BLOCK)) /\ Whole(<< >>)
<1> DEFINE z == Zeros(2 * BLOCK)
<1>1. 2 * BLOCK = 4
  BY DEF BLOCK
<1>2. z \in Seq(Range(z)) /\ Len(z) = 4 /\ \A i \in 1..4 : z[i] = Zero
  BY <1>1, ZerosHeadless DEF Zeros
<1> HIDE DEF z
<1>3. \A i \in 1..4 : ~IsHead(z[i])
  BY <1>2 DEF Zero, IsHead
<1>4. Border(z, 0)
  BY <1>2 DEF Border
<1>5. Whole(z)
  BY <1>2, <1>3, <1>4 DEF Whole, Formed
<1>6. << >> \in Seq(Range(<< >>)) /\ Len(<< >>) = 0
  BY EmptySeq
<1>7. Whole(<< >>)
  BY <1>6 DEF Whole, Formed, Border
<1> QED
  BY <1>5, <1>7 DEF z

\* What is left of an archive that is cut is formed as it was.
LEMMA Shorter ==
    ASSUME NEW s, NEW t, Len(s) \in Nat, Len(t) \in Nat, Len(s) <= Len(t), Formed(t),
           \A i \in 1..Len(s) : s[i] = t[i]
    PROVE  Formed(s)
<1> SUFFICES ASSUME NEW i \in 1..Len(s), IsHead(s[i])
             PROVE  s[i].size \in Nat /\ Follows(s, i)
  BY DEF Formed
<1>1. i \in 1..Len(t) /\ s[i] = t[i]
  OBVIOUS
<1>2. t[i].size \in Nat /\ Follows(t, i)
  BY <1>1 DEF Formed
<1>3. Length(t[i]) \in Nat
  BY <1>2, Long
<1>4. ASSUME NEW k \in 1..Length(s[i]), i + k - 1 <= Len(s)
      PROVE  s[i + k - 1] = Unit(s[i], k)
  <2>1. i + k - 1 \in 1..Len(s) /\ i + k - 1 <= Len(t) /\ k \in 1..Length(t[i])
    BY <1>1, <1>3, <1>4
  <2> QED
    BY <1>1, <1>2, <2>1 DEF Follows
<1> QED
  BY <1>1, <1>2, <1>4 DEF Follows

\* The units of a file's member.
LEMMA FileUnits ==
    ASSUME NEW p, NEW size \in Nat
    PROVE  /\ Member(p, "file", size) \in Seq(Range(Member(p, "file", size)))
           /\ Len(Member(p, "file", size)) = 2 + Blocks(size)
           /\ \A k \in 1..2 : Member(p, "file", size)[k] = Header(p, "file", size)[k]
           /\ \A k \in 1..size : Member(p, "file", size)[2 + k] = Content(p, size)[k]
           /\ \A k \in 1..Len(Padding(size)) : Member(p, "file", size)[2 + size + k] = Zero
           /\ \A k \in 1..Len(Padding(size)) : Padding(size)[k] = Zero
           /\ Blocks(size) = size + Len(Padding(size))
           /\ Blocks(size) \in Nat /\ Len(Padding(size)) \in Nat /\ BLOCK = 2
<1>1. /\ \A k \in 1..Len(Padding(size)) : Padding(size)[k] = Zero
      /\ Blocks(size) = size + Len(Padding(size))
      /\ Blocks(size) \in Nat /\ Len(Padding(size)) \in Nat /\ BLOCK = 2
  BY Blocked
<1> DEFINE m == Member(p, "file", size)
<1>2. /\ m \in Seq(Range(m)) /\ Len(m) = BLOCK + Blocks(size)
      /\ \A k \in 1..BLOCK : m[k] = Header(p, "file", size)[k]
      /\ \A k \in 1..size : m[BLOCK + k] = Content(p, size)[k]
      /\ \A k \in 1..Len(Padding(size)) : m[BLOCK + size + k] = Zero
  BY MemberUnits
<1> QED
  BY <1>1, <1>2

\* An archive whose last file is being copied is formed.
LEMMA GrowingFormed ==
    ASSUME NEW s, NEW p, NEW size \in Nat, NEW got \in 0..size,
           Growing(s, p, size, got)
    PROVE  Formed(s)
<1>1. PICK a : /\ Whole(a) /\ Len(s) = Len(a) + BLOCK + got
               /\ \A i \in 1..Len(s) : s[i] = (a \o Member(p, "file", size))[i]
  BY DEF Growing
<1> DEFINE m == Member(p, "file", size)
<1>2. /\ m \in Seq(Range(m)) /\ Len(m) = BLOCK + Blocks(size) /\ BLOCK = 2
      /\ Blocks(size) \in Nat /\ Len(Padding(size)) \in Nat
      /\ Blocks(size) = size + Len(Padding(size))
  BY FileUnits
<1>3. Whole(m)
  BY MemberWhole
<1> HIDE DEF m
<1>4. Whole(a \o m)
  BY <1>1, <1>3, WholeJoined
<1>5. Len(a) \in Nat /\ Len(m) \in Nat /\ Len(a \o m) = Len(a) + Len(m)
  BY <1>1, <1>2, Joined DEF Whole
<1>6. got \in Nat /\ got <= Blocks(size)
  BY <1>2
<1>7. Len(s) \in Nat /\ Len(s) <= Len(a \o m)
  BY <1>1, <1>2, <1>5, <1>6
<1>8. Formed(a \o m)
  BY <1>4 DEF Whole
<1>9. \A i \in 1..Len(s) : s[i] = (a \o m)[i]
  BY <1>1 DEF m
<1> DEFINE t == a \o m
<1> HIDE DEF t
<1>10. Formed(t) /\ Len(t) \in Nat /\ Len(s) <= Len(t) /\ \A i \in 1..Len(s) : s[i] = t[i]
  BY <1>5, <1>7, <1>8, <1>9 DEF t
<1> QED
  BY <1>7, <1>10, Shorter

\* A file begins with its header.
LEMMA BeginsGrowing ==
    ASSUME NEW a, Whole(a), NEW p, NEW size \in Nat
    PROVE  Growing(a \o Header(p, "file", size), p, size, 0)
<1> DEFINE h == Header(p, "file", size)
           m == Member(p, "file", size)
<1>1. h \in Seq(Range(h)) /\ Len(h) = 2
  <2>1. h \in Seq(Range(h))
    BY HeaderHeads
  <2> QED
    BY <2>1 DEF Header, BLOCK
<1>2. /\ m \in Seq(Range(m)) /\ \A k \in 1..2 : m[k] = h[k]
      /\ Len(m) = 2 + Blocks(size) /\ Blocks(size) \in Nat /\ BLOCK = 2
  BY FileUnits
<1> HIDE DEF h, m
<1> DEFINE s == a \o h
<1>3. /\ Len(a) \in Nat /\ Len(s) = Len(a) + 2
      /\ \A i \in 1..Len(a) : s[i] = a[i]
      /\ \A i \in 1..2 : s[Len(a) + i] = h[i]
      /\ \A i \in 1..(Len(a) + 2) : i \in 1..Len(a) \/ i - Len(a) \in 1..2
  <2>1. a \in Seq(Range(a))
    BY DEF Whole
  <2>2. /\ Len(a) \in Nat /\ Len(s) = Len(a) + Len(h)
        /\ \A i \in 1..Len(a) : s[i] = a[i]
        /\ \A i \in 1..Len(h) : s[Len(a) + i] = h[i]
        /\ \A i \in 1..(Len(a) + Len(h)) : i \in 1..Len(a) \/ i - Len(a) \in 1..Len(h)
    <3>1. h \in Seq(Range(h))
      BY <1>1
    <3> QED
      BY <2>1, <3>1, Joined
  <2> HIDE DEF s
  <2> QED
    BY <1>1, <2>2
<1>4. /\ \A i \in 1..Len(a) : (a \o m)[i] = a[i]
      /\ \A i \in 1..Len(m) : (a \o m)[Len(a) + i] = m[i]
  BY <1>2, Joined DEF Whole
<1> HIDE DEF s
<1>5. ASSUME NEW i \in 1..Len(s) PROVE s[i] = (a \o m)[i]
  <2>1. CASE i \in 1..Len(a)
    BY <1>3, <1>4, <2>1
  <2>2. CASE i - Len(a) \in 1..2
    <3>1. i - Len(a) \in 1..Len(m) /\ Len(a) + (i - Len(a)) = i
      BY <1>2, <1>3, <2>2
    <3>2. s[Len(a) + (i - Len(a))] = h[i - Len(a)]
      BY <1>3, <2>2
    <3>3. (a \o m)[Len(a) + (i - Len(a))] = m[i - Len(a)]
      BY <1>4, <3>1
    <3> QED
      BY <1>2, <2>2, <3>1, <3>2, <3>3
  <2> QED
    BY <1>3, <2>1, <2>2
<1>6. Len(s) = Len(a) + BLOCK + 0
  BY <1>2, <1>3
<1>7. Growing(s, p, size, 0)
  BY <1>5, <1>6 DEF Growing, m
<1> QED
  BY <1>7 DEF s, h

\* What is copied of it follows.
LEMMA GrowsOn ==
    ASSUME NEW s, s \in Seq(Range(s)), NEW p, NEW size \in Nat, NEW got \in 0..size,
           NEW n \in Nat, got + n <= size, Growing(s, p, size, got)
    PROVE  Growing(s \o SubSeq(Content(p, size), got + 1, got + n), p, size, got + n)
<1>1. PICK a : /\ Whole(a) /\ Len(s) = Len(a) + BLOCK + got
               /\ \A i \in 1..Len(s) : s[i] = (a \o Member(p, "file", size))[i]
  BY DEF Growing
<1> DEFINE d == Content(p, size)
           x == SubSeq(d, got + 1, got + n)
           m == Member(p, "file", size)
<1>20. \A k \in 1..size : m[2 + k] = d[k]
  BY FileUnits
<1>2. /\ m \in Seq(Range(m))
      /\ Len(m) = 2 + Blocks(size) /\ Blocks(size) \in Nat /\ BLOCK = 2
      /\ Blocks(size) = size + Len(Padding(size)) /\ Len(Padding(size)) \in Nat
  BY FileUnits
<1>3. d \in Seq(Range(d)) /\ Len(d) = size
  BY Contents
<1> HIDE DEF d, m
<1>4. x \in Seq(Range(x)) /\ Len(x) = n /\ \A k \in 1..n : x[k] = d[got + k]
  <2>1. /\ got + 1 \in Int /\ got + n \in Int /\ got \in Nat
        /\ \A i \in (got + 1)..(got + n) : i \in 1..Len(d)
    BY <1>3
  <2>2. \A i \in (got + 1)..(got + n) : d[i] \in Range(d)
    <3>1. DOMAIN d = 1..Len(d)
      BY <1>3, OverRange
    <3> QED
      BY <2>1, <3>1 DEF Range
  <2>3. /\ x \in Seq(Range(d))
        /\ Len(x) = IF got + 1 <= got + n THEN got + n - (got + 1) + 1 ELSE 0
        /\ \A i \in 1..(got + n - (got + 1) + 1) : x[i] = d[got + 1 + i - 1]
    BY <2>1, <2>2, SubSeqProperties
  <2>4. got + n - (got + 1) + 1 = n /\ (IF got + 1 <= got + n THEN n ELSE 0) = n
        /\ \A i \in 1..n : got + 1 + i - 1 = got + i
    BY <2>1
  <2> HIDE DEF x
  <2>5. Len(x) = n /\ \A k \in 1..n : x[k] = d[got + k]
    BY <2>3, <2>4
  <2> QED
    BY <2>3, <2>5, OverRange
<1> HIDE DEF x
<1> DEFINE u == s \o x
<1>5. /\ Len(s) \in Nat /\ Len(u) = Len(s) + n
      /\ \A i \in 1..Len(s) : u[i] = s[i]
      /\ \A i \in 1..n : u[Len(s) + i] = x[i]
      /\ \A i \in 1..(Len(s) + n) : i \in 1..Len(s) \/ i - Len(s) \in 1..n
  BY <1>4, Joined
<1>6. /\ Len(a) \in Nat
      /\ \A i \in 1..Len(m) : (a \o m)[Len(a) + i] = m[i]
  BY <1>1, <1>2, Joined DEF Whole
<1> HIDE DEF u
<1>7. got \in Nat
  OBVIOUS
<1>8. ASSUME NEW i \in 1..Len(u) PROVE u[i] = (a \o m)[i]
  <2>1. CASE i \in 1..Len(s)
    BY <1>1, <1>5, <2>1 DEF m
  <2>2. CASE i - Len(s) \in 1..n
    <3> DEFINE k == i - Len(s)
    <3>1. k \in 1..n /\ Len(s) + k = i
      BY <1>5, <2>2
    <3> HIDE DEF k
    <3>2. Len(a) + (2 + (got + k)) = i
      BY <1>1, <1>2, <1>6, <1>7, <3>1
    <3>3. got + k \in 1..size /\ 2 + (got + k) \in 1..Len(m)
      BY <1>2, <1>7, <3>1
    <3>4. u[i] = d[got + k]
      BY <1>4, <1>5, <3>1
    <3>5. (a \o m)[i] = m[2 + (got + k)]
      BY <1>6, <3>2, <3>3
    <3>6. m[2 + (got + k)] = d[got + k]
      BY <1>20, <3>3
    <3> QED
      BY <3>4, <3>5, <3>6
  <2> QED
    BY <1>5, <2>1, <2>2
<1>9. Len(u) = Len(a) + BLOCK + (got + n)
  BY <1>1, <1>2, <1>5, <1>6, <1>7
<1>10. Growing(u, p, size, got + n)
  BY <1>1, <1>8, <1>9 DEF Growing, m
<1> QED
  BY <1>10 DEF u, x, d

\* The padding makes it a member like the others.
LEMMA GrowthEnds ==
    ASSUME NEW s, s \in Seq(Range(s)), NEW p, NEW size \in Nat,
           Growing(s, p, size, size)
    PROVE  Whole(s \o Padding(size))
<1>1. PICK a : /\ Whole(a) /\ Len(s) = Len(a) + BLOCK + size
               /\ \A i \in 1..Len(s) : s[i] = (a \o Member(p, "file", size))[i]
  BY DEF Growing
<1> DEFINE z == Padding(size)
           m == Member(p, "file", size)
<1>20. \A k \in 1..Len(z) : m[2 + size + k] = Zero
  BY FileUnits
<1>2. /\ m \in Seq(Range(m))
      /\ Len(m) = 2 + Blocks(size) /\ BLOCK = 2
      /\ Blocks(size) = size + Len(z) /\ Len(z) \in Nat
      /\ \A k \in 1..Len(z) : z[k] = Zero
  BY FileUnits
<1>3. z \in Seq(Range(z))
  BY PaddingHeadless
<1>4. Whole(a \o m)
  BY <1>1, MemberWhole, WholeJoined
<1> HIDE DEF z, m
<1> DEFINE u == s \o z
           t == a \o m
<1>5. /\ Len(s) \in Nat /\ Len(u) = Len(s) + Len(z)
      /\ \A i \in 1..Len(s) : u[i] = s[i]
      /\ \A i \in 1..Len(z) : u[Len(s) + i] = z[i]
      /\ \A i \in 1..(Len(s) + Len(z)) : i \in 1..Len(s) \/ i - Len(s) \in 1..Len(z)
      /\ u \in Seq(Range(u))
  BY <1>3, Joined
<1>6. /\ Len(a) \in Nat /\ Len(t) = Len(a) + Len(m) /\ t \in Seq(Range(t))
      /\ \A i \in 1..Len(m) : t[Len(a) + i] = m[i]
  <2>1. a \in Seq(Range(a))
    BY <1>1 DEF Whole
  <2>2. m \in Seq(Range(m))
    BY <1>2
  <2> QED
    BY <2>1, <2>2, Joined
<1>7. \A i \in 1..Len(s) : s[i] = t[i]
  BY <1>1 DEF m
<1> HIDE DEF u, t
<1>8. Len(u) = Len(t)
  BY <1>1, <1>2, <1>5, <1>6
<1>9. ASSUME NEW i \in 1..Len(u) PROVE u[i] = t[i]
  <2>1. CASE i \in 1..Len(s)
    BY <1>5, <1>7, <2>1
  <2>2. CASE i - Len(s) \in 1..Len(z)
    <3> DEFINE k == i - Len(s)
    <3>1. k \in 1..Len(z) /\ Len(s) + k = i
      BY <1>5, <2>2
    <3> HIDE DEF k
    <3>2. Len(a) + (2 + size + k) = i /\ 2 + size + k \in 1..Len(m)
      BY <1>1, <1>2, <1>6, <3>1
    <3>3. u[i] = Zero
      BY <1>2, <1>5, <3>1
    <3>4. t[i] = m[2 + size + k]
      BY <1>6, <3>2
    <3> QED
      BY <1>20, <3>1, <3>3, <3>4
  <2> QED
    BY <1>5, <2>1, <2>2
<1>10. u = t
  <2> DEFINE S == Range(u) \cup Range(t)
  <2>1. u \in Seq(S) /\ t \in Seq(S)
    BY <1>5, <1>6, SeqMonotonic
  <2> HIDE DEF S
  <2> QED
    BY <1>8, <1>9, <2>1, SeqEqual
<1> QED
  BY <1>4, <1>10 DEF u, t, z

\* A concatenation of whole archives is one.
LEMMA WholeFlattened ==
    ASSUME NEW n \in Nat, NEW ss, ss \in Seq(Range(ss)), Len(ss) = n,
           \A i \in 1..n : Whole(ss[i])
    PROVE  Whole(FlattenSeq(ss))
<1>1. CASE n = 0
  <2>1. FlattenSeq(ss) = ss
    BY <1>1 DEF FlattenSeq
  <2>2. ss = << >>
    BY <1>1, EmptySeq
  <2> QED
    BY <2>1, <2>2, EndWhole
<1>2. CASE n # 0
  <2>1. PICK f : Concatenates(f, ss, n) /\ FlattenSeq(ss) = f[n]
    BY <1>2, Concatenation
  <2>2. \A i \in 1..n : f[i] = IF i = 1 THEN ss[i] ELSE f[i - 1] \o ss[i]
    BY <2>1 DEF Concatenates
  <2> DEFINE S == {m \in Nat : m \in 1..n => Whole(f[m])}
  <2>3. 0 \in S
    OBVIOUS
  <2>4. ASSUME NEW m \in Nat, m \in S PROVE m + 1 \in S
    <3> SUFFICES ASSUME m + 1 \in 1..n PROVE Whole(f[m + 1])
      OBVIOUS
    <3>1. CASE m = 0
      <4>1. f[1] = ss[1] /\ 1 \in 1..n
        BY <2>2, <3>1
      <4> QED
        BY <3>1, <4>1
    <3>2. CASE m # 0
      <4>1. m \in 1..n /\ m + 1 # 1 /\ m + 1 - 1 = m
        BY <3>2
      <4>2. f[m + 1] = IF m + 1 = 1 THEN ss[m + 1] ELSE f[m + 1 - 1] \o ss[m + 1]
        BY <2>2
      <4>3. f[m + 1] = f[m] \o ss[m + 1]
        BY <4>1, <4>2
      <4> QED
        BY <2>4, <4>1, <4>3, WholeJoined
    <3> QED
      BY <3>1, <3>2
  <2> HIDE DEF S
  <2>5. n \in S
    BY <2>3, <2>4, Induction
  <2> USE DEF S
  <2>6. Whole(f[n])
    BY <1>2, <2>5
  <2> QED
    BY <2>1, <2>6
<1> QED
  BY <1>1, <1>2

-----------------------------------------------------------------------------
(* The backup keeps the archive in this form.                              *)

Open == bpc \notin {"body", "done", "failed"}

\* A header without contents is a member.
LEMMA HeaderMember ==
    ASSUME NEW p, NEW kind
    PROVE  Header(p, kind, 0) = Member(p, kind, 0)
<1> DEFINE h == Header(p, kind, 0)
           S == Range(h)
<1>1. Content(p, 0) \in Seq(Range(Content(p, 0))) /\ Len(Content(p, 0)) = 0
  BY Contents
<1>2. Padding(0) \in Seq({Zero}) /\ Len(Padding(0)) = 0
  BY Blocked
<1>3. Content(p, 0) = << >> /\ Padding(0) = << >>
  BY <1>1, <1>2, EmptySeq
<1>4. h \in Seq(S)
  BY HeaderHeads
<1>5. h \o << >> = h
  <2> HIDE DEF h, S
  <2> QED
    BY <1>4, ConcatEmptySeq
<1>6. Member(p, kind, 0) = (h \o << >>) \o << >>
  BY <1>3 DEF Member
<1> QED
  BY <1>5, <1>6

\* A header added is honest if it tells what the tree says.
LEMMA HonestHeads ==
    ASSUME TarInv, setup \in Setups, setup' = setup, NEW u,
           Heads(archive') \subseteq Heads(archive) \cup {u}, Honest(Tree, u)
    PROVE  \A h \in Heads(archive') : Honest(Tree', h)
  BY Same DEF TarInv

\* A directory or a link adds its header.
LEMMA TarWrites ==
    ASSUME IInv, TarInv, setup' = setup, full' = full, Open, Open',
           NEW p \in DOMAIN Tree, NEW kind \in {"dir", "link"}, Tree[p].kind = kind,
           Write(Header(p, kind, 0))
    PROVE  TarInv'
<1> DEFINE u == Mark(p, kind, 0)
           x == Header(p, kind, 0)
<1>1. /\ setup \in Setups /\ archive \in Seq(Range(archive))
      /\ \A f : Fault(f)' <=> Fault(f)
  BY Same DEF IInv
<1>2. Heads(archive') \subseteq Heads(archive) \cup {u}
  BY <1>1, WriteHeader
<1>3. Honest(Tree, u)
  BY DEF Honest, Mark
<1>4. \A h \in Heads(archive') : Honest(Tree', h)
  <2> HIDE DEF u
  <2> QED
    BY <1>1, <1>2, <1>3, HonestHeads
<1>5. Whole(x)
  BY HeaderMember, MemberWhole
<1>6. archive' = IF full THEN archive ELSE archive \o x
  BY DEF Write
<1> HIDE DEF x, u
<1>7. ~Fault("read") /\ ~full => Whole(archive')
  BY <1>5, <1>6, WholeJoined DEF TarInv, Open
<1>8. ~Fault("read") => Formed(archive')
  BY <1>6, <1>7 DEF TarInv, Whole
<1> QED
  BY <1>1, <1>4, <1>7, <1>8 DEF TarInv, Open

\* A file starts with its header.
LEMMA TarStarts ==
    ASSUME IInv, TarInv, setup' = setup, full' = full, Open, bpc' = "body",
           NEW p \in DOMAIN Tree, Tree[p].kind # "dir", StartCopy(p)
    PROVE  TarInv'
<1> DEFINE n == Tree[p].size
           u == Mark(p, "file", n)
           x == Header(p, "file", n)
<1>1. /\ setup \in Setups /\ archive \in Seq(Range(archive)) /\ Tree' = Tree
      /\ \A f : Fault(f)' <=> Fault(f)
  BY Same DEF IInv
<1>2. n \in Nat
  BY <1>1, Trees DEF IsTree
<1>3. Heads(archive') \subseteq Heads(archive) \cup {u}
  BY <1>1, WriteHeader DEF StartCopy
<1>4. Honest(Tree, u)
  BY <1>2 DEF Honest, Mark
<1>5. \A h \in Heads(archive') : Honest(Tree', h)
  <2> HIDE DEF u
  <2> QED
    BY <1>1, <1>3, <1>4, HonestHeads
<1>6. /\ archive' = IF full THEN archive ELSE archive \o x
      /\ body' = [path |-> p, size |-> n, got |-> 0, ended |-> n = 0]
  BY DEF Write, StartCopy
<1>7. /\ body'.path = p /\ body'.size = n /\ body'.got = 0
      /\ body'.ended => body'.got = body'.size
  <2> HIDE DEF n
  <2> QED
    BY <1>6
<1> HIDE DEF u
<1>8. ~Fault("read") /\ ~full => Growing(archive', p, n, 0)
  <2>1. ASSUME Whole(archive) PROVE Growing(archive \o x, p, n, 0)
    <3> HIDE DEF n
    <3> QED
      BY <1>2, <2>1, BeginsGrowing DEF x
  <2> QED
    BY <1>6, <2>1 DEF TarInv, Open
<1>9. ~Fault("read") => Formed(archive')
  <2>1. ~Fault("read") /\ ~full => Formed(archive')
    <3> HIDE DEF n
    <3>1. 0 \in 0..n
      BY <1>2
    <3> QED
      BY <1>2, <1>8, <3>1, GrowingFormed
  <2> QED
    BY <1>6, <2>1 DEF TarInv
<1>10. body'.size = Tree'[body'.path].size
  BY <1>1, <1>7
<1> HIDE DEF n, x
<1> QED
  BY <1>1, <1>5, <1>7, <1>8, <1>9, <1>10 DEF TarInv

\* The contents follow.
LEMMA TarCopies ==
    ASSUME IInv, TarInv, CopyUnits, setup' = setup
    PROVE  TarInv'
<1>1. /\ setup \in Setups /\ archive \in Seq(Range(archive)) /\ Tree' = Tree
      /\ \A f : Fault(f)' <=> Fault(f)
  BY Same DEF IInv
<1>2. bpc = "body" /\ bpc' = "body" /\ ~body.ended /\ full' = full
  BY DEF CopyUnits
<1>3. /\ body.size \in Nat /\ body.got \in 0..body.size /\ body.got < body.size
      /\ body = [path |-> body.path, size |-> body.size, got |-> body.got, ended |-> body.ended]
  BY <1>2 DEF IInv, WalkInv
<1>4. PICK n \in 1..Min({EFS_MAX_READ_REQ, body.size - body.got}) :
         /\ Write(SubSeq(Content(body.path, body.size), body.got + 1, body.got + n))
         /\ body' = [body EXCEPT !.got = @ + n, !.ended = full \/ body.got + n = body.size]
  BY DEF CopyUnits
<1>5. n \in Nat /\ n >= 1 /\ body.got + n <= body.size /\ body.got \in Nat
  <2>1. EFS_MAX_READ_REQ \in Nat /\ body.size - body.got \in Nat
    BY <1>3, EfsConstants
  <2> DEFINE m == Min({EFS_MAX_READ_REQ, body.size - body.got})
  <2>2. m \in Nat /\ m <= body.size - body.got
    BY <2>1, Lesser
  <2>3. n \in 1..m
    OBVIOUS
  <2> HIDE DEF m
  <2>4. n \in Nat /\ n >= 1 /\ n <= body.size - body.got
    BY <2>1, <2>2, <2>3
  <2> QED
    BY <1>3, <2>4
<1>6. /\ body'.path = body.path /\ body'.size = body.size /\ body'.got = body.got + n
      /\ body'.ended => full \/ body'.got = body'.size
  <2>1. body' = [path |-> body.path, size |-> body.size, got |-> body.got + n,
                 ended |-> full \/ body.got + n = body.size]
    BY <1>3, <1>4
  <2> QED
    BY <2>1
<1> DEFINE x == SubSeq(Content(body.path, body.size), body.got + 1, body.got + n)
<1>7. archive' = IF full THEN archive ELSE archive \o x
  BY <1>4 DEF Write
<1>8. Heads(archive') \subseteq Heads(archive)
  <2>1. body.got + 1 \in 1..(body.size + 1) /\ body.got + n \in 0..body.size
    BY <1>3, <1>5
  <2>2. x \in Seq(Range(x)) /\ Heads(x) = {} /\ Distinct(x)
    BY <1>3, <2>1, ContentHeadless
  <2> HIDE DEF x
  <2>3. Write(x)
    BY <1>4 DEF x
  <2> QED
    BY <1>1, <2>2, <2>3, WriteHeadless
<1>9. ~Fault("read") /\ ~full => Growing(archive', body'.path, body'.size, body'.got)
  <2> SUFFICES ASSUME ~Fault("read"), ~full
               PROVE  Growing(archive \o x, body.path, body.size, body.got + n)
    BY <1>6, <1>7
  <2>1. Growing(archive, body.path, body.size, body.got)
    BY <1>2 DEF TarInv
  <2> QED
    BY <1>1, <1>3, <1>5, <2>1, GrowsOn
<1> HIDE DEF x
<1>10. ~Fault("read") => Formed(archive')
  <2>1. body'.size \in Nat /\ body'.got \in 0..body'.size
    BY <1>3, <1>5, <1>6
  <2>2. ~Fault("read") /\ ~full => Formed(archive')
    BY <1>9, <2>1, GrowingFormed
  <2> QED
    BY <1>7, <2>2 DEF TarInv
<1>11. \A h \in Heads(archive') : Honest(Tree', h)
  BY <1>1, <1>8 DEF TarInv
<1>12. body'.size = Tree'[body'.path].size
  BY <1>1, <1>2, <1>6 DEF TarInv
<1> QED
  BY <1>1, <1>2, <1>6, <1>9, <1>10, <1>11, <1>12 DEF TarInv

\* And the padding.
LEMMA TarFinishes ==
    ASSUME IInv, TarInv, FinishCopy, setup' = setup
    PROVE  TarInv'
<1>1. /\ setup \in Setups /\ archive \in Seq(Range(archive)) /\ Tree' = Tree
      /\ \A f : Fault(f)' <=> Fault(f)
  BY Same DEF IInv
<1>2. /\ bpc = "body" /\ body.ended /\ full' = full
      /\ bpc' = IF stack = << >> THEN "probe" ELSE "entry"
      /\ Write(Padding(body.size))
  BY DEF FinishCopy
<1>3. body.size \in Nat
  BY <1>2 DEF IInv, WalkInv
<1> DEFINE x == Padding(body.size)
<1>4. archive' = IF full THEN archive ELSE archive \o x
  BY <1>2 DEF Write
<1>5. Heads(archive') \subseteq Heads(archive)
  <2>1. x \in Seq(Range(x)) /\ Heads(x) = {} /\ Distinct(x)
    BY <1>3, PaddingHeadless
  <2> HIDE DEF x
  <2>2. Write(x)
    BY <1>2 DEF x
  <2> QED
    BY <1>1, <2>1, <2>2, WriteHeadless
<1>6. ~Fault("read") /\ ~full => Whole(archive')
  <2> SUFFICES ASSUME ~Fault("read"), ~full PROVE Whole(archive \o x)
    BY <1>4
  <2>1. Growing(archive, body.path, body.size, body.got) /\ body.got = body.size
    BY <1>2 DEF TarInv
  <2>2. Growing(archive, body.path, body.size, body.size)
    BY <2>1
  <2> QED
    BY <1>1, <1>3, <2>2, GrowthEnds
<1> HIDE DEF x
<1>7. ~Fault("read") => Formed(archive')
  BY <1>4, <1>6 DEF TarInv, Whole
<1>8. \A h \in Heads(archive') : Honest(Tree', h)
  BY <1>1, <1>5 DEF TarInv
<1>9. bpc' \in {"probe", "entry"}
  BY <1>2
<1> QED
  BY <1>1, <1>2, <1>6, <1>7, <1>8, <1>9 DEF TarInv

\* And two blocks of zeros at the end.
LEMMA TarEnds ==
    ASSUME IInv, TarInv, EndArchive, setup' = setup
    PROVE  TarInv'
<1>1. /\ setup \in Setups /\ archive \in Seq(Range(archive)) /\ Tree' = Tree
      /\ \A f : Fault(f)' <=> Fault(f)
  BY Same DEF IInv
<1>2. /\ bpc = "probe" /\ bpc' = IF full THEN "failed" ELSE "done"
      /\ full' = full /\ Write(Zeros(2 * BLOCK))
  BY DEF EndArchive
<1> DEFINE x == Zeros(2 * BLOCK)
<1>3. archive' = IF full THEN archive ELSE archive \o x
  BY <1>2 DEF Write
<1>4. x \in Seq(Range(x)) /\ Heads(x) = {} /\ Distinct(x)
  BY ZerosHeadless DEF BLOCK
<1>5. Whole(x)
  BY EndWhole
<1> HIDE DEF x
<1>6. Heads(archive') \subseteq Heads(archive)
  <2>1. Write(x)
    BY <1>2 DEF x
  <2> QED
    BY <1>1, <1>4, <2>1, WriteHeadless
<1>7. ~Fault("read") /\ ~full => Whole(archive')
  BY <1>2, <1>3, <1>5, WholeJoined DEF TarInv
<1>8. ~Fault("read") => Formed(archive')
  BY <1>3, <1>7 DEF TarInv, Whole
<1>9. \A h \in Heads(archive') : Honest(Tree', h)
  BY <1>1, <1>6 DEF TarInv
<1>10. bpc' \in {"done", "failed"} /\ (bpc' = "done" => ~full)
  BY <1>2
<1> QED
  BY <1>1, <1>2, <1>7, <1>8, <1>9, <1>10 DEF TarInv

\* Where nothing is written, nothing changes.
LEMMA TarStays ==
    ASSUME TarInv, setup \in Setups, setup' = setup, archive' = archive, Open, Open', full' = full
    PROVE  TarInv'
<1>1. Tree' = Tree /\ \A f : Fault(f)' <=> Fault(f)
  BY Same
<1> QED
  BY <1>1 DEF TarInv, Open

\* All steps of the backup.
LEMMA TarNext ==
    ASSUME IInv, TarInv, BackupNext, setup' = setup
    PROVE  TarInv'
<1>1. /\ setup \in Setups /\ IsTree(Tree) /\ Tree' = Tree /\ \A f : Fault(f)' <=> Fault(f)
  BY Same DEF IInv
<1>2. CASE OpenDir \/ OpenDirFails \/ ReadDir \/ ReadDirEnds \/ EnterDir \/ EntryFails \/ LeaveDir
           \/ ProbeSkips
  <2>1. archive' = archive /\ full' = full
    BY <1>2 DEF OpenDir, OpenDirFails, ReadDir, ReadDirEnds, EnterDir, EntryFails, LeaveDir,
                ProbeSkips
  <2>2. CASE Open'
    <3>1. Open
      BY <1>2 DEF OpenDir, OpenDirFails, ReadDir, ReadDirEnds, EnterDir, EntryFails, LeaveDir,
                  ProbeSkips, NextEntry, Open
    <3> QED
      BY <1>1, <2>1, <2>2, <3>1, TarStays
  <2>3. CASE ~Open'
    <3>1. bpc' = "failed"
      BY <1>2, <2>3 DEF OpenDir, OpenDirFails, ReadDir, ReadDirEnds, EnterDir, EntryFails,
                        LeaveDir, ProbeSkips, NextEntry, Open, Return
    <3> QED
      BY <1>1, <2>1, <3>1 DEF TarInv
  <2> QED
    BY <2>2, <2>3
<1>3. CASE CloseDir
  <2>1. bpc = "closedir" /\ Open /\ Open' /\ full' = full
    BY <1>3 DEF CloseDir, Open
  <2>2. CASE archive' = archive
    BY <1>1, <2>1, <2>2, TarStays
  <2>3. CASE Top.path # Root /\ Write(Header(Top.path, "dir", 0))
    <3>1. IsStack(Tree, stack) /\ stack # << >>
      BY <2>1 DEF IInv, WalkInv, Walking, Reading
    <3>2. IsFrame(Tree, Top)
      BY <1>1, <3>1, OnTop DEF Top
    <3>3. Top.path \in DOMAIN Tree /\ Tree[Top.path].kind = "dir"
      BY <2>3, <3>2 DEF IsFrame
    <3> QED
      BY <2>1, <2>3, <3>3, TarWrites
  <2> QED
    BY <1>3, <2>2, <2>3 DEF CloseDir
<1>4. CASE CopyLink
  <2> DEFINE p == Head(Top.entries)
  <2>1. /\ bpc = "entry" /\ bpc' = "entry" /\ full' = full /\ Top.entries # << >>
        /\ Tree[p].kind = "link" /\ Write(Header(p, "link", 0))
    BY <1>4 DEF CopyLink, NextEntry
  <2>2. p \in DOMAIN Tree
    BY <2>1, Taken DEF Child
  <2> HIDE DEF p
  <2> QED
    BY <2>1, <2>2, TarWrites DEF Open
<1>5. CASE OpenFile
  <2> DEFINE p == Head(Top.entries)
  <2>1. /\ bpc = "entry" /\ bpc' = "body" /\ full' = full /\ Top.entries # << >>
        /\ Tree[p].kind = "file" /\ StartCopy(p)
    BY <1>5 DEF OpenFile, NextEntry
  <2>2. p \in DOMAIN Tree
    BY <2>1, Taken DEF Child
  <2> HIDE DEF p
  <2> QED
    BY <2>1, <2>2, TarStarts DEF Open
<1>6. CASE ProbeFile
  <2> DEFINE p == Head(probe)
  <2>1. /\ bpc = "probe" /\ bpc' = "body" /\ full' = full
        /\ p \in DOMAIN Tree /\ Tree[p].kind # "dir" /\ StartCopy(p)
    BY <1>6 DEF ProbeFile, Wanted
  <2> HIDE DEF p
  <2> QED
    BY <2>1, TarStarts DEF Open
<1>7. CASE CopyFails
  <2>1. /\ bpc = "body" /\ bpc' = "body" /\ Fault("read") /\ archive' = archive
        /\ body' = [body EXCEPT !.ended = TRUE]
    BY <1>7 DEF CopyFails
  <2>2. body'.size = body.size /\ body'.path = body.path
    <3>1. body = [path |-> body.path, size |-> body.size, got |-> body.got, ended |-> body.ended]
      BY <2>1 DEF IInv, WalkInv
    <3> QED
      BY <2>1, <3>1
  <2> QED
    BY <1>1, <2>1, <2>2 DEF TarInv
<1> QED
  BY <1>2, <1>3, <1>4, <1>5, <1>6, <1>7, TarCopies, TarFinishes, TarEnds DEF BackupNext

\* The disk that fills up, and the copy that is cut short.
LEMMA TarOutside ==
    ASSUME IInv, TarInv, Disk \/ Cut
    PROVE  TarInv'
<1>1. /\ setup \in Setups /\ setup' = setup /\ archive \in Seq(Range(archive)) /\ Tree' = Tree
      /\ \A f : Fault(f)' <=> Fault(f)
  BY Same DEF IInv, Disk, Cut
<1>2. CASE Disk
  BY <1>1, <1>2 DEF Disk, DiskFills, TarInv
<1>3. CASE Cut
  <2>1. /\ Fault("cut") /\ bpc = "done" /\ bpc' = "done"
        /\ \E n \in 0..(Len(archive) - 1) : archive' = SubSeq(archive, 1, n)
    BY <1>3 DEF Cut, backupVars
  <2>2. PICK n \in 0..(Len(archive) - 1) : archive' = SubSeq(archive, 1, n)
    BY <2>1
  <2>3. Len(archive) \in Nat /\ n \in 0..Len(archive)
    BY <1>1, OverRange
  <2>4. Heads(archive') \subseteq Heads(archive)
    BY <1>1, <2>2, <2>3, CutHeads
  <2>5. /\ Len(archive') = n /\ \A i \in 1..n : archive'[i] = archive[i]
    <3>1. DOMAIN archive = 1..Len(archive) /\ 1 \in Int /\ n \in Int
      BY <1>1, <2>3, OverRange
    <3>2. \A i \in 1..n : archive[i] \in Range(archive)
      BY <2>3, <3>1 DEF Range
    <3>3. /\ Len(archive') = (IF 1 <= n THEN n - 1 + 1 ELSE 0)
          /\ \A i \in 1..(n - 1 + 1) : archive'[i] = archive[1 + i - 1]
      BY <2>2, <3>1, <3>2, SubSeqProperties
    <3>4. n - 1 + 1 = n /\ n \in Nat /\ \A i \in 1..n : 1 + i - 1 = i
      BY <2>3
    <3> QED
      BY <3>3, <3>4
  <2>6. ~Fault("read") => Formed(archive')
    <3>1. Len(archive') \in Nat /\ Len(archive') <= Len(archive)
      BY <2>3, <2>5
    <3> QED
      BY <2>3, <2>5, <3>1, Shorter DEF TarInv
  <2> QED
    BY <1>1, <2>1, <2>4, <2>6 DEF TarInv
<1> QED
  BY <1>2, <1>3

\* Of a concatenation, each header is one of its parts'.
LEMMA HonestMember ==
    ASSUME NEW t, NEW p, NEW kind, NEW size \in Nat, Honest(t, Mark(p, kind, size)),
           NEW h \in Heads(Member(p, kind, size))
    PROVE  Honest(t, h)
<1>1. h = Mark(p, kind, size)
  BY MemberHeads
<1> QED
  BY <1>1

\* The archive of xqcn2tar is whole and honest.
LEMMA ConvertedWhole ==
    ASSUME setup \in Setups, setup.nv \in Nat
    PROVE  Whole(Converted) /\ \A h \in Heads(Converted) : Honest(Tree, h)
<1> DEFINE a == FlattenSeq(Items)
           b == FlattenSeq(Members)
           z == Zeros(2 * BLOCK)
           n == setup.nv
           l == Len(FileList)
<1>1. /\ n \in Nat /\ l \in Nat
      /\ Items \in Seq(Range(Items)) /\ Len(Items) = n
      /\ Members \in Seq(Range(Members)) /\ Len(Members) = l
  BY Parts
<1>2. ASSUME NEW i \in 1..n
      PROVE  /\ Whole(Items[i]) /\ Items[i] \in Seq(Range(Items[i])) /\ Distinct(Items[i])
             /\ Heads(Items[i]) \subseteq {Mark(<<"nv_items", i>>, "nv", 1)}
             /\ \A h \in Heads(Items[i]) : Honest(Tree, h)
  <2>1. Items[i] = Member(<<"nv_items", i>>, "nv", 1)
    BY Parts
  <2>2. Honest(Tree, Mark(<<"nv_items", i>>, "nv", 1))
    BY DEF Honest, Mark
  <2> QED
    BY <2>1, <2>2, MemberWhole, MemberHeads, HonestMember
<1>3. ASSUME NEW i \in 1..l
      PROVE  /\ Whole(Members[i]) /\ Members[i] \in Seq(Range(Members[i])) /\ Distinct(Members[i])
             /\ Heads(Members[i]) \subseteq {Mark(FileList[i], "file", Tree[FileList[i]].size)}
             /\ \A h \in Heads(Members[i]) : Honest(Tree, h)
  <2> DEFINE p == FileList[i]
  <2>1. /\ Members[i] = Member(p, "file", Tree[p].size)
        /\ p \in DOMAIN Tree /\ Tree[p].size \in Nat /\ Tree[p].kind = "file"
    BY Parts
  <2> HIDE DEF p
  <2>2. Honest(Tree, Mark(p, "file", Tree[p].size))
    BY <2>1 DEF Honest, Mark
  <2> QED
    BY <2>1, <2>2, MemberWhole, MemberHeads, HonestMember DEF p
<1>4. \A i, j \in 1..n : i # j => Heads(Items[i]) \cap Heads(Items[j]) = {}
  <2>1. \A i, j : Mark(<<"nv_items", i>>, "nv", 1) = Mark(<<"nv_items", j>>, "nv", 1) => i = j
    BY DEF Mark
  <2> QED
    BY <1>2, <2>1
<1>5. \A i, j \in 1..l : i # j => Heads(Members[i]) \cap Heads(Members[j]) = {}
  <2>1. \A p, q, s, t : Mark(p, "file", s) = Mark(q, "file", t) => p = q
    BY DEF Mark
  <2>2. \A i, j \in 1..l : i # j => FileList[i] # FileList[j]
    BY Parts
  <2> SUFFICES ASSUME NEW i \in 1..l, NEW j \in 1..l, i # j,
                      NEW h \in Heads(Members[i]), h \in Heads(Members[j])
               PROVE  FALSE
    OBVIOUS
  <2>3. /\ h = Mark(FileList[i], "file", Tree[FileList[i]].size)
        /\ h = Mark(FileList[j], "file", Tree[FileList[j]].size)
    BY <1>3
  <2>4. FileList[i] = FileList[j]
    BY <2>1, <2>3
  <2> QED
    BY <2>2, <2>4
<1>6. Whole(a) /\ \A h \in Heads(a) : Honest(Tree, h)
  <2>1. Whole(a)
    BY <1>1, <1>2, WholeFlattened
  <2>2. \A h \in Heads(a) : \E i \in 1..n : h \in Heads(Items[i])
    BY <1>1, <1>2, <1>4, Flattened
  <2> QED
    BY <1>2, <2>1, <2>2
<1>7. Whole(b) /\ \A h \in Heads(b) : Honest(Tree, h)
  <2>1. Whole(b)
    BY <1>1, <1>3, WholeFlattened
  <2>2. \A h \in Heads(b) : \E i \in 1..l : h \in Heads(Members[i])
    BY <1>1, <1>3, <1>5, Flattened
  <2> QED
    BY <1>3, <2>1, <2>2
<1>8. Whole(z) /\ Heads(z) = {}
  BY EndWhole, ZerosHeadless DEF BLOCK
<1>9. Converted = a \o b \o z
  BY DEF Converted, Items, Members, FileList
<1> HIDE DEF a, b, z
<1>10. Whole(a \o b) /\ \A h \in Heads(a \o b) : Honest(Tree, h)
  <2>1. a \in Seq(Range(a)) /\ b \in Seq(Range(b))
    BY <1>6, <1>7 DEF Whole
  <2>2. Heads(a \o b) \subseteq Heads(a) \cup Heads(b)
    BY <2>1, HeadsJoined
  <2> QED
    BY <1>6, <1>7, <2>2, WholeJoined
<1> DEFINE ab == a \o b
<1>11. Whole(ab) /\ \A h \in Heads(ab) : Honest(Tree, h)
  BY <1>10
<1> HIDE DEF ab
<1>12. Whole(ab \o z) /\ \A h \in Heads(ab \o z) : Honest(Tree, h)
  <2>1. ab \in Seq(Range(ab)) /\ z \in Seq(Range(z))
    BY <1>8, <1>11 DEF Whole
  <2>2. Heads(ab \o z) \subseteq Heads(ab) \cup Heads(z)
    BY <2>1, HeadsJoined
  <2> QED
    BY <1>8, <1>11, <2>2, WholeJoined
<1> QED
  BY <1>9, <1>12 DEF ab

\* So it is in the beginning.
LEMMA TarInit == Init => TarInv
<1> SUFFICES ASSUME Init PROVE TarInv
  OBVIOUS
<1>1. /\ setup \in Setups
      /\ bpc = IF setup.nv = 0 THEN "opendir" ELSE "done"
      /\ archive = IF setup.nv = 0 THEN << >> ELSE Converted
  BY DEF Init, BackupInit
<1>2. setup.nv \in Nat
  BY <1>1, EfsConstants DEF IsSetup
<1>3. Whole(archive) /\ \A h \in Heads(archive) : Honest(Tree, h)
  <2>1. Heads(<< >>) = {}
    BY DEF Heads
  <2> QED
    BY <1>1, <1>2, <2>1, EndWhole, ConvertedWhole
<1>4. bpc # "body"
  BY <1>1
<1> QED
  BY <1>3, <1>4 DEF TarInv, Whole
-----------------------------------------------------------------------------
(* Reading the archive.                                                    *)

RInv == PlaceInv /\ CopyInv /\ EndInv /\ WarnInv

\* A step of the restore leaves the backup alone.
Steady == bpc = "done" /\ UNCHANGED <<setup, archive, backupVars>>

\* The lesser of two numbers is one of them.
LEMMA Smaller ==
    ASSUME NEW a \in Nat, NEW b \in Nat
    PROVE  Min({a, b}) = IF a <= b THEN a ELSE b
<1>1. \E x \in {a, b} : \A y \in {a, b} : x <= y
  <2>1. CASE a <= b
    BY <2>1
  <2>2. CASE b <= a
    BY <2>2
  <2> QED
    BY <2>1, <2>2
<1>2. Min({a, b}) \in {a, b} /\ \A y \in {a, b} : Min({a, b}) <= y
  BY <1>1 DEF Min
<1> QED
  BY <1>2

\* What a read returns.
LEMMA AheadUnits ==
    ASSUME archive \in Seq(Range(archive)), pos \in 0..Len(archive), NEW n \in Nat
    PROVE  /\ Ahead(n) \in Seq(Range(Ahead(n)))
           /\ Len(Ahead(n)) = IF pos + n <= Len(archive) THEN n ELSE Len(archive) - pos
           /\ \A k \in 1..Len(Ahead(n)) : /\ Ahead(n)[k] = archive[pos + k]
                                          /\ pos + k \in 1..Len(archive) /\ k <= n
           /\ Len(archive) \in Nat /\ pos \in Nat /\ Len(Ahead(n)) \in 0..n
           /\ Len(Ahead(n)) = 0 <=> Ahead(n) = << >>
           /\ pos + Len(Ahead(n)) \in 0..Len(archive)
<1> DEFINE l == Len(archive)
           e == Min({pos + n, l})
           x == Ahead(n)
<1>1. l \in Nat /\ DOMAIN archive = 1..l /\ pos \in Nat /\ pos <= l
  BY OverRange
<1>2. e = IF pos + n <= l THEN pos + n ELSE l
  BY <1>1, Smaller
<1>3. x = SubSeq(archive, pos + 1, e)
  BY DEF Ahead
<1> HIDE DEF l, x, e
<1>4. e \in Nat /\ pos <= e /\ e <= l /\ e <= pos + n
  BY <1>1, <1>2
<1>5. \A i \in (pos + 1)..e : archive[i] \in Range(archive)
  BY <1>1, <1>4 DEF Range
<1>6. /\ pos + 1 \in Int /\ e \in Int /\ e - (pos + 1) + 1 = e - pos
      /\ \A k \in 1..(e - pos) : pos + 1 + k - 1 = pos + k
  BY <1>1, <1>4
<1>7. /\ x \in Seq(Range(archive))
      /\ Len(x) = IF pos + 1 <= e THEN e - (pos + 1) + 1 ELSE 0
      /\ \A k \in 1..(e - (pos + 1) + 1) : x[k] = archive[pos + 1 + k - 1]
  BY <1>3, <1>5, <1>6, SubSeqProperties
<1>8. Len(x) = e - pos /\ \A k \in 1..(e - pos) : x[k] = archive[pos + k]
  BY <1>1, <1>4, <1>6, <1>7
<1>9. x \in Seq(Range(x))
  BY <1>7, OverRange
<1>10. Len(x) = 0 <=> x = << >>
  BY <1>9, EmptySeq
<1>11. Len(x) = IF pos + n <= l THEN n ELSE l - pos
  BY <1>1, <1>2, <1>8
<1>12. Len(x) \in 0..n /\ pos + Len(x) \in 0..l
  BY <1>1, <1>4, <1>8
<1>13. \A k \in 1..Len(x) : x[k] = archive[pos + k] /\ pos + k \in 1..l /\ k <= n
  BY <1>1, <1>4, <1>8
<1> QED
  BY <1>1, <1>9, <1>10, <1>11, <1>12, <1>13 DEF x, l

\* What a header that is worked on says.
LEMMA AtHeader ==
    ASSUME IInv, TarInv, NEW i \in 1..Len(archive), NEW at, Stands(archive, i, cur, at, files)
    PROVE  /\ archive[i] = Mark(cur.path, cur.kind, cur.size)
           /\ cur.size \in Nat /\ cur.kind \in {"dir", "link", "file", "nv"}
           /\ cur.kind # "nv" => cur.path \in DOMAIN Tree
           /\ cur.kind = "file" => cur.size = Tree[cur.path].size /\ Tree[cur.path].kind # "dir"
           /\ cur.kind \in {"dir", "link"} => Tree[cur.path].kind = cur.kind /\ cur.size = 0
           /\ cur.kind = "nv" => cur.size = 1
           /\ Length(archive[i]) = 2 + cur.size + Len(Padding(cur.size))
           /\ Len(Padding(cur.size)) \in Nat /\ Blocks(cur.size) = cur.size + Len(Padding(cur.size))
           /\ i \in Nat /\ Len(archive) \in Nat
<1> DEFINE h == archive[i]
<1>1. IsHead(h) /\ cur = [path |-> h.path, kind |-> h.kind, size |-> h.size]
  BY DEF Stands
<1>2. h \in Heads(archive)
  BY <1>1 DEF Heads
<1>3. Honest(Tree, h)
  BY <1>2 DEF TarInv
<1> HIDE DEF h
<1>4. cur.path = h.path /\ cur.kind = h.kind /\ cur.size = h.size
  BY <1>1
<1>5. h = Mark(cur.path, cur.kind, cur.size) /\ cur.size \in Nat
  BY <1>3, <1>4 DEF Honest
<1>6. /\ Length(h) = 2 + Blocks(cur.size) /\ Blocks(cur.size) = cur.size + Len(Padding(cur.size))
      /\ Len(Padding(cur.size)) \in Nat
  BY <1>4, <1>5, Long
<1>7. Len(archive) \in Nat /\ DOMAIN archive = 1..Len(archive) /\ archive \in Seq(Range(archive))
  BY OverRange DEF IInv
<1>8. /\ cur.kind \in {"dir", "link", "file", "nv"}
      /\ cur.kind # "nv" => cur.path \in DOMAIN Tree
      /\ cur.kind = "file" => cur.size = Tree[cur.path].size /\ Tree[cur.path].kind # "dir"
      /\ cur.kind \in {"dir", "link"} => Tree[cur.path].kind = cur.kind /\ cur.size = 0
      /\ cur.kind = "nv" => cur.size = 1
  BY <1>3, <1>4 DEF Honest
<1>9. Length(h) = 2 + cur.size + Len(Padding(cur.size))
  BY <1>5, <1>6
<1> QED
  BY <1>5, <1>6, <1>7, <1>8, <1>9 DEF h

\* After its member the reader is past the header, and where a member ends.
LEMMA Arrives ==
    ASSUME IInv, TarInv, NEW i \in 1..Len(archive), NEW at, Stands(archive, i, cur, at, files), pos \in 0..Len(archive),
           NEW skip \in Nat, pos + skip = i - 1 + Length(archive[i]),
           pos' = Min({pos + skip, Len(archive)})
    PROVE  /\ pos' \in 0..Len(archive)
           /\ \A p \in files : Handled(archive, pos', p)
           /\ cur.kind = "file" => Handled(archive, pos', cur.path)
           /\ bpc = "done" /\ ~Fault("read") /\ ~Fault("cut") => Border(archive, pos')
<1> DEFINE l == Len(archive)
           w == Length(archive[i])
<1>1. l \in Nat /\ i \in Nat \ {0} /\ w \in Nat /\ w >= 2
  <2>1. cur.size \in Nat /\ Length(archive[i]) = 2 + cur.size + Len(Padding(cur.size))
          /\ Len(Padding(cur.size)) \in Nat /\ Len(archive) \in Nat
    BY AtHeader
  <2> QED
    BY <2>1
<1>2. pos' = IF i - 1 + w <= l THEN i - 1 + w ELSE l
  <2>1. pos + skip \in Nat
    BY <1>1
  <2> QED
    BY <1>1, <2>1, Smaller
<1>3. IsHead(archive[i]) /\ cur.kind = archive[i].kind /\ cur.path = archive[i].path
        /\ \A p \in files : Handled(archive, i - 1, p)
  BY DEF Stands
<1>4. bpc = "done" /\ ~Fault("read") /\ ~Fault("cut") => Border(archive, i - 1 + w)
  BY <1>3 DEF TarInv, Whole
<1> HIDE DEF l, w
<1>5. pos' \in 0..l /\ i <= pos'
  BY <1>1, <1>2 DEF l
<1>6. i \in 1..pos' /\ \A j \in 1..(i - 1) : j \in 1..pos'
  <2> DEFINE n == pos'
  <2>1. n \in Nat /\ i <= n
    BY <1>1, <1>5
  <2> HIDE DEF n
  <2>2. i \in 1..n /\ \A j \in 1..(i - 1) : j \in 1..n
    BY <1>1, <2>1
  <2> QED
    BY <2>2 DEF n
<1>7. \A p \in files : Handled(archive, pos', p)
  BY <1>3, <1>6 DEF Handled
<1>8. cur.kind = "file" => Handled(archive, pos', cur.path)
  BY <1>3, <1>6 DEF Handled
<1>9. Border(archive, i - 1 + w) => Border(archive, pos')
  <2>1. Border(archive, i - 1 + w) => i - 1 + w \in 0..l
    BY DEF Border, l
  <2> QED
    BY <1>1, <1>2, <2>1
<1> QED
  BY <1>4, <1>5, <1>7, <1>8, <1>9 DEF l

\* A file that is worked on has not been counted yet.
LEMMA NotCounted ==
    ASSUME IInv, TarInv, Remembers, NEW i \in 1..Len(archive), NEW at, Stands(archive, i, cur, at, files), cur.kind = "file"
    PROVE  cur.path \notin files
<1> SUFFICES ASSUME cur.path \in files PROVE FALSE
  OBVIOUS
<1>1. Handled(archive, i - 1, cur.path)
  BY DEF Stands
<1>2. PICK j \in 1..(i - 1) : /\ IsHead(archive[j]) /\ archive[j].kind = "file"
                              /\ archive[j].path = cur.path
  BY <1>1 DEF Handled
<1>3. i \in Nat /\ Len(archive) \in Nat
  BY AtHeader
<1>4. j \in 1..Len(archive) /\ i # j
  BY <1>3
<1>5. archive[j] \in Heads(archive)
  BY <1>2, <1>4 DEF Heads
<1>6. Honest(Tree, archive[j])
  BY <1>5 DEF TarInv
<1>7. archive[j] = Mark(cur.path, "file", Tree[cur.path].size)
  BY <1>2, <1>6 DEF Honest
<1>8. archive[i] = Mark(cur.path, "file", Tree[cur.path].size)
  BY AtHeader
<1>9. Distinct(archive)
  BY DEF IInv, OnceInv
<1> QED
  BY <1>2, <1>4, <1>7, <1>8, <1>9 DEF Distinct

\* What is read of a file is what follows its header.
LEMMA ReadsContents ==
    ASSUME IInv, TarInv, ~Fault("read"), NEW i \in 1..Len(archive), NEW at, Stands(archive, i, cur, at, files),
           cur.kind = "file", pos \in 0..Len(archive),
           NEW b \in Nat, pos = i - 1 + BLOCK + b, NEW n \in Nat, b + n <= cur.size,
           NEW k \in 1..Len(Ahead(n))
    PROVE  Ahead(n)[k] = [type |-> "data", path |-> cur.path, at |-> b + k]
<1> DEFINE h == archive[i]
           size == cur.size
           p == cur.path
           c == 2 + (b + k)
<1>0. archive \in Seq(Range(archive))
  BY DEF IInv
<1>1. /\ Ahead(n)[k] = archive[pos + k] /\ pos + k \in 1..Len(archive) /\ k <= n
      /\ k \in Nat /\ pos \in Nat
  BY <1>0, AheadUnits
<1>2. /\ h = Mark(p, "file", size) /\ size \in Nat /\ i \in Nat /\ Len(archive) \in Nat
      /\ Length(h) = 2 + size + Len(Padding(size)) /\ Len(Padding(size)) \in Nat
  BY AtHeader
<1>3. IsHead(h)
  BY DEF Stands
<1>4. Formed(archive)
  BY DEF TarInv
<1>5. \A m \in 1..Length(h) : i + m - 1 <= Len(archive) => archive[i + m - 1] = Unit(h, m)
  BY <1>3, <1>4 DEF Formed, Follows
<1> HIDE DEF h, size, p
<1>6. /\ i + c - 1 = pos + k /\ c \in 1..Length(h) /\ i + c - 1 <= Len(archive)
      /\ b + k \in 1..size
  BY <1>1, <1>2 DEF BLOCK, size
<1>7. archive[pos + k] = Unit(h, c)
  BY <1>5, <1>6
<1>8. Unit(h, c) = Member(p, "file", size)[c]
  BY <1>2 DEF Unit, Mark
<1>9. Member(p, "file", size)[2 + (b + k)] = Content(p, size)[b + k]
  <2>0. \A j \in 1..size : Member(p, "file", size)[2 + j] = Content(p, size)[j]
    <3>1. size \in Nat
      BY <1>2
    <3> QED
      BY ONLY <3>1, FileUnits
  <2> DEFINE m == Member(p, "file", size)
             d == Content(p, size)
  <2>1. \A j \in 1..size : m[2 + j] = d[j]
    BY <2>0
  <2> HIDE DEF m, d
  <2>2. m[2 + (b + k)] = d[b + k]
    BY <1>6, <2>1
  <2> QED
    BY <2>2 DEF m, d
<1>10. Content(p, size)[b + k] = [type |-> "data", path |-> p, at |-> b + k]
  BY <1>2, <1>6, Contents
<1> QED
  BY <1>1, <1>7, <1>8, <1>9, <1>10 DEF p

\* What was written of a file, and what is written next.
LEMMA ContentGrows ==
    ASSUME NEW p, NEW b \in Nat, NEW u, u \in Seq(Range(u)), NEW n \in 1..Len(u),
           \A k \in 1..Len(u) : u[k] = [type |-> "data", path |-> p, at |-> b + k]
    PROVE  SubSeq(Content(p, b), 1, b) \o SubSeq(u, 1, n) = Content(p, b + n)
<1> DEFINE c == Content(p, b)
           d == Content(p, b + n)
           s == SubSeq(c, 1, b)
           t == SubSeq(u, 1, n)
<1>0. n \in Nat /\ Len(u) \in Nat /\ DOMAIN u = 1..Len(u) /\ n <= Len(u) /\ b + n \in Nat
  BY OverRange
<1>1. /\ c \in Seq(Range(c)) /\ Len(c) = b
      /\ \A k \in 1..b : c[k] = [type |-> "data", path |-> p, at |-> k]
  BY Contents
<1>2. /\ d \in Seq(Range(d)) /\ Len(d) = b + n
      /\ \A k \in 1..(b + n) : d[k] = [type |-> "data", path |-> p, at |-> k]
  BY <1>0, Contents
<1> HIDE DEF c, d
<1>3. DOMAIN c = 1..b
  BY <1>1, OverRange
<1>4. /\ s \in Seq(Range(s)) /\ Len(s) = b /\ \A k \in 1..b : s[k] = c[k]
  <2>1. \A k \in 1..b : c[k] \in Range(c)
    BY <1>3 DEF Range
  <2>2. /\ s \in Seq(Range(c)) /\ Len(s) = IF 1 <= b THEN b - 1 + 1 ELSE 0
        /\ \A k \in 1..(b - 1 + 1) : s[k] = c[1 + k - 1]
    BY <2>1, SubSeqProperties
  <2> HIDE DEF s
  <2>3. Len(s) = b /\ \A k \in 1..b : s[k] = c[k]
    BY <2>2
  <2> QED
    BY <2>2, <2>3, OverRange
<1>5. /\ t \in Seq(Range(t)) /\ Len(t) = n /\ \A k \in 1..n : t[k] = u[k]
  <2>1. \A k \in 1..n : u[k] \in Range(u)
    BY <1>0 DEF Range
  <2>2. /\ t \in Seq(Range(u)) /\ Len(t) = IF 1 <= n THEN n - 1 + 1 ELSE 0
        /\ \A k \in 1..(n - 1 + 1) : t[k] = u[1 + k - 1]
    BY <2>1, <1>0, SubSeqProperties
  <2> HIDE DEF t
  <2>3. Len(t) = n /\ \A k \in 1..n : t[k] = u[k]
    BY <2>2, <1>0
  <2> QED
    BY <2>2, <2>3, OverRange
<1> HIDE DEF s, t
<1> DEFINE v == s \o t
<1>6. /\ v \in Seq(Range(v)) /\ Len(v) = b + n
      /\ \A i \in 1..b : v[i] = s[i]
      /\ \A i \in 1..n : v[b + i] = t[i]
  BY <1>4, <1>5, Joined
<1> HIDE DEF v
<1>7. \A i \in 1..(b + n) : v[i] = d[i]
  <2> SUFFICES ASSUME NEW i \in 1..(b + n) PROVE v[i] = d[i]
    OBVIOUS
  <2>1. CASE i <= b
    <3>1. i \in 1..b
      BY <2>1
    <3> QED
      BY <1>1, <1>2, <1>4, <1>6, <3>1
  <2>2. CASE i > b
    <3>1. i - b \in 1..n /\ b + (i - b) = i /\ i - b \in 1..Len(u)
      BY <1>0, <2>2
    <3>2. v[i] = u[i - b]
      BY <1>5, <1>6, <3>1
    <3>3. u[i - b] = [type |-> "data", path |-> p, at |-> b + (i - b)]
      BY <3>1
    <3> QED
      BY <1>2, <3>1, <3>2, <3>3
  <2> QED
    BY <1>0, <2>1, <2>2
<1>8. v = d
  <2> DEFINE S == Range(v) \cup Range(d)
  <2>1. v \in Seq(S) /\ d \in Seq(S)
    BY <1>2, <1>6, SeqMonotonic
  <2> HIDE DEF S
  <2> QED
    BY <1>2, <1>6, <1>7, <2>1, SeqEqual
<1> QED
  BY <1>8 DEF c, d, s, t, v

-----------------------------------------------------------------------------
(* The file system of the modem.                                           *)

\* A node is put at a path, and every other one stays.
LEMMA NodePut ==
    ASSUME NEW f, NEW p, NEW node
    PROVE  /\ Put(f, p, node) = [q \in DOMAIN Put(f, p, node) |-> Put(f, p, node)[q]]
           /\ p \in DOMAIN Put(f, p, node) /\ Put(f, p, node)[p] = node
           /\ \A q \in DOMAIN f : /\ q \in DOMAIN Put(f, p, node)
                                  /\ q # p => Put(f, p, node)[q] = f[q]
  BY DEF Put

\* Directories are made where there was nothing.
LEMMA DirsAdded ==
    ASSUME NEW p, NEW ds, ds \subseteq Missing(p)
    PROVE  \A q \in DOMAIN fs : q \in DOMAIN WithDirs(ds) /\ WithDirs(ds)[q] = fs[q]
  BY DEF Missing, WithDirs

\* They are fewer than the path has names.
LEMMA DirsMade ==
    ASSUME NEW p, p \in Seq(Range(p)), p # << >>, used \in Nat
    PROVE  /\ MakeDirs(p).used \in Nat /\ MakeDirs(p).used < used + Len(p)
           /\ Len(p) \in Nat
           /\ \A q \in DOMAIN fs : /\ q \in DOMAIN MakeDirs(p).fs
                                   /\ MakeDirs(p).fs[q] = fs[q]
<1> DEFINE above(d) == {e \in Missing(p) : Len(e) < Len(d)}
           made == {d \in Missing(p) : used + Cardinality(above(d)) < setup.journal}
           n == Len(p) - 1
<1>1. Len(p) \in Nat \ {0} /\ n \in Nat
  BY OverRange, EmptySeq
<1>2. MakeDirs(p).fs = WithDirs(made) /\ MakeDirs(p).used = used + Cardinality(made)
  BY DEF MakeDirs
<1>3. made \subseteq Missing(p)
  OBVIOUS
<1> HIDE DEF made, n
<1>4. IsFiniteSet(made) /\ Cardinality(made) \in Nat /\ Cardinality(made) <= n
  <2> DEFINE T == Range(Ancestors(p))
             a == Ancestors(p)
  <2>1. DOMAIN a = 1..n
    BY DEF Ancestors, n
  <2>2. a \in [1..n -> T] /\ \A t \in T : \E k \in 1..n : a[k] = t
    <3>1. a = [k \in 1..n |-> SubSeq(p, 1, k)]
      BY DEF Ancestors, n
    <3>2. T = {a[k] : k \in DOMAIN a}
      BY DEF Range
    <3> HIDE DEF a, T
    <3> QED
      BY <2>1, <3>1, <3>2
  <2> HIDE DEF a, T
  <2>3. a \in Surjection(1..n, T)
    BY <2>2 DEF Surjection
  <2>4. IsFiniteSet(1..n) /\ Cardinality(1..n) = n
    <3>1. 1 \in Int /\ n \in Int
      BY <1>1
    <3>2. IsFiniteSet(1..n) /\ Cardinality(1..n) = IF 1 > n THEN 0 ELSE n - 1 + 1
      BY <3>1, FS_Interval
    <3> QED
      BY <1>1, <3>2
  <2>5. IsFiniteSet(T) /\ Cardinality(T) <= n
    BY <2>3, <2>4, FS_Surjection
  <2>6. made \in SUBSET T
    BY <1>3 DEF Missing, T
  <2>7. IsFiniteSet(made) /\ Cardinality(made) <= Cardinality(T)
    BY <2>5, <2>6, FS_Subset
  <2>8. Cardinality(made) \in Nat /\ Cardinality(T) \in Nat
    BY <2>5, <2>7, FS_CardinalityType
  <2> QED
    BY <1>1, <2>5, <2>7, <2>8
<1>5. \A q \in DOMAIN fs : q \in DOMAIN WithDirs(made) /\ WithDirs(made)[q] = fs[q]
  BY <1>3, DirsAdded
<1>6. MakeDirs(p).used \in Nat /\ MakeDirs(p).used < used + Len(p)
  BY <1>1, <1>2, <1>4 DEF n
<1> QED
  BY <1>1, <1>2, <1>5, <1>6

-----------------------------------------------------------------------------
(* The steps of the restore.                                               *)

\* A header is read: it is one of the archive, and the reader is behind it.
LEMMA ReadHeaderPlaced ==
    ASSUME IInv, TarInv, RInv, Steady, ReadHeader
    PROVE  RInv'
<1>1. /\ archive \in Seq(Range(archive)) /\ pos \in 0..Len(archive)
      /\ rpc = "header" /\ setup' = setup /\ archive' = archive /\ bpc = "done" /\ bpc' = bpc
      /\ written' = written
  BY DEF IInv, RInv, PlaceInv, Steady, backupVars, ReadHeader
<1> DEFINE b == Ahead(BLOCK)
           i == pos + 1
           h == archive[i]
<1>2. /\ Len(b) = 2 /\ IsHeader(b)
      /\ cur' = [path |-> b[1].path, kind |-> b[1].kind, size |-> b[1].size]
      /\ rpc' = b[1].kind /\ pos' = pos + 2 /\ offset' = 0
      /\ UNCHANGED <<try, ret, files, warned, fs, used>>
  BY DEF ReadHeader, BLOCK
<1>3. 2 \in Nat /\ BLOCK = 2
  BY DEF BLOCK
<1>4. b[1] = archive[pos + 1] /\ pos + 1 \in 1..Len(archive)
      /\ pos + 2 \in 0..Len(archive) /\ pos \in Nat /\ Len(archive) \in Nat
  <2>1. /\ Len(b) \in 0..2 /\ pos + Len(b) \in 0..Len(archive)
        /\ pos \in Nat /\ Len(archive) \in Nat
        /\ \A k \in 1..Len(b) : b[k] = archive[pos + k] /\ pos + k \in 1..Len(archive)
    BY <1>1, <1>3, AheadUnits
  <2> QED
    BY <1>2, <2>1
<1>5. IsHead(h)
  <2>1. b[1] = Header(b[1].path, b[1].kind, b[1].size)[1] /\ b[1].type = "header"
    BY <1>2 DEF IsHeader
  <2>2. b[1].at = 1
    BY <2>1 DEF Header, BLOCK
  <2> QED
    BY <1>4, <2>1, <2>2 DEF IsHead
<1> HIDE DEF b
<1>6. i \in 1..Len(archive) /\ cur' = [path |-> h.path, kind |-> h.kind, size |-> h.size]
      /\ rpc' = h.kind /\ i - 1 = pos /\ pos + 2 = i - 1 + BLOCK + 0
  BY <1>2, <1>3, <1>4
<1>7. Honest(Tree, h)
  BY <1>5, <1>6 DEF TarInv, Heads
<1>8. h.kind \in {"dir", "link", "file", "nv"}
  BY <1>7 DEF Honest
<1>9. Stands(archive', i, cur', pos' - Behind', files')
  <2>1. Behind' = 0
    BY <1>6, <1>8 DEF Behind
  <2>2. \A p \in files : Handled(archive, i - 1, p)
    BY <1>1, <1>6 DEF RInv, PlaceInv
  <2>3. pos' - Behind' = i - 1 + BLOCK
    BY <1>2, <1>3, <1>4, <1>6, <2>1
  <2> HIDE DEF i, h
  <2> QED
    BY <1>1, <1>2, <1>5, <1>6, <2>2, <2>3 DEF Stands, h
<1> HIDE DEF i, h
<1>10. PlaceInv'
  <2>1. \E j \in 1..Len(archive') : Stands(archive', j, cur', pos' - Behind', files')
    BY <1>1, <1>6, <1>9
  <2> QED
    BY <1>1, <1>2, <1>4, <1>6, <1>8, <2>1 DEF PlaceInv
<1>11. CopyInv'
  BY <1>1, <1>2, <1>6, <1>8 DEF RInv, CopyInv, Fault, Remembers, Tree
<1>12. EndInv'
  BY <1>1, <1>2, <1>6, <1>8 DEF RInv, EndInv, Fault
<1>13. WarnInv'
  BY <1>1, <1>2, <1>6, <1>8 DEF RInv, WarnInv, Fault, Tree, Ample
<1> QED
  BY <1>10, <1>11, <1>12, <1>13 DEF RInv

\* Where the reader is while it works on a header.
LEMMA Here ==
    ASSUME IInv, TarInv, RInv, rpc \notin {"header", "end"}
    PROVE  \E i \in 1..Len(archive) :
              /\ Stands(archive, i, cur, pos - Behind, files)
              /\ Behind \in 0..cur.size /\ pos = i - 1 + BLOCK + Behind
<1>1. PICK i \in 1..Len(archive) : Stands(archive, i, cur, pos - Behind, files)
  BY DEF RInv, PlaceInv
<1>2. cur.size \in Nat /\ i \in Nat /\ Len(archive) \in Nat
  BY <1>1, AtHeader
<1>3. rpc \in {"write", "stream"} => offset \in 0..cur.size
  BY DEF RInv, PlaceInv
<1>4. Behind \in 0..cur.size
  BY <1>2, <1>3 DEF Behind
<1>5. pos \in 0..Len(archive) /\ pos - Behind = i - 1 + BLOCK
  BY <1>1 DEF RInv, PlaceInv, Stands
<1>6. pos = i - 1 + BLOCK + Behind
  BY <1>2, <1>4, <1>5 DEF BLOCK
<1> QED
  BY <1>1, <1>4, <1>6

\* A step to the next header.
LEMMA ToHeader ==
    ASSUME IInv, TarInv, RInv, Steady, rpc \notin {"header", "end"},
           NEW skip \in Nat, skip + Behind = Blocks(cur.size), NextHeader(skip), ret' = ret,
           \/ files' = files
           \/ cur.kind = "file" /\ files' = files \cup {cur.path}
    PROVE  PlaceInv' /\ EndInv'
<1>1. PICK i \in 1..Len(archive) : /\ Stands(archive, i, cur, pos - Behind, files)
                                   /\ Behind \in 0..cur.size /\ pos = i - 1 + BLOCK + Behind
  BY Here
<1>2. /\ Length(archive[i]) = 2 + cur.size + Len(Padding(cur.size))
      /\ Blocks(cur.size) = cur.size + Len(Padding(cur.size))
      /\ Len(Padding(cur.size)) \in Nat /\ cur.size \in Nat /\ i \in Nat
  BY <1>1, AtHeader
<1>3. pos + skip = i - 1 + Length(archive[i])
  BY <1>1, <1>2 DEF BLOCK
<1>4. pos \in 0..Len(archive) /\ pos' = Min({pos + skip, Len(archive)}) /\ rpc' = "header"
  BY DEF RInv, PlaceInv, NextHeader
<1>5. /\ pos' \in 0..Len(archive)
      /\ \A p \in files : Handled(archive, pos', p)
      /\ cur.kind = "file" => Handled(archive, pos', cur.path)
      /\ bpc = "done" /\ ~Fault("read") /\ ~Fault("cut") => Border(archive, pos')
  BY <1>1, <1>3, <1>4, Arrives
<1>6. archive' = archive /\ setup' = setup /\ bpc = "done" /\ bpc' = "done"
  BY DEF Steady, backupVars
<1>7. \A p \in files' : Handled(archive, pos', p)
  BY <1>5
<1>8. PlaceInv'
  BY <1>4, <1>5, <1>6, <1>7 DEF PlaceInv
<1>9. EndInv'
  BY <1>4, <1>5, <1>6 DEF EndInv, RInv, Fault
<1> QED
  BY <1>8, <1>9

\* Nothing counted is touched.
LEMMA FilesStay ==
    ASSUME RInv, Steady, rpc' \notin {"put", "open", "write", "stream"}, files' = files,
           \A q \in DOMAIN fs : q \in DOMAIN fs' /\ fs'[q] = fs[q]
    PROVE  CopyInv'
<1>1. setup' = setup /\ written' = written
  BY DEF Steady, backupVars
<1> QED
  BY <1>1 DEF RInv, CopyInv, Fault, Remembers, Tree

\* The archive is at its end, or not in step.
LEMMA NoHeaderPlaced ==
    ASSUME IInv, TarInv, RInv, Steady, NoHeader
    PROVE  RInv'
<1>1. /\ archive \in Seq(Range(archive)) /\ pos \in 0..Len(archive)
      /\ setup' = setup /\ archive' = archive /\ bpc = "done" /\ bpc' = "done"
  BY DEF IInv, RInv, PlaceInv, Steady, backupVars
<1>2. /\ rpc = "header" /\ rpc' = "end"
      /\ UNCHANGED <<pos, cur, buffer, offset, try, files, warned, fs, used>>
  BY DEF NoHeader
<1>3. PlaceInv'
  BY <1>1, <1>2 DEF RInv, PlaceInv
<1>4. CopyInv'
  BY <1>2, FilesStay
<1>5. ASSUME ~Fault("read"), ~Fault("cut") PROVE ret' # -1
  <2> DEFINE b == Ahead(BLOCK)
             l == Len(archive)
  <2>1. ret # -1 /\ Border(archive, pos)
    BY <1>1, <1>2, <1>5 DEF RInv, EndInv
  <2> SUFFICES ASSUME ~IsHeader(b), Len(b) >= BLOCK, b # Zeros(BLOCK) PROVE FALSE
    <3>1. Len(b) \in Nat /\ BLOCK \in Nat
      <4>1. BLOCK \in Nat
        BY DEF BLOCK
      <4> HIDE DEF l
      <4>2. Len(b) \in 0..BLOCK
        BY <1>1, <4>1, AheadUnits
      <4> QED
        BY <4>1, <4>2
    <3> QED
      BY <2>1, <3>1 DEF NoHeader
  <2>2. 2 \in Nat /\ BLOCK = 2 /\ BLOCK \in Nat
    BY DEF BLOCK
  <2>3. /\ Len(b) = IF pos + 2 <= l THEN 2 ELSE l - pos
        /\ \A k \in 1..Len(b) : b[k] = archive[pos + k]
        /\ l \in Nat /\ pos \in Nat /\ b \in Seq(Range(b)) /\ Len(b) \in 0..2
    BY <1>1, <2>2, AheadUnits
  <2> HIDE DEF b, l
  <2>4. pos + 2 <= l /\ Len(b) = 2 /\ b[1] = archive[pos + 1] /\ b[2] = archive[pos + 2]
    BY <2>2, <2>3
  <2>5. CASE IsHead(archive[pos + 1])
    <3> DEFINE h == archive[pos + 1]
    <3>1. pos + 1 \in 1..l
      BY <2>3, <2>4
    <3>2. Honest(Tree, h) /\ Formed(archive)
      BY <1>5, <2>5, <3>1 DEF TarInv, Heads, l
    <3>3. Formed(archive) => (h.size \in Nat /\ Follows(archive, pos + 1))
      BY <2>5, <3>1 DEF Formed, l
    <3>4. h.size \in Nat /\ Length(h) \in Nat /\ Length(h) = 2 + Blocks(h.size) /\ Blocks(h.size) \in Nat
      BY <3>2, <3>3, Long
    <3>5. 2 \in 1..Length(h) /\ pos + 1 + 2 - 1 = pos + 2
      BY <2>3, <3>4
    <3>6. archive[pos + 2] = Unit(h, 2)
      BY <2>4, <3>2, <3>3, <3>5 DEF Follows, l
    <3> HIDE DEF h
    <3>7. Unit(h, 2) = Header(h.path, h.kind, h.size)[2]
      <4>1. 2 \in 1..BLOCK
        BY <2>2
      <4>2. \A k \in 1..BLOCK : Member(h.path, h.kind, h.size)[k] = Header(h.path, h.kind, h.size)[k]
        BY <3>4, MemberUnits
      <4> QED
        BY <4>1, <4>2 DEF Unit
    <3>8. h = Header(h.path, h.kind, h.size)[1] /\ h.type = "header"
      <4>1. h = Mark(h.path, h.kind, h.size)
        BY <3>2 DEF Honest
      <4> QED
        BY <4>1 DEF Mark, Header, BLOCK
    <3> DEFINE e == Header(h.path, h.kind, h.size)
    <3>9. e \in Seq(Range(e)) /\ Len(e) = 2
      <4>1. Len(e) = 2 /\ e \in Seq({e[1], e[2]})
        BY DEF Header, BLOCK
      <4> HIDE DEF e
      <4> QED
        BY <4>1, OverRange
    <3>10. e[1] = b[1] /\ e[2] = b[2]
      BY <2>4, <3>6, <3>7, <3>8 DEF h
    <3> HIDE DEF e
    <3>11. e = b
      <4> DEFINE S == Range(e) \cup Range(b)
      <4>1. e \in Seq(S) /\ b \in Seq(S)
        BY <2>3, <3>9, SeqMonotonic
      <4>2. \A k \in 1..Len(e) : e[k] = b[k]
        <5>1. \A k \in 1..2 : k = 1 \/ k = 2
          OBVIOUS
        <5> QED
          BY <3>9, <3>10, <5>1
      <4> HIDE DEF S
      <4> QED
        BY <2>4, <3>9, <4>1, <4>2, SeqEqual
    <3>12. b[1] = h
      BY <2>4 DEF h
    <3> QED
      BY <3>8, <3>11, <3>12 DEF IsHeader, e
  <2>6. CASE archive[pos + 1] = Zero /\ archive[pos + 2] = Zero
    <3> DEFINE z == Zeros(BLOCK)
    <3>1. z \in Seq({Zero}) /\ Len(z) = 2 /\ z[1] = Zero /\ z[2] = Zero
      BY <2>2 DEF Zeros
    <3>2. z \in Seq(Range(z))
      BY <3>1, OverRange
    <3> HIDE DEF z
    <3> DEFINE S == Range(z) \cup Range(b)
    <3>3. z \in Seq(S) /\ b \in Seq(S)
      BY <2>3, <3>2, SeqMonotonic
    <3>4. \A k \in 1..Len(z) : z[k] = b[k]
      <4>1. \A k \in 1..2 : k = 1 \/ k = 2
        OBVIOUS
      <4> QED
        BY <2>4, <2>6, <3>1, <4>1
    <3> HIDE DEF S
    <3>5. z = b
      BY <2>4, <3>1, <3>3, <3>4, SeqEqual
    <3> QED
      BY <3>5 DEF z
  <2> QED
    BY <2>1, <2>3, <2>4, <2>5, <2>6 DEF Border, l
<1>6. EndInv'
  BY <1>1, <1>2, <1>5 DEF EndInv, Fault
<1>7. WarnInv'
  BY <1>1, <1>2 DEF RInv, WarnInv, Fault, Tree, Ample
<1> QED
  BY <1>3, <1>4, <1>6, <1>7 DEF RInv

\* An archive that was not cut has all of the member that is worked on.
LEMMA Complete ==
    ASSUME IInv, TarInv, RInv, Steady, rpc \notin {"header", "end"},
           ~Fault("read"), ~Fault("cut")
    PROVE  pos + (cur.size - Behind) <= Len(archive)
<1>1. PICK i \in 1..Len(archive) : /\ Stands(archive, i, cur, pos - Behind, files)
                                   /\ Behind \in 0..cur.size /\ pos = i - 1 + BLOCK + Behind
  BY Here
<1>2. /\ Length(archive[i]) = 2 + cur.size + Len(Padding(cur.size))
      /\ Len(Padding(cur.size)) \in Nat /\ cur.size \in Nat /\ i \in Nat /\ Len(archive) \in Nat
  BY <1>1, AtHeader
<1>3. IsHead(archive[i]) /\ bpc = "done"
  BY <1>1 DEF Stands, Steady
<1>4. Border(archive, i - 1 + Length(archive[i]))
  BY <1>3 DEF TarInv, Whole
<1>5. i - 1 + Length(archive[i]) <= Len(archive)
  BY <1>2, <1>4 DEF Border
<1> QED
  BY <1>1, <1>2, <1>5 DEF BLOCK

\* What the header says, and what does not change.
LEMMA Working ==
    ASSUME IInv, TarInv, RInv, Steady, rpc \notin {"header", "end"}
    PROVE  /\ cur.size \in Nat
           /\ cur.kind # "nv" => cur.path \in DOMAIN Tree
           /\ cur.kind = "file" => cur.size = Tree[cur.path].size /\ Tree[cur.path].kind # "dir"
           /\ cur.kind \in {"dir", "link"} => Tree[cur.path].kind = cur.kind /\ cur.size = 0
           /\ cur.kind = "nv" => cur.size = 1
           /\ Blocks(cur.size) = cur.size + Len(Padding(cur.size)) /\ Len(Padding(cur.size)) \in Nat
           /\ Behind \in 0..cur.size
           /\ used \in Nat /\ try \in {1, 2}
           /\ pos \in 0..Len(archive) /\ archive \in Seq(Range(archive)) /\ Len(archive) \in Nat
           /\ setup' = setup /\ archive' = archive /\ bpc = "done" /\ bpc' = "done"
           /\ written' = written
<1>1. PICK i \in 1..Len(archive) : /\ Stands(archive, i, cur, pos - Behind, files)
                                   /\ Behind \in 0..cur.size /\ pos = i - 1 + BLOCK + Behind
  BY Here
<1>2. /\ cur.size \in Nat
      /\ cur.kind # "nv" => cur.path \in DOMAIN Tree
      /\ cur.kind = "file" => cur.size = Tree[cur.path].size /\ Tree[cur.path].kind # "dir"
      /\ cur.kind \in {"dir", "link"} => Tree[cur.path].kind = cur.kind /\ cur.size = 0
      /\ cur.kind = "nv" => cur.size = 1
      /\ Blocks(cur.size) = cur.size + Len(Padding(cur.size)) /\ Len(Padding(cur.size)) \in Nat
      /\ Len(archive) \in Nat
  BY <1>1, AtHeader
<1>3. /\ used \in Nat /\ try \in {1, 2} /\ pos \in 0..Len(archive) /\ archive \in Seq(Range(archive))
  BY DEF IInv, RInv, PlaceInv, WarnInv
<1>4. /\ setup' = setup /\ archive' = archive /\ bpc = "done" /\ bpc' = "done"
      /\ written' = written
  BY DEF Steady, backupVars
<1> QED
  BY <1>1, <1>2, <1>3, <1>4

\* A directory.
LEMMA MakeDirPlaced ==
    ASSUME IInv, TarInv, RInv, Steady, MakeDir
    PROVE  RInv'
<1>1. /\ rpc = "dir" /\ rpc \notin {"header", "end"} /\ NextHeader(0) /\ rpc' = "header"
      /\ UNCHANGED <<cur, buffer, offset, try, ret, files>>
  BY DEF MakeDir, NextHeader
<1>2. cur.kind = "dir" /\ cur.size = 0 /\ cur.path \in DOMAIN Tree /\ Tree[cur.path].kind = "dir"
        /\ setup' = setup /\ used \in Nat /\ try \in {1, 2}
  BY <1>1, Working DEF RInv, PlaceInv
<1>3. Behind = 0 /\ Blocks(0) = 0
  BY <1>1, Blocked DEF Behind
<1>4. PlaceInv' /\ EndInv'
  <2>1. 0 \in Nat /\ 0 + Behind = Blocks(cur.size)
    BY <1>2, <1>3
  <2> QED
    BY <1>1, <2>1, ToHeader
<1>5. /\ fs' = fs \/ (fs' = Put(fs, cur.path, Empty("dir")) /\ cur.path \notin DOMAIN fs)
      /\ warned' = warned \/ warned' = warned \cup {cur.path}
      /\ used' \in {used, used + 1}
  BY DEF MakeDir, Exists
<1>6. \A q \in DOMAIN fs : q \in DOMAIN fs' /\ fs'[q] = fs[q]
  BY <1>5, NodePut
<1>7. CopyInv'
  BY <1>1, <1>6, FilesStay
<1>8. used' \in Nat /\ try' \in {1, 2}
  BY <1>1, <1>2, <1>5
<1>9. WarnInv'
  BY <1>1, <1>2, <1>5, <1>8 DEF RInv, WarnInv, Fault, Tree, Ample
<1> QED
  BY <1>4, <1>7, <1>9 DEF RInv

\* A link.
LEMMA MakeLinkPlaced ==
    ASSUME IInv, TarInv, RInv, Steady, MakeLink
    PROVE  RInv'
<1>1. /\ rpc = "link" /\ rpc \notin {"header", "end"} /\ NextHeader(0) /\ rpc' = "header"
      /\ UNCHANGED <<cur, buffer, offset, try, ret, files>>
  BY DEF MakeLink, NextHeader
<1>2. cur.kind = "link" /\ cur.size = 0 /\ cur.path \in DOMAIN Tree /\ Tree[cur.path].kind = "link"
        /\ setup' = setup /\ used \in Nat /\ try \in {1, 2}
  BY <1>1, Working DEF RInv, PlaceInv
<1>3. Behind = 0 /\ Blocks(0) = 0
  BY <1>1, Blocked DEF Behind
<1>4. PlaceInv' /\ EndInv'
  <2>1. 0 \in Nat /\ 0 + Behind = Blocks(cur.size)
    BY <1>2, <1>3
  <2> QED
    BY <1>1, <2>1, ToHeader
<1>5. /\ fs' = fs \/ (fs' = Put(fs, cur.path, Empty("link")) /\ cur.path \notin DOMAIN fs)
      /\ warned' = warned \/ warned' = warned \cup {cur.path}
      /\ used' \in {used, used + 1}
  BY DEF MakeLink, Exists
<1>6. \A q \in DOMAIN fs : q \in DOMAIN fs' /\ fs'[q] = fs[q]
  BY <1>5, NodePut
<1>7. CopyInv'
  BY <1>1, <1>6, FilesStay
<1>8. used' \in Nat /\ try' \in {1, 2}
  BY <1>1, <1>2, <1>5
<1>9. WarnInv'
  BY <1>1, <1>2, <1>5, <1>8 DEF RInv, WarnInv, Fault, Tree, Ample
<1> QED
  BY <1>4, <1>7, <1>9 DEF RInv

\* An NV item, which the archive may end in only if it was cut.
LEMMA WriteNvPlaced ==
    ASSUME IInv, TarInv, RInv, Steady, WriteNv
    PROVE  RInv'
<1>1. /\ rpc = "nv" /\ rpc \notin {"header", "end"}
      /\ UNCHANGED <<cur, buffer, offset, try, files, warned, fs>>
  BY DEF WriteNv
<1>2. /\ cur.kind = "nv" /\ cur.size = 1 /\ setup' = setup /\ used \in Nat /\ try \in {1, 2}
      /\ pos \in 0..Len(archive) /\ archive \in Seq(Range(archive)) /\ Len(archive) \in Nat
      /\ archive' = archive /\ bpc' = "done"
  BY <1>1, Working DEF RInv, PlaceInv
<1>3. Behind = 0 /\ Blocks(1) \in Nat
  <2>1. 1 \in Nat
    OBVIOUS
  <2> QED
    BY <1>1, <2>1, Blocked DEF Behind
<1>4. rpc' \in {"header", "end"} /\ used' \in {used, used + 1}
  BY DEF WriteNv, NextHeader
<1>5. PlaceInv' /\ EndInv'
  <2>1. CASE Ahead(1) = << >>
    <3>1. ret' = -1 /\ rpc' = "end" /\ pos' = pos
      BY <2>1 DEF WriteNv
    <3>2. PlaceInv'
      BY <1>1, <1>2, <3>1 DEF RInv, PlaceInv
    <3>3. Fault("read") \/ Fault("cut")
      <4> SUFFICES ASSUME ~Fault("read"), ~Fault("cut") PROVE FALSE
        OBVIOUS
      <4>1. pos + (cur.size - Behind) <= Len(archive)
        BY <1>1, Complete
      <4>2. pos + 1 <= Len(archive)
        BY <1>2, <1>3, <4>1
      <4>3. 1 \in Nat
        OBVIOUS
      <4>4. Len(Ahead(1)) = 1
        BY <1>2, <4>2, <4>3, AheadUnits
      <4> QED
        BY <2>1, <4>4, EmptySeq
    <3>4. EndInv'
      BY <1>2, <3>1, <3>3 DEF EndInv, Fault
    <3> QED
      BY <3>2, <3>4
  <2>2. CASE Ahead(1) # << >>
    <3>1. NextHeader(Blocks(1)) /\ ret' = ret
      BY <2>2 DEF WriteNv
    <3>2. Blocks(1) + Behind = Blocks(cur.size)
      BY <1>2, <1>3
    <3> QED
      BY <1>1, <1>3, <3>1, <3>2, ToHeader
  <2> QED
    BY <2>1, <2>2
<1>6. CopyInv'
  BY <1>1, <1>4, FilesStay
<1>7. used' \in Nat /\ try' \in {1, 2}
  BY <1>1, <1>2, <1>4
<1>8. WarnInv'
  BY <1>1, <1>2, <1>4, <1>7 DEF RInv, WarnInv, Fault, Tree, Ample
<1> QED
  BY <1>5, <1>6, <1>8 DEF RInv

\* A step that works on with the same header.
LEMMA SameHeader ==
    ASSUME IInv, TarInv, RInv, Steady, rpc \notin {"header", "end"},
           cur' = cur, files' = files, pos' - Behind' = pos - Behind
    PROVE  \E i \in 1..Len(archive') : Stands(archive', i, cur', pos' - Behind', files')
<1>1. PICK i \in 1..Len(archive) : Stands(archive, i, cur, pos - Behind, files)
  BY Here
<1>2. archive' = archive
  BY DEF Steady
<1> QED
  BY <1>1, <1>2

\* A file is begun: a small one is read, and the archive may end in it only
\* if it was cut.
LEMMA BeginFilePlaced ==
    ASSUME IInv, TarInv, RInv, Steady, BeginFile
    PROVE  RInv'
<1>1. /\ rpc = "file" /\ rpc \notin {"header", "end"} /\ try' = 1
      /\ UNCHANGED <<cur, offset, files, warned, fs>>
  BY DEF BeginFile
<1>2. /\ cur.kind = "file" /\ cur.size \in Nat /\ cur.path \in DOMAIN Tree
      /\ setup' = setup /\ used \in Nat /\ try \in {1, 2}
      /\ pos \in 0..Len(archive) /\ archive \in Seq(Range(archive)) /\ Len(archive) \in Nat
      /\ archive' = archive /\ bpc' = "done" /\ written' = written
  BY <1>1, Working DEF RInv, PlaceInv
<1>3. Behind = 0
  BY <1>1 DEF Behind
<1>4. used' \in Nat
  BY <1>2 DEF BeginFile, Sync
<1> DEFINE n == cur.size
           b == Ahead(n)
<1>5. /\ b \in Seq(Range(b)) /\ Len(b) \in 0..n /\ pos + Len(b) \in 0..Len(archive)
      /\ pos \in Nat
      /\ Len(b) = IF pos + n <= Len(archive) THEN n ELSE Len(archive) - pos
  BY <1>2, AheadUnits
<1>6. \/ n > SmallFile /\ rpc' = "large" /\ UNCHANGED <<buffer, ret, pos>>
      \/ ~(n > SmallFile) /\ buffer' = b /\ pos' = pos + Len(b) /\ Len(b) < n
           /\ rpc' = "end" /\ ret' = -1
      \/ ~(n > SmallFile) /\ buffer' = b /\ pos' = pos + Len(b) /\ ~(Len(b) < n)
           /\ rpc' = "put" /\ ret' = ret
  BY DEF BeginFile
<1>7. ~Fault("read") /\ ~Fault("cut") => Len(b) = n /\ ret # -1
  <2>1. ~Fault("read") /\ ~Fault("cut") => pos + (n - Behind) <= Len(archive) /\ ret # -1
    BY <1>1, Complete DEF RInv, EndInv
  <2> HIDE DEF b
  <2> QED
    BY <1>2, <1>3, <1>5, <2>1
<1>8. ASSUME ~Fault("read"), Len(b) = n PROVE b = Content(cur.path, n)
  <2>1. PICK i \in 1..Len(archive) : /\ Stands(archive, i, cur, pos - Behind, files)
                                     /\ pos = i - 1 + BLOCK + Behind
    BY <1>1, Here
  <2>2. 0 \in Nat /\ pos = i - 1 + BLOCK + 0 /\ 0 + n <= n
    BY <1>2, <1>3, <2>1
  <2>3. \A k \in 1..Len(b) : b[k] = [type |-> "data", path |-> cur.path, at |-> 0 + k]
    BY <1>2, <1>8, <2>1, <2>2, ReadsContents
  <2> DEFINE c == Content(cur.path, n)
  <2>4. /\ c \in Seq(Range(c)) /\ Len(c) = n
        /\ \A k \in 1..n : c[k] = [type |-> "data", path |-> cur.path, at |-> k]
    BY <1>2, Contents
  <2> HIDE DEF b, c, n
  <2>5. \A k \in 1..Len(b) : b[k] = c[k]
    BY <1>8, <2>3, <2>4
  <2> DEFINE S == Range(b) \cup Range(c)
  <2>6. b \in Seq(S) /\ c \in Seq(S)
    BY <1>5, <2>4, SeqMonotonic
  <2> HIDE DEF S
  <2>7. b = c
    BY <1>8, <2>4, <2>5, <2>6, SeqEqual
  <2> QED
    BY <2>7 DEF c
<1> HIDE DEF b, n
<1>9. n \in Nat /\ cur.size = n
  BY <1>2 DEF n
<1>10. SmallFile \in Nat
  BY EfsConstants
<1>11. PlaceInv'
  <2>1. CASE rpc' = "end"
    BY <1>1, <1>2, <1>5, <1>6, <2>1 DEF RInv, PlaceInv
  <2>2. CASE rpc' = "large"
    <3>1. Behind' = 0 /\ pos' = pos
      BY <1>6, <2>2 DEF Behind
    <3>2. pos' - Behind' = pos - Behind
      BY <1>3, <3>1
    <3>3. \E i \in 1..Len(archive') : Stands(archive', i, cur', pos' - Behind', files')
      BY <1>1, <3>2, SameHeader
    <3> QED
      BY <1>1, <1>2, <1>6, <1>9, <2>2, <3>1, <3>3 DEF PlaceInv
  <2>3. CASE rpc' = "put"
    <3>1. Behind' = n /\ pos' = pos + n /\ ~(n > SmallFile)
      BY <1>1, <1>5, <1>6, <1>9, <2>3 DEF Behind
    <3>2. pos' - Behind' = pos - Behind
      BY <1>3, <1>5, <1>9, <3>1
    <3>3. \E i \in 1..Len(archive') : Stands(archive', i, cur', pos' - Behind', files')
      BY <1>1, <3>2, SameHeader
    <3>4. cur'.size <= SmallFile /\ pos' \in 0..Len(archive') /\ cur'.kind = "file"
      BY <1>1, <1>2, <1>5, <1>6, <1>9, <1>10, <2>3
    <3> QED
      BY <1>2, <2>3, <3>3, <3>4 DEF PlaceInv
  <2> QED
    BY <1>6, <2>1, <2>2, <2>3
<1>12. CopyInv'
  <2>1. rpc' = "put" /\ ~Fault("read") => buffer' = Content(cur'.path, cur'.size)
    BY <1>1, <1>5, <1>6, <1>8, <1>9
  <2>2. rpc' \in {"large", "end", "put"}
    BY <1>6
  <2> QED
    BY <1>1, <1>2, <2>1, <2>2 DEF RInv, CopyInv, Fault, Remembers, Tree
<1>13. EndInv'
  <2>1. rpc' # "header"
    BY <1>6
  <2>2. ~Fault("read") /\ ~Fault("cut") => ret' # -1
    BY <1>6, <1>7, <1>9
  <2> QED
    BY <1>2, <2>1, <2>2 DEF EndInv, Fault
<1>14. WarnInv'
  BY <1>1, <1>2, <1>4 DEF RInv, WarnInv, Fault, Tree, Ample
<1> QED
  BY <1>11, <1>12, <1>13, <1>14 DEF RInv

\* A file that is written at once.
LEMMA PutItemPlaced ==
    ASSUME IInv, TarInv, RInv, Steady, PutItem
    PROVE  RInv'
<1>1. /\ rpc = "put" /\ rpc \notin {"header", "end"} /\ rpc' = "header"
      /\ fs' = Put(WithDirs(Missing(cur.path)), cur.path, [kind |-> "file", data |-> buffer])
      /\ used' = used + 1 /\ files' = files \cup {cur.path}
      /\ NextHeader(Len(Padding(cur.size)))
      /\ UNCHANGED <<cur, buffer, offset, try, ret, warned>>
  BY DEF PutItem, Written, NextHeader
<1>2. /\ cur.kind = "file" /\ cur.size \in Nat /\ cur.size = Tree[cur.path].size
      /\ setup' = setup /\ used \in Nat /\ try \in {1, 2} /\ written' = written
      /\ Blocks(cur.size) = cur.size + Len(Padding(cur.size)) /\ Len(Padding(cur.size)) \in Nat
  BY <1>1, Working DEF RInv, PlaceInv
<1>3. Behind = cur.size
  BY <1>1 DEF Behind
<1>4. PlaceInv' /\ EndInv'
  <2>1. Len(Padding(cur.size)) + Behind = Blocks(cur.size)
    BY <1>2, <1>3
  <2> QED
    BY <1>1, <1>2, <2>1, ToHeader
<1>5. CopyInv'
  <2> SUFFICES ASSUME ~Fault("read"), Remembers, NEW p \in files'
               PROVE  p \in DOMAIN fs' /\ fs'[p] = Counted(Tree, p)
    BY <1>1, <1>2 DEF CopyInv, Fault, Remembers, Tree
  <2>1. buffer = Content(cur.path, cur.size)
    BY <1>1 DEF RInv, CopyInv
  <2>2. \A q \in files : q \in DOMAIN fs /\ fs[q] = Counted(Tree, q)
    BY DEF RInv, CopyInv
  <2>3. \A q \in DOMAIN fs : /\ q \in DOMAIN WithDirs(Missing(cur.path))
                             /\ WithDirs(Missing(cur.path))[q] = fs[q]
    BY DirsAdded
  <2>4. CASE p = cur.path
    BY <1>1, <1>2, <2>1, <2>4, NodePut DEF Counted
  <2>5. CASE p # cur.path
    BY <1>1, <2>2, <2>3, <2>5, NodePut
  <2> QED
    BY <2>4, <2>5
<1>6. WarnInv'
  <2>1. used' \in Nat
    BY <1>1, <1>2
  <2> QED
    BY <1>1, <1>2, <2>1 DEF RInv, WarnInv, Fault, Tree, Ample
<1> QED
  BY <1>4, <1>5, <1>6 DEF RInv

\* Otherwise it is opened and written.
LEMMA PutFailsPlaced ==
    ASSUME IInv, TarInv, RInv, Steady, PutFails
    PROVE  RInv'
<1>1. /\ rpc = "put" /\ rpc \notin {"header", "end"} /\ rpc' = "open"
      /\ UNCHANGED <<pos, cur, buffer, offset, try, ret, files, warned, fs, used>>
  BY DEF PutFails
<1>2. /\ setup' = setup /\ written' = written /\ archive' = archive /\ bpc' = "done"
  BY <1>1, Working
<1>3. Behind' = Behind
  BY <1>1 DEF Behind
<1>4. PlaceInv'
  <2>1. \E i \in 1..Len(archive') : Stands(archive', i, cur', pos' - Behind', files')
    BY <1>1, <1>3, SameHeader
  <2> QED
    BY <1>1, <1>2, <2>1 DEF RInv, PlaceInv
<1>5. CopyInv'
  BY <1>1, <1>2 DEF RInv, CopyInv, Fault, Remembers, Tree
<1>6. EndInv'
  BY <1>1, <1>2 DEF RInv, EndInv, Fault
<1>7. WarnInv'
  BY <1>1, <1>2 DEF RInv, WarnInv, Fault, Tree, Ample
<1> QED
  BY <1>4, <1>5, <1>6, <1>7 DEF RInv

\* A file is opened, empty, and none that was counted is touched.
LEMMA Opened ==
    ASSUME IInv, TarInv, RInv, Steady, rpc \in {"open", "large"}, cur' = cur, buffer' = buffer,
           files' = files, Opens(MakeDirs(cur.path)), rpc' \in {"write", "stream"},
           rpc' = "write" => rpc = "open"
    PROVE  CopyInv' /\ offset' = 0
             /\ MakeDirs(cur.path).used \in Nat /\ MakeDirs(cur.path).used < used + Len(cur.path)
             /\ used' = MakeDirs(cur.path).used + 1 /\ Len(cur.path) \in Nat
<1> DEFINE p == cur.path
           m == MakeDirs(p)
<1>1. PICK i \in 1..Len(archive) : Stands(archive, i, cur, pos - Behind, files)
  BY Here
<1>2. /\ cur.kind = "file" /\ p \in DOMAIN Tree /\ setup' = setup /\ written' = written /\ used \in Nat
  BY Working DEF RInv, PlaceInv
<1>3. p \in Seq(Range(p)) /\ p # << >>
  <2>1. IsTree(Tree)
    BY Trees DEF IInv
  <2> QED
    BY <1>2, <2>1 DEF IsTree, Root
<1>4. /\ m.used \in Nat /\ m.used < used + Len(p) /\ Len(p) \in Nat
      /\ \A q \in DOMAIN fs : q \in DOMAIN m.fs /\ m.fs[q] = fs[q]
  BY <1>2, <1>3, DirsMade
<1>5. fs' = Put(m.fs, p, Empty("file")) /\ used' = m.used + 1 /\ offset' = 0
  BY DEF Opens
<1> HIDE DEF p, m
<1>6. /\ fs' = [q \in DOMAIN fs' |-> fs'[q]] /\ p \in DOMAIN fs' /\ fs'[p] = Empty("file")
      /\ \A q \in DOMAIN fs : q \in DOMAIN fs' /\ (q # p => fs'[q] = fs[q])
  BY <1>4, <1>5, NodePut
<1>7. Empty("file") = [kind |-> "file", data |-> Content(p, 0)]
  <2>1. 0 \in Nat
    OBVIOUS
  <2>2. Content(p, 0) \in Seq(Range(Content(p, 0))) /\ Len(Content(p, 0)) = 0
    BY <2>1, Contents
  <2>3. Content(p, 0) = << >>
    BY <2>2, EmptySeq
  <2> QED
    BY <2>3 DEF Empty
<1>8. ASSUME Remembers PROVE p \notin files
  BY <1>1, <1>2, <1>8, NotCounted DEF p
<1>9. CopyInv'
  <2> SUFFICES ASSUME ~Fault("read")
               PROVE  /\ rpc' = "write" => buffer' = Content(cur'.path, cur'.size)
                      /\ /\ fs' = [q \in DOMAIN fs' |-> fs'[q]] /\ cur'.path \in DOMAIN fs'
                         /\ fs'[cur'.path] = [kind |-> "file", data |-> Content(cur'.path, offset')]
                      /\ Remembers => \A q \in files' : q \in DOMAIN fs' /\ fs'[q] = Counted(Tree, q)
    BY <1>2 DEF CopyInv, Fault, Remembers, Tree
  <2>1. rpc' = "write" => buffer' = Content(cur'.path, cur'.size)
    BY DEF RInv, CopyInv
  <2>2. cur'.path = p
    BY DEF p
  <2>3. Remembers => \A q \in files : q # p /\ q \in DOMAIN fs /\ fs[q] = Counted(Tree, q)
    BY <1>8 DEF RInv, CopyInv
  <2> QED
    BY <1>5, <1>6, <1>7, <2>1, <2>2, <2>3
<1> QED
  BY <1>4, <1>5, <1>9 DEF m, p

\* A small file has room in a journal that was emptied.
LEMMA HasRoom ==
    ASSUME IInv, TarInv, RInv, Steady, rpc \in {"put", "open", "write"}, Ample
    PROVE  Len(cur.path) + cur.size <= setup.journal /\ setup.journal \in Nat
<1>1. /\ cur.kind = "file" /\ cur.size <= SmallFile
  BY DEF RInv, PlaceInv
<1>2. cur.path \in DOMAIN Tree /\ cur.size = Tree[cur.path].size /\ Tree[cur.path].kind # "dir"
  BY <1>1, Working
<1>3. setup.journal \in Nat
  BY EfsConstants DEF IInv, IsSetup
<1> QED
  BY <1>1, <1>2, <1>3 DEF Ample

\* A small file is created.
LEMMA OpenSmallPlaced ==
    ASSUME IInv, TarInv, RInv, Steady, OpenSmall
    PROVE  RInv'
<1>1. /\ rpc = "open" /\ rpc \notin {"header", "end"} /\ rpc' = "write"
      /\ Opens(MakeDirs(cur.path))
      /\ UNCHANGED <<pos, cur, buffer, try, ret, files, warned>>
  BY DEF OpenSmall
<1>2. /\ setup' = setup /\ archive' = archive /\ bpc' = "done" /\ try \in {1, 2} /\ cur.size \in Nat
      /\ used \in Nat
  BY <1>1, Working
<1>3. /\ CopyInv' /\ offset' = 0
      /\ MakeDirs(cur.path).used \in Nat /\ MakeDirs(cur.path).used < used + Len(cur.path)
      /\ used' = MakeDirs(cur.path).used + 1 /\ Len(cur.path) \in Nat
  BY <1>1, Opened
<1>4. Behind' = Behind
  BY <1>1 DEF Behind
<1>5. PlaceInv'
  <2>1. \E i \in 1..Len(archive') : Stands(archive', i, cur', pos' - Behind', files')
    BY <1>1, <1>4, SameHeader
  <2> QED
    BY <1>1, <1>2, <1>3, <2>1 DEF RInv, PlaceInv
<1>6. EndInv'
  BY <1>1, <1>2 DEF RInv, EndInv, Fault
<1>7. WarnInv'
  <2>1. used' \in Nat /\ (used = 0 => used' <= Len(cur'.path) + offset')
    BY <1>1, <1>2, <1>3
  <2> QED
    BY <1>1, <1>2, <2>1 DEF RInv, WarnInv, Fault, Tree, Ample
<1> QED
  BY <1>3, <1>5, <1>6, <1>7 DEF RInv

\* An attempt that failed is followed by another one, or by a warning.
LEMMA AttemptFailed ==
    ASSUME IInv, TarInv, RInv, Steady, rpc \in {"open", "write"}, NEW entries \in Nat,
           AttemptFails(entries), UNCHANGED <<cur, buffer, offset, ret, files>>,
           \A q \in DOMAIN fs : q \in DOMAIN fs' /\ fs'[q] = fs[q],
           Ample /\ ~Fault("refuse") /\ ~Fault("sync") => try # 2
    PROVE  RInv'
<1>1. /\ setup' = setup /\ archive' = archive /\ bpc' = "done" /\ cur.size \in Nat
      /\ Blocks(cur.size) = cur.size + Len(Padding(cur.size)) /\ Len(Padding(cur.size)) \in Nat
      /\ cur.kind = "file" /\ cur.size <= SmallFile /\ try \in {1, 2} /\ written' = written
      /\ rpc \notin {"header", "end"}
  BY Working DEF RInv, PlaceInv
<1>2. Behind = cur.size
  BY DEF Behind
<1>3. CASE try = 1 /\ try' = 2 /\ rpc' = "put" /\ Sync(entries) /\ UNCHANGED <<pos, warned>>
  <2>1. Behind' = cur.size
    BY <1>3 DEF Behind
  <2>2. \E i \in 1..Len(archive') : Stands(archive', i, cur', pos' - Behind', files')
    BY <1>1, <1>2, <1>3, <2>1, SameHeader
  <2>3. PlaceInv'
    BY <1>1, <1>3, <2>2 DEF RInv, PlaceInv
  <2>4. CopyInv'
    BY <1>1, <1>3 DEF RInv, CopyInv, Fault, Remembers, Tree
  <2>5. EndInv'
    BY <1>1, <1>3 DEF RInv, EndInv, Fault
  <2>6. used' \in Nat /\ (used' = 0 \/ Fault("sync"))
    BY <1>3 DEF Sync
  <2>7. WarnInv'
    BY <1>1, <1>3, <2>6 DEF RInv, WarnInv, Fault, Tree, Ample
  <2> QED
    BY <2>3, <2>4, <2>5, <2>7 DEF RInv
<1>4. CASE /\ try = 2 /\ warned' = warned \cup {cur.path} /\ used' = entries
           /\ NextHeader(Len(Padding(cur.size))) /\ UNCHANGED try
  <2>1. PlaceInv' /\ EndInv'
    <3>1. Len(Padding(cur.size)) + Behind = Blocks(cur.size)
      BY <1>1, <1>2
    <3> QED
      BY <1>1, <1>4, <3>1, ToHeader
  <2>2. rpc' = "header"
    BY <1>4 DEF NextHeader
  <2>3. CopyInv'
    BY <2>2, FilesStay
  <2>4. WarnInv'
    BY <1>1, <1>4, <2>2 DEF RInv, WarnInv, Fault, Tree, Ample
  <2> QED
    BY <2>1, <2>3, <2>4 DEF RInv
<1> QED
  BY <1>3, <1>4 DEF AttemptFails

\* A small file that cannot be created.
LEMMA OpenSmallFailsPlaced ==
    ASSUME IInv, TarInv, RInv, Steady, OpenSmallFails
    PROVE  RInv'
<1> DEFINE m == MakeDirs(cur.path)
<1>1. /\ rpc = "open" /\ OpenRefused(m) /\ fs' = m.fs /\ AttemptFails(m.used)
      /\ UNCHANGED <<cur, buffer, offset, ret, files>>
  BY DEF OpenSmallFails
<1>2. cur.path \in DOMAIN Tree /\ used \in Nat /\ cur.size \in Nat
  BY <1>1, Working DEF RInv, PlaceInv
<1>3. cur.path \in Seq(Range(cur.path)) /\ cur.path # << >>
  <2>1. IsTree(Tree)
    BY Trees DEF IInv
  <2> QED
    BY <1>2, <2>1 DEF IsTree, Root
<1>4. /\ m.used \in Nat /\ m.used < used + Len(cur.path) /\ Len(cur.path) \in Nat
      /\ \A q \in DOMAIN fs : q \in DOMAIN m.fs /\ m.fs[q] = fs[q]
  BY <1>2, <1>3, DirsMade
<1> HIDE DEF m
<1>5. ASSUME Ample, ~Fault("refuse"), ~Fault("sync"), try = 2 PROVE FALSE
  <2>1. used = 0
    BY <1>1, <1>5 DEF RInv, WarnInv
  <2>2. m.used >= setup.journal
    BY <1>1, <1>5 DEF OpenRefused
  <2>3. Len(cur.path) + cur.size <= setup.journal /\ setup.journal \in Nat
    BY <1>1, <1>5, HasRoom
  <2> QED
    BY <1>2, <1>4, <2>1, <2>2, <2>3
<1> QED
  BY <1>1, <1>4, <1>5, AttemptFailed

\* What the modem takes of a file goes behind what it has.
LEMMA TakesOn ==
    ASSUME IInv, TarInv, RInv, Steady, rpc \in {"write", "stream"}, rpc' = rpc,
           cur' = cur, buffer' = buffer, files' = files,
           NEW u, u \in Seq(Range(u)), NEW n \in 1..Len(u), Takes(u, n),
           ~Fault("read") => \A k \in 1..Len(u) :
                u[k] = [type |-> "data", path |-> cur.path, at |-> offset + k]
    PROVE  CopyInv' /\ offset' = offset + n /\ used' = used + 1
<1> DEFINE p == cur.path
           d == SubSeq(Content(p, offset), 1, offset) \o SubSeq(u, 1, n)
<1>1. PICK i \in 1..Len(archive) : Stands(archive, i, cur, pos - Behind, files)
  BY Here
<1>2. /\ cur.kind = "file" /\ setup' = setup /\ written' = written /\ offset \in 0..cur.size
      /\ cur.size \in Nat
  BY Working DEF RInv, PlaceInv
<1>3. /\ fs' = [fs EXCEPT ![p].data = SubSeq(@, 1, offset) \o SubSeq(u, 1, n)]
      /\ offset' = offset + n /\ used' = used + 1
  BY DEF Takes
<1>4. ASSUME ~Fault("read")
      PROVE  /\ rpc' = "write" => buffer' = Content(cur'.path, cur'.size)
             /\ /\ fs' = [q \in DOMAIN fs' |-> fs'[q]] /\ cur'.path \in DOMAIN fs'
                /\ fs'[cur'.path] = [kind |-> "file", data |-> Content(cur'.path, offset')]
             /\ Remembers => \A q \in files' : q \in DOMAIN fs' /\ fs'[q] = Counted(Tree, q)
  <2>1. /\ fs = [q \in DOMAIN fs |-> fs[q]] /\ p \in DOMAIN fs
        /\ fs[p] = [kind |-> "file", data |-> Content(p, offset)]
        /\ rpc' = "write" => buffer' = Content(cur'.path, cur'.size)
        /\ Remembers => \A q \in files : q \in DOMAIN fs /\ fs[q] = Counted(Tree, q)
    BY <1>4 DEF RInv, CopyInv
  <2>2. d = Content(p, offset + n)
    <3>1. offset \in Nat
      BY <1>2
    <3> QED
      BY <1>4, <3>1, ContentGrows
  <2>3. Remembers => p \notin files
    BY <1>1, <1>2, NotCounted
  <2> HIDE DEF p
  <2>4. fs[p].data = Content(p, offset)
    BY <2>1
  <2>5. fs' = [fs EXCEPT ![p] = [fs[p] EXCEPT !.data = d]]
    BY <1>3, <2>1, <2>4
  <2> HIDE DEF d
  <2>6. [fs[p] EXCEPT !.data = d] = [kind |-> "file", data |-> d]
    BY <2>1
  <2>7. /\ DOMAIN fs' = DOMAIN fs /\ fs'[p] = [kind |-> "file", data |-> d]
        /\ \A q \in DOMAIN fs : q # p => fs'[q] = fs[q]
        /\ fs' = [q \in DOMAIN fs' |-> fs'[q]]
    BY <2>1, <2>5, <2>6
  <2> QED
    BY <1>3, <2>1, <2>2, <2>3, <2>7 DEF p
<1>5. CopyInv'
  BY <1>2, <1>4 DEF CopyInv, Fault, Remembers, Tree
<1> QED
  BY <1>3, <1>5

\* A piece of a file is no more than what is left of it.
LEMMA PieceFits ==
    ASSUME cur.size \in Nat, offset \in 0..cur.size
    PROVE  Piece \in Nat /\ offset + Piece <= cur.size
<1>1. EFS_MAX_WRITE_REQ \in Nat /\ cur.size - offset \in Nat /\ offset \in Nat
  BY EfsConstants
<1>2. Piece = IF EFS_MAX_WRITE_REQ <= cur.size - offset THEN EFS_MAX_WRITE_REQ ELSE cur.size - offset
  BY <1>1, Smaller DEF Piece
<1> QED
  BY <1>1, <1>2

\* A part of a small file is written.
LEMMA WriteSmallPlaced ==
    ASSUME IInv, TarInv, RInv, Steady, WriteSmall
    PROVE  RInv'
<1> DEFINE u == SubSeq(buffer, offset + 1, offset + Piece)
<1>1. /\ rpc = "write" /\ rpc \notin {"header", "end"} /\ rpc' = rpc /\ rpc \in {"write", "stream"}
      /\ UNCHANGED <<pos, cur, buffer, try, ret, files, warned>>
  BY DEF WriteSmall
<1>2. PICK n \in 1..Piece : Takes(u, n)
  BY DEF WriteSmall
<1>3. /\ setup' = setup /\ archive' = archive /\ bpc' = "done" /\ try \in {1, 2} /\ cur.size \in Nat
      /\ used \in Nat /\ offset \in 0..cur.size /\ offset \in Nat
  <2>1. offset \in 0..cur.size /\ cur.size \in Nat
    BY <1>1, Working DEF RInv, PlaceInv
  <2> QED
    BY <1>1, <2>1, Working
<1>4. Piece \in Nat /\ offset + Piece <= cur.size
  BY <1>3, PieceFits
<1>5. n \in Nat /\ n >= 1 /\ n <= Piece
  BY <1>4
<1>6. offset' = offset + n /\ used' = used + 1
  BY <1>2 DEF Takes
<1>7. CopyInv'
  <2>1. CASE Fault("read")
    BY <1>3, <2>1 DEF CopyInv, Fault
  <2>2. CASE ~Fault("read")
    <3> DEFINE c == Content(cur.path, cur.size)
               m == offset + Piece
    <3>1. buffer = c
      BY <1>1, <2>2 DEF RInv, CopyInv
    <3>2. /\ c \in Seq(Range(c)) /\ Len(c) = cur.size
          /\ \A k \in 1..cur.size : c[k] = [type |-> "data", path |-> cur.path, at |-> k]
      BY <1>3, Contents
    <3>3. u = SubSeq(c, offset + 1, m)
      BY <3>1
    <3>4. m \in Int /\ offset + 1 \in Int /\ m <= cur.size /\ m - (offset + 1) + 1 = Piece
            /\ \A k \in 1..Piece : offset + 1 + k - 1 = offset + k /\ offset + k \in 1..cur.size
      BY <1>3, <1>4
    <3> HIDE DEF c, m, u
    <3>5. \A k \in (offset + 1)..m : c[k] \in Range(c)
      <4>1. DOMAIN c = 1..cur.size
        BY <3>2, OverRange
      <4>2. \A k \in (offset + 1)..m : k \in 1..cur.size
        BY <1>3, <3>4
      <4> QED
        BY <4>1, <4>2 DEF Range
    <3>6. /\ u \in Seq(Range(c)) /\ Len(u) = IF offset + 1 <= m THEN m - (offset + 1) + 1 ELSE 0
          /\ \A k \in 1..(m - (offset + 1) + 1) : u[k] = c[offset + 1 + k - 1]
      BY <3>3, <3>4, <3>5, SubSeqProperties
    <3>7. Len(u) = Piece /\ \A k \in 1..Piece : u[k] = c[offset + k]
      BY <1>3, <1>4, <3>4, <3>6
    <3>8. u \in Seq(Range(u)) /\ n \in 1..Len(u)
      BY <3>6, <3>7, OverRange
    <3>9. \A k \in 1..Len(u) : u[k] = [type |-> "data", path |-> cur.path, at |-> offset + k]
      BY <3>2, <3>4, <3>7
    <3> QED
      BY <1>1, <1>2, <3>8, <3>9, TakesOn DEF u
  <2> QED
    BY <2>1, <2>2
<1> HIDE DEF u
<1>8. Behind' = Behind
  BY <1>1 DEF Behind
<1>9. PlaceInv'
  <2>1. \E i \in 1..Len(archive') : Stands(archive', i, cur', pos' - Behind', files')
    BY <1>1, <1>8, SameHeader
  <2>2. offset' \in 0..cur'.size
    BY <1>1, <1>3, <1>4, <1>5, <1>6
  <2> QED
    BY <1>1, <1>3, <2>1, <2>2 DEF RInv, PlaceInv
<1>10. EndInv'
  BY <1>1, <1>3 DEF RInv, EndInv, Fault
<1>11. WarnInv'
  <2>1. used' \in Nat
    BY <1>3, <1>6
  <2>2. Len(cur.path) \in Nat
    <3>1. cur.kind = "file"
      BY <1>1 DEF RInv, PlaceInv
    <3>2. cur.path \in DOMAIN Tree /\ IsTree(Tree)
      BY <1>1, <3>1, Working, Trees DEF IInv
    <3> QED
      BY <3>2, OverRange DEF IsTree
  <2>3. used <= Len(cur.path) + offset => used' <= Len(cur'.path) + offset'
    <3>1. cur' = cur
      BY <1>1
    <3> DEFINE w == Len(cur.path)
    <3>2. w \in Nat
      BY <2>2
    <3> HIDE DEF w
    <3>3. used <= w + offset => used' <= w + offset'
      BY <1>3, <1>5, <1>6, <3>2
    <3> QED
      BY <3>1, <3>3 DEF w
  <2> QED
    BY <1>1, <1>3, <2>1, <2>3 DEF RInv, WarnInv, Fault, Tree, Ample
<1> QED
  BY <1>7, <1>9, <1>10, <1>11 DEF RInv

\* A small file that cannot be written.
LEMMA WriteSmallFailsPlaced ==
    ASSUME IInv, TarInv, RInv, Steady, WriteSmallFails
    PROVE  RInv'
<1>1. /\ rpc = "write" /\ (~Room \/ Fault("refuse")) /\ offset < cur.size
      /\ AttemptFails(used) /\ UNCHANGED <<cur, buffer, offset, ret, files, fs>>
  BY DEF WriteSmallFails
<1>2. used \in Nat /\ cur.size \in Nat /\ offset \in 0..cur.size
        /\ cur.path \in DOMAIN Tree
  BY <1>1, Working DEF RInv, PlaceInv
<1>3. ASSUME Ample, ~Fault("refuse"), ~Fault("sync"), try = 2 PROVE FALSE
  <2>1. used <= Len(cur.path) + offset
    BY <1>1, <1>3 DEF RInv, WarnInv
  <2>2. ~(used < setup.journal)
    BY <1>1, <1>3 DEF Room
  <2>3. Len(cur.path) + cur.size <= setup.journal /\ setup.journal \in Nat
    BY <1>1, <1>3, HasRoom
  <2>4. Len(cur.path) \in Nat
    <3>1. IsTree(Tree)
      BY Trees DEF IInv
    <3> QED
      BY <1>2, <3>1, OverRange DEF IsTree
  <2> QED
    BY <1>1, <1>2, <2>1, <2>2, <2>3, <2>4
<1> QED
  BY <1>1, <1>2, <1>3, AttemptFailed

\* A file that was written to its end is counted.
LEMMA Closed ==
    ASSUME IInv, TarInv, RInv, Steady, rpc \in {"write", "stream"}, offset = cur.size, Written,
           UNCHANGED <<cur, buffer, offset, try, ret, warned, fs, used>>
    PROVE  RInv'
<1>1. /\ rpc' = "header" /\ NextHeader(Len(Padding(cur.size))) /\ files' = files \cup {cur.path}
      /\ rpc \notin {"header", "end"}
  BY DEF Written, NextHeader
<1>2. /\ cur.kind = "file" /\ cur.size \in Nat /\ cur.size = Tree[cur.path].size
      /\ setup' = setup /\ written' = written /\ used \in Nat /\ try \in {1, 2}
      /\ Blocks(cur.size) = cur.size + Len(Padding(cur.size)) /\ Len(Padding(cur.size)) \in Nat
  BY <1>1, Working DEF RInv, PlaceInv
<1>3. Behind = cur.size
  BY DEF Behind
<1>4. PlaceInv' /\ EndInv'
  <2>1. Len(Padding(cur.size)) + Behind = Blocks(cur.size)
    BY <1>2, <1>3
  <2> QED
    BY <1>1, <1>2, <2>1, ToHeader
<1>5. CopyInv'
  <2> SUFFICES ASSUME ~Fault("read"), Remembers, NEW p \in files'
               PROVE  p \in DOMAIN fs' /\ fs'[p] = Counted(Tree, p)
    BY <1>1, <1>2 DEF CopyInv, Fault, Remembers, Tree
  <2>1. /\ cur.path \in DOMAIN fs
        /\ fs[cur.path] = [kind |-> "file", data |-> Content(cur.path, offset)]
        /\ \A q \in files : q \in DOMAIN fs /\ fs[q] = Counted(Tree, q)
    BY DEF RInv, CopyInv
  <2>2. fs[cur.path] = Counted(Tree, cur.path)
    BY <1>2, <2>1 DEF Counted
  <2> QED
    BY <1>1, <2>1, <2>2
<1>6. WarnInv'
  BY <1>1, <1>2 DEF RInv, WarnInv, Fault, Tree, Ample
<1> QED
  BY <1>4, <1>5, <1>6 DEF RInv

\* A small one.
LEMMA CloseSmallPlaced ==
    ASSUME IInv, TarInv, RInv, Steady, CloseSmall
    PROVE  RInv'
  BY Closed DEF CloseSmall

\* A large one.
LEMMA CloseLargePlaced ==
    ASSUME IInv, TarInv, RInv, Steady, CloseLarge
    PROVE  RInv'
  BY Closed DEF CloseLarge

\* A large file is created.
LEMMA OpenLargePlaced ==
    ASSUME IInv, TarInv, RInv, Steady, OpenLarge
    PROVE  RInv'
<1>1. /\ rpc = "large" /\ rpc \notin {"header", "end"} /\ rpc' = "stream"
      /\ Opens(MakeDirs(cur.path))
      /\ UNCHANGED <<pos, cur, buffer, try, ret, files, warned>>
  BY DEF OpenLarge
<1>2. /\ setup' = setup /\ archive' = archive /\ bpc' = "done" /\ try \in {1, 2} /\ cur.size \in Nat
      /\ used \in Nat /\ pos \in 0..Len(archive) /\ Len(archive) \in Nat
  BY <1>1, Working
<1>3. /\ CopyInv' /\ offset' = 0 /\ used' \in Nat
  <2>1. /\ CopyInv' /\ offset' = 0
        /\ MakeDirs(cur.path).used \in Nat /\ used' = MakeDirs(cur.path).used + 1
    BY <1>1, Opened
  <2> QED
    BY <2>1
<1>4. Behind' = Behind
  BY <1>1, <1>3 DEF Behind
<1>5. PlaceInv'
  <2>1. \E i \in 1..Len(archive') : Stands(archive', i, cur', pos' - Behind', files')
    BY <1>1, <1>4, SameHeader
  <2> QED
    BY <1>1, <1>2, <1>3, <2>1 DEF RInv, PlaceInv
<1>6. EndInv'
  BY <1>1, <1>2 DEF RInv, EndInv, Fault
<1>7. WarnInv'
  BY <1>1, <1>2, <1>3 DEF RInv, WarnInv, Fault, Tree, Ample
<1> QED
  BY <1>3, <1>5, <1>6, <1>7 DEF RInv

\* A large file that cannot be created is passed over.
LEMMA OpenLargeFailsPlaced ==
    ASSUME IInv, TarInv, RInv, Steady, OpenLargeFails
    PROVE  RInv'
<1> DEFINE m == MakeDirs(cur.path)
<1>1. /\ rpc = "large" /\ rpc \notin {"header", "end"} /\ fs' = m.fs /\ used' = m.used
      /\ warned' = warned \cup {cur.path} /\ NextHeader(Blocks(cur.size)) /\ rpc' = "header"
      /\ UNCHANGED <<cur, buffer, offset, try, ret, files>>
  BY DEF OpenLargeFails, NextHeader
<1>2. /\ cur.path \in DOMAIN Tree /\ used \in Nat /\ try \in {1, 2} /\ cur.size \in Nat
      /\ cur.size > SmallFile /\ cur.size = Tree[cur.path].size /\ setup' = setup
      /\ Blocks(cur.size) \in Nat
  <2>1. /\ cur.path \in DOMAIN Tree /\ used \in Nat /\ try \in {1, 2} /\ cur.size \in Nat
        /\ cur.size > SmallFile /\ cur.size = Tree[cur.path].size /\ setup' = setup
    BY <1>1, Working DEF RInv, PlaceInv
  <2> QED
    BY <2>1, Blocked
<1>3. cur.path \in Seq(Range(cur.path)) /\ cur.path # << >>
  <2>1. IsTree(Tree)
    BY Trees DEF IInv
  <2> QED
    BY <1>2, <2>1 DEF IsTree, Root
<1>4. m.used \in Nat /\ \A q \in DOMAIN fs : q \in DOMAIN m.fs /\ m.fs[q] = fs[q]
  BY <1>2, <1>3, DirsMade
<1> HIDE DEF m
<1>5. PlaceInv' /\ EndInv'
  <2>1. Behind = 0
    BY <1>1 DEF Behind
  <2>2. Blocks(cur.size) + Behind = Blocks(cur.size)
    BY <1>2, <2>1
  <2> QED
    BY <1>1, <1>2, <2>2, ToHeader
<1>6. CopyInv'
  BY <1>1, <1>4, FilesStay
<1>7. WarnInv'
  BY <1>1, <1>2, <1>4 DEF RInv, WarnInv, Fault, Tree, Ample
<1> QED
  BY <1>5, <1>6, <1>7 DEF RInv

\* A part of a large file is read and written.
LEMMA StreamPlaced ==
    ASSUME IInv, TarInv, RInv, Steady, Stream
    PROVE  RInv'
<1> DEFINE u == Ahead(Piece)
<1>1. /\ rpc = "stream" /\ rpc \notin {"header", "end"} /\ rpc' = rpc /\ rpc \in {"write", "stream"}
      /\ UNCHANGED <<cur, buffer, try, ret, files, warned>>
  BY DEF Stream
<1>2. PICK n \in 1..Len(u) : Takes(u, n) /\ pos' = pos + n
  BY DEF Stream
<1>3. /\ setup' = setup /\ archive' = archive /\ bpc' = "done" /\ try \in {1, 2} /\ cur.size \in Nat
      /\ used \in Nat /\ offset \in 0..cur.size /\ offset \in Nat /\ cur.kind = "file"
      /\ pos \in 0..Len(archive) /\ archive \in Seq(Range(archive)) /\ Len(archive) \in Nat
  <2>1. offset \in 0..cur.size /\ cur.size \in Nat /\ cur.kind = "file"
    BY <1>1, Working DEF RInv, PlaceInv
  <2> QED
    BY <1>1, <2>1, Working
<1>4. Piece \in Nat /\ offset + Piece <= cur.size
  BY <1>3, PieceFits
<1>5. u \in Seq(Range(u)) /\ Len(u) \in 0..Piece /\ pos + Len(u) \in 0..Len(archive) /\ pos \in Nat
  BY <1>3, <1>4, AheadUnits
<1>6. n \in Nat /\ n >= 1 /\ n <= Piece /\ n <= Len(u)
  BY <1>4, <1>5
<1>7. ~Fault("read") => \A k \in 1..Len(u) :
         u[k] = [type |-> "data", path |-> cur.path, at |-> offset + k]
  <2>1. PICK i \in 1..Len(archive) : /\ Stands(archive, i, cur, pos - Behind, files)
                                     /\ pos = i - 1 + BLOCK + Behind
    BY <1>1, Here
  <2>2. Behind = offset
    BY <1>1 DEF Behind
  <2>3. pos = i - 1 + BLOCK + offset
    BY <2>1, <2>2
  <2> QED
    BY <1>3, <1>4, <2>1, <2>3, ReadsContents
<1> HIDE DEF u
<1>8. CopyInv' /\ offset' = offset + n /\ used' = used + 1
  BY <1>1, <1>2, <1>5, <1>7, TakesOn
<1>9. Behind' = offset + n /\ Behind = offset
  BY <1>1, <1>8 DEF Behind
<1>10. PlaceInv'
  <2>1. pos' - Behind' = pos - Behind
    BY <1>2, <1>3, <1>5, <1>6, <1>9
  <2>2. \E i \in 1..Len(archive') : Stands(archive', i, cur', pos' - Behind', files')
    BY <1>1, <2>1, SameHeader
  <2>3. offset' \in 0..cur'.size /\ pos' \in 0..Len(archive')
    BY <1>1, <1>2, <1>3, <1>4, <1>5, <1>6, <1>8
  <2> QED
    BY <1>1, <1>3, <2>2, <2>3 DEF RInv, PlaceInv
<1>11. EndInv'
  BY <1>1, <1>3 DEF RInv, EndInv, Fault
<1>12. WarnInv'
  <2>1. used' \in Nat
    BY <1>3, <1>8
  <2> QED
    BY <1>1, <1>3, <2>1 DEF RInv, WarnInv, Fault, Tree, Ample
<1> QED
  BY <1>8, <1>10, <1>11, <1>12 DEF RInv

\* A large file that cannot be written, or read, ends the restore.
LEMMA StreamFailsPlaced ==
    ASSUME IInv, TarInv, RInv, Steady, StreamFails
    PROVE  RInv'
<1>1. /\ rpc = "stream" /\ rpc \notin {"header", "end"} /\ rpc' = "end"
      /\ UNCHANGED <<pos, cur, buffer, offset, try, files, warned, fs, used>>
  BY DEF StreamFails
<1>2. /\ setup' = setup /\ archive' = archive /\ bpc' = "done" /\ cur.size > SmallFile
  BY <1>1, Working DEF RInv, PlaceInv
<1>3. PlaceInv'
  BY <1>1, <1>2 DEF RInv, PlaceInv
<1>4. CopyInv'
  BY <1>1, FilesStay
<1>5. EndInv'
  BY <1>1, <1>2 DEF EndInv
<1>6. WarnInv'
  BY <1>1, <1>2 DEF RInv, WarnInv, Fault, Tree, Ample
<1> QED
  BY <1>3, <1>4, <1>5, <1>6 DEF RInv

-----------------------------------------------------------------------------
(* The second invariant holds.                                             *)

\* The restore has not begun: the archive may become another one.
LEMMA Waiting ==
    ASSUME RInv, rpc = "header", pos = 0, files = {}, UNCHANGED <<setup, restoreVars>>,
           IInv', TarInv', bpc' = bpc \/ (bpc # "done" /\ warned = {} /\ ret = 0),
           bpc' = bpc /\ bpc = "done" => Fault("cut")
    PROVE  RInv'
<1>1. /\ rpc' = "header" /\ pos' = 0 /\ ret' = ret /\ files' = {} /\ warned' = warned
      /\ used' = used /\ try' = try /\ setup' = setup
  BY DEF restoreVars
<1>2. Len(archive') \in Nat
  <2>1. archive' \in Seq(Range(archive'))
    BY DEF IInv
  <2> QED
    BY <2>1, OverRange
<1>3. PlaceInv'
  BY <1>1, <1>2 DEF RInv, PlaceInv
<1>4. CopyInv'
  BY <1>1 DEF CopyInv
<1>5. EndInv'
  <2>1. bpc' = "done" /\ ~Fault("read") /\ ~Fault("cut") => Border(archive', 0)
    BY <1>1 DEF TarInv, Whole, Fault
  <2>2. ~Fault("read") /\ ~Fault("cut") => ret # -1
    BY DEF RInv, EndInv
  <2> QED
    BY <1>1, <2>1, <2>2 DEF EndInv, Fault
<1>6. WarnInv'
  BY <1>1 DEF RInv, WarnInv, Fault, Tree, Ample
<1> QED
  BY <1>3, <1>4, <1>5, <1>6 DEF RInv

\* Nothing changes that the invariants mention.
LEMMA Resting ==
    ASSUME TarInv, RInv, UNCHANGED <<setup, archive, bpc, body, written, restoreVars>>
    PROVE  RInv'
<1>1. PlaceInv'
  <2>1. Behind' = Behind
    BY DEF Behind, restoreVars
  <2> QED
    BY <2>1 DEF RInv, PlaceInv, restoreVars
<1>2. CopyInv'
  BY DEF RInv, CopyInv, restoreVars, Fault, Tree, Remembers
<1>3. EndInv'
  BY DEF RInv, EndInv, restoreVars, Fault
<1>4. WarnInv'
  BY DEF RInv, WarnInv, restoreVars, Fault, Tree, Ample
<1> QED
  BY <1>1, <1>2, <1>3, <1>4 DEF RInv

\* At the beginning nothing was restored.
LEMMA RestoreBegins ==
    ASSUME Init, TarInv, IInv
    PROVE  RInv
<1>1. /\ rpc = "header" /\ pos = 0 /\ try = 1 /\ ret = 0 /\ files = {} /\ warned = {} /\ used = 0
  BY DEF Init, RestoreInit
<1>2. Len(archive) \in Nat
  <2>1. archive \in Seq(Range(archive))
    BY DEF IInv
  <2> QED
    BY <2>1, OverRange
<1>3. PlaceInv
  BY <1>1, <1>2 DEF PlaceInv
<1>4. CopyInv
  BY <1>1 DEF CopyInv
<1>5. EndInv
  BY <1>1 DEF EndInv, TarInv, Whole
<1>6. WarnInv
  BY <1>1 DEF WarnInv
<1> QED
  BY <1>3, <1>4, <1>5, <1>6 DEF RInv

\* The archive and the restore, together.
JInv == TarInv /\ RInv

\* Every step keeps the second invariant, the first one given.
LEMMA NextCopies == IInv /\ JInv /\ [Next]_vars /\ IInv' => JInv'
<1> SUFFICES ASSUME IInv, TarInv, RInv, [Next]_vars, IInv' PROVE TarInv' /\ RInv'
  BY DEF JInv
<1>1. CASE Backup
  <2>1. BackupNext /\ setup' = setup /\ restoreVars' = restoreVars
    BY <1>1 DEF Backup
  <2>2. TarInv'
    BY <2>1, TarNext
  <2>3. bpc # "done"
    <3>1. CASE \/ OpenDir \/ OpenDirFails \/ ReadDir \/ ReadDirEnds \/ CloseDir
      BY <3>1 DEF OpenDir, OpenDirFails, ReadDir, ReadDirEnds, CloseDir
    <3>2. CASE \/ EnterDir \/ CopyLink \/ OpenFile
      BY <3>2 DEF EnterDir, CopyLink, OpenFile, NextEntry
    <3>5. CASE \/ EntryFails \/ LeaveDir
      BY <3>5 DEF EntryFails, LeaveDir, NextEntry
    <3>3. CASE \/ CopyUnits \/ CopyFails \/ FinishCopy
      BY <3>3 DEF CopyUnits, CopyFails, FinishCopy
    <3>4. CASE \/ ProbeSkips \/ ProbeFile \/ EndArchive
      BY <3>4 DEF ProbeSkips, ProbeFile, EndArchive
    <3> QED
      BY <2>1, <3>1, <3>2, <3>3, <3>4, <3>5 DEF BackupNext
  <2>4. rpc = "header" /\ pos = 0 /\ files = {} /\ warned = {} /\ ret = 0
    BY <2>3 DEF RInv, PlaceInv
  <2> QED
    BY <2>1, <2>2, <2>3, <2>4, Waiting
<1>2. CASE Disk
  <2>1. TarInv'
    BY <1>2, TarOutside
  <2>2. UNCHANGED <<setup, archive, bpc, body, written, restoreVars>>
    BY <1>2 DEF Disk, DiskFills
  <2> QED
    BY <2>1, <2>2, Resting
<1>3. CASE Cut
  <2>1. TarInv'
    BY <1>3, TarOutside
  <2>2. /\ rpc = "header" /\ pos = 0 /\ Fault("cut") /\ bpc' = bpc
        /\ setup' = setup /\ restoreVars' = restoreVars
    BY <1>3 DEF Cut, backupVars
  <2>3. files = {}
    <3>1. \A p \in files : Handled(archive, 0, p)
      BY <2>2 DEF RInv, PlaceInv
    <3> QED
      BY <3>1 DEF Handled
  <2> QED
    BY <2>1, <2>2, <2>3, Waiting
<1>4. ASSUME UNCHANGED <<setup, archive, backupVars>> PROVE TarInv'
  <2>1. /\ archive' = archive /\ bpc' = bpc /\ body' = body /\ full' = full /\ Tree' = Tree
        /\ \A f : Fault(f)' <=> Fault(f)
    BY <1>4, Same DEF backupVars, IInv
  <2> QED
    BY <2>1 DEF TarInv
<1>5. CASE Restore
  <2>1. Steady /\ RestoreNext
    BY <1>5 DEF Restore, Steady
  <2>2. TarInv'
    BY <1>4, <2>1 DEF Steady
  <2>3. RInv'
    BY <2>1, ReadHeaderPlaced, NoHeaderPlaced, MakeDirPlaced, MakeLinkPlaced, WriteNvPlaced,
       BeginFilePlaced, PutItemPlaced, PutFailsPlaced, OpenSmallPlaced, OpenSmallFailsPlaced,
       WriteSmallPlaced, WriteSmallFailsPlaced, OpenLargePlaced, OpenLargeFailsPlaced,
       StreamPlaced, StreamFailsPlaced, CloseSmallPlaced, CloseLargePlaced
    DEF RestoreNext
  <2> QED
    BY <2>2, <2>3
<1>6. CASE UNCHANGED vars
  <2>1. UNCHANGED <<setup, archive, backupVars>> /\ UNCHANGED restoreVars
    BY <1>6 DEF vars
  <2>2. TarInv'
    BY <1>4, <2>1
  <2>3. UNCHANGED <<setup, archive, bpc, body, written, restoreVars>>
    BY <2>1 DEF backupVars
  <2> QED
    BY <2>2, <2>3, Resting
<1> QED
  BY <1>1, <1>2, <1>3, <1>5, <1>6 DEF Next

\* What the archive and the restore are, in every behaviour.
THEOREM Copying == Spec => [](IInv /\ JInv)
<1>1. Init => IInv /\ JInv
  BY InitHolds, TarInit, RestoreBegins DEF JInv
<1>2. IInv /\ JInv /\ [Next]_vars => IInv' /\ JInv'
  BY NextKeeps, NextCopies
<1> QED
  BY <1>1, <1>2, PTL DEF Spec

(* What is counted as restored is on the modem, complete, whatever was     *)
(* refused before and wherever the archive ends, unless a read failed      *)
(* during the backup or the path_set was full: for every tree, every       *)
(* archive of it and every capacity of the path_set.                       *)
THEOREM CountedIsWrittenHolds == Spec => []CountedIsWritten
<1>1. IInv /\ JInv => CountedIsWritten
  <2> SUFFICES ASSUME IInv, JInv, ~Fault("read"), Cardinality(written) < setup.capacity,
                      NEW p \in files
               PROVE  fs[p] = [Restored(p) EXCEPT !.kind = "file"]
    BY DEF CountedIsWritten
  <2>1. fs[p] = Counted(Tree, p)
    BY DEF JInv, RInv, CopyInv, Remembers
  <2>2. [Restored(p) EXCEPT !.kind = "file"] = Counted(Tree, p)
    BY DEF Restored, Counted
  <2> QED
    BY <2>1, <2>2
<1> QED
  BY Copying, <1>1, PTL

(* The restore loses no small file to anything but a refusal, and gives up *)
(* over nothing but a large file: for every archive and every journal that *)
(* has room for one small file and the directories above it.               *)
THEOREM LosesOnlyForCauseHolds == Spec => [](Ample => LosesOnlyForCause)
<1>1. IInv /\ JInv => (Ample => LosesOnlyForCause)
  <2> SUFFICES ASSUME IInv, JInv, Ample PROVE LosesOnlyForCause
    OBVIOUS
  <2>1. {Fault("refuse"), Fault("sync")} = {FALSE} =>
           \A p \in warned : Tree[p].kind = "file" => Tree[p].size > SmallFile
    <3>1. {Fault("refuse"), Fault("sync")} = {FALSE} => ~Fault("refuse") /\ ~Fault("sync")
      OBVIOUS
    <3> QED
      BY <3>1 DEF JInv, RInv, WarnInv
  <2>2. ret = -1 /\ {Fault("read"), Fault("cut")} = {FALSE} => rpc = "end" /\ cur.size > SmallFile
    <3>1. {Fault("read"), Fault("cut")} = {FALSE} => ~Fault("read") /\ ~Fault("cut")
      OBVIOUS
    <3> QED
      BY <3>1 DEF JInv, RInv, EndInv
  <2> QED
    BY <2>1, <2>2 DEF LosesOnlyForCause
<1> QED
  BY Copying, <1>1, PTL
-----------------------------------------------------------------------------
(* The round trip: a third invariant, built on the other two.              *)

\* A header of the archive gives the node of the tree as what it is.
Recorded(t, s, p) == \E h \in Heads(s) : h.path = p /\ h.kind = t[p].kind

\* The walk still has to come to a path, or the probes have.
Within(q, d) == \E n \in 0..Len(q) : SubSeq(q, 1, n) = d
Left(q) ==
    \/ ~Passed(q, stack)
    \/ bpc = "opendir" /\ Within(q, Top.path)
    \/ Reading /\ q = Top.path
Pending(p) ==
    /\ bpc \notin {"done", "failed"}
    /\ IF Tree[p].hidden THEN p \in Range(probe) ELSE Left(p)

\* Only the directory that is read has entries readdir has not returned.
Drained(st, all) == \A k \in 1..Len(st) : k < Len(st) \/ all => st[k].listing = << >>

\* Nothing is lost between the walk, the probes and the archive.
Reached ==
    setup.nv = 0 /\ bpc # "failed" /\ ~full /\ ~Fault("cut") =>
        \A p \in DOMAIN Tree :
           p \in skipped \/ Unseen(p) \/ Pending(p) \/ Recorded(Tree, archive, p)
Captured ==
    setup.nv = 0 /\ ~full /\ ~Fault("cut") =>
        /\ \A p \in written : Tree[p].kind = "file" => Recorded(Tree, archive, p)
        /\ bpc = "body" /\ Tree[body.path].kind = "file" => Recorded(Tree, archive, body.path)
ReachInv ==
    /\ probe \in Seq(Range(probe)) /\ Range(probe) \subseteq Range(setup.probes)
    /\ bpc \notin {"done", "failed"} => Drained(stack, bpc # "readdir")
    /\ Reached /\ Captured
    /\ setup.nv # 0 =>
          /\ bpc = "done"
          /\ ~Fault("cut") => \A p \in DOMAIN Tree :
                                Tree[p].kind = "file" => Recorded(Tree, archive, p)

\* Only a probe archives a node, a link, as what it is not; and nothing is
\* archived as two different ones.
Plain(t, c, h) ==
    \/ h.kind = "nv" \/ h.kind = t[h.path].kind
    \/ h.kind = "file" /\ t[h.path].kind = "link" /\ h.path \in Range(c.probes)
KindsInv ==
    /\ \A h \in Heads(archive) : Plain(Tree, setup, h)
    /\ Remembers => \A g, h \in Heads(archive) :
                       g.path = h.path /\ "nv" \notin {g.kind, h.kind} => g.kind = h.kind

\* Two zeros, one after the other, are at the end of the archive only.
Tight(s) == \A i \in 1..(Len(s) - 1) : ~(s[i] = Zero /\ s[i + 1] = Zero)
Sealed(s) ==
    \A i \in 1..(Len(s) - 1) :
       s[i] = Zero /\ s[i + 1] = Zero => \A j \in i..Len(s) : ~IsHead(s[j])
ZerosInv ==
    ~full /\ ~Fault("cut") =>
        /\ bpc \notin {"done", "failed"} => Tight(archive)
        /\ bpc = "body" => archive # << >> /\ archive[Len(archive)] # Zero
        /\ bpc = "done" => Sealed(archive)

\* What a restore misses in silence.
Clash(c, p) ==
    c.tree[p].kind = "dir" /\ p \in DOMAIN c.target /\ c.target[p].kind # "dir"
Excused(c, n, p) ==
    \/ Clash(c, p)
    \/ c.tree[p].kind = "link" /\ p \in Range(c.probes) /\ n = c.capacity

\* What a header says is on the modem; the file being written is not yet.
Given(c, n, f, w, h) ==
    \/ h.kind = "nv" \/ h.path \in w \/ Excused(c, n, h.path)
    \/ h.path \in DOMAIN f /\ f[h.path] = [kind |-> h.kind, data |-> Content(h.path, h.size)]
Redone(k, h) == k.kind = "file" /\ h.path = k.path

\* The directories of the tree are directories on the modem.
DirsStand(c, f) ==
    \A q \in DOMAIN c.tree \cap DOMAIN f :
       c.tree[q].kind = "dir" => f[q] = Empty("dir") \/ Clash(c, q)

GivenInv ==
    /\ DirsStand(setup, fs)
    /\ ~Fault("read") /\ ~Fault("cut") =>
          /\ rpc = "header" => \A j \in 1..pos :
                IsHead(archive[j]) =>
                   Given(setup, Cardinality(written), fs, warned, archive[j])
          /\ rpc \notin {"header", "end"} => \A j \in 1..(pos - Behind - BLOCK) :
                IsHead(archive[j]) =>
                   \/ Given(setup, Cardinality(written), fs, warned, archive[j])
                   \/ Redone(cur, archive[j])
          /\ rpc = "end" /\ ret = 0 => \A j \in 1..Len(archive) :
                IsHead(archive[j]) =>
                   Given(setup, Cardinality(written), fs, warned, archive[j])

GInv == ReachInv /\ KindsInv /\ ZerosInv /\ GivenInv

-----------------------------------------------------------------------------
(* The tree, and what is above and below a path.                           *)

\* The listing of a finite set has all of it.
LEMMA SetCovered ==
    ASSUME NEW S, IsFiniteSet(S)
    PROVE  S \subseteq Range(SetToSeq(S))
<1> DEFINE n == Cardinality(S)
<1>1. n \in Nat
  BY FS_CardinalityType
<1>2. PICK f : f \in Bijection(1..n, S)
  BY FS_CardinalityType DEF ExistsBijection
<1>3. f \in [1..n -> S] /\ IsInjective(f)
  BY <1>2 DEF Bijection, Injection, IsInjective
<1> DEFINE g == SetToSeq(S)
<1>4. g \in [1..n -> S] /\ IsInjective(g)
  BY <1>3 DEF SetToSeq
<1> HIDE DEF g
<1>5. g \in Injection(1..n, S)
  BY <1>4 DEF Injection, IsInjective
<1>6. Cardinality(1..n) = n
  <2> HIDE DEF n
  <2>1. 1 \in Int /\ n \in Int
    BY <1>1
  <2>2. Cardinality(1..n) = IF 1 > n THEN 0 ELSE n - 1 + 1
    BY <2>1, FS_Interval
  <2> QED
    BY <1>1, <2>2
<1>7. g \in Surjection(1..n, S)
  BY <1>5, <1>6, FS_Injection
<1> QED
  BY <1>4, <1>7 DEF Surjection, Range, g

\* Above a path of the tree there are directories.
LEMMA Above ==
    ASSUME setup \in Setups, NEW q \in DOMAIN Tree, NEW n \in 1..(Len(q) - 1)
    PROVE  /\ SubSeq(q, 1, n) \in DOMAIN Tree /\ Tree[SubSeq(q, 1, n)].kind = "dir"
           /\ ~Tree[SubSeq(q, 1, n)].hidden
<1>1. IsSetup(setup)
  BY EfsConstants
<1>2. SubSeq(q, 1, n) \in Range(Ancestors(q))
  BY DEF Range, Ancestors
<1>3. /\ SubSeq(q, 1, n) \in DOMAIN Tree /\ Tree[SubSeq(q, 1, n)].kind = "dir"
  BY <1>1, <1>2 DEF IsSetup, Tree
<1>4. \A p \in DOMAIN Tree : Tree[p].hidden => Tree[p].kind = "file"
  BY <1>1 DEF IsSetup, Tree
<1> QED
  BY <1>3, <1>4

\* What else is in the tree.
LEMMA TreeNodes ==
    ASSUME setup \in Setups, NEW q \in DOMAIN Tree
    PROVE  /\ q \in Seq(Range(q)) /\ q # Root /\ Len(q) \in Nat \ {0}
           /\ SubSeq(q, 1, Len(q)) = q
           /\ Tree[q].kind \in {"dir", "file", "link"} /\ Tree[q].size \in Nat
           /\ Tree[q].hidden \in BOOLEAN
           /\ Tree[q].hidden => Tree[q].kind = "file"
           /\ Tree[q].kind # "file" => Tree[q].size = 0
<1>1. IsSetup(setup)
  BY EfsConstants
<1>2. Tree[q] \in Node /\ q \in Seq(Range(q)) /\ q # Root
  BY <1>1 DEF IsSetup, Tree, Root
<1>3. Tree[q].hidden => Tree[q].kind = "file"
  BY <1>1 DEF IsSetup, Tree
<1>4. Tree[q].kind # "file" => Tree[q].size = 0
  BY <1>1 DEF IsSetup, Tree
<1>5. Len(q) \in Nat \ {0} /\ SubSeq(q, 1, Len(q)) = q
  BY <1>2, Beginning, EmptySeq DEF Root
<1> QED
  BY <1>2, <1>3, <1>4, <1>5 DEF Node

\* Below anything but a directory there is nothing.
LEMMA Leaf ==
    ASSUME setup \in Setups, NEW q \in DOMAIN Tree, NEW n \in 0..Len(q),
           NEW x \in DOMAIN Tree, x = SubSeq(q, 1, n), Tree[x].kind # "dir"
    PROVE  x = q
<1>1. /\ q \in Seq(Range(q)) /\ Len(q) \in Nat \ {0} /\ SubSeq(q, 1, Len(q)) = q
      /\ Len(x) \in Nat \ {0}
  BY TreeNodes
<1>2. Len(x) = n
  BY <1>1, Beginning
<1>3. n \in 1..(Len(q) - 1) \/ n = Len(q)
  <2> DEFINE l == Len(q)
  <2>1. l \in Nat /\ n \in 0..l /\ n # 0
    BY <1>1, <1>2
  <2> HIDE DEF l
  <2>2. n \in 1..(l - 1) \/ n = l
    BY <2>1
  <2> QED
    BY <2>2 DEF l
<1>4. n \notin 1..(Len(q) - 1)
  BY Above
<1> QED
  BY <1>1, <1>3, <1>4

\* A path is below its own beginnings.
LEMMA Beneath ==
    ASSUME setup \in Setups, NEW q \in DOMAIN Tree, NEW n \in 0..Len(q)
    PROVE  q \in Below(SubSeq(q, 1, n))
<1> DEFINE x == SubSeq(q, 1, n)
<1>1. q \in Seq(Range(q)) /\ Len(q) \in Nat
  BY TreeNodes
<1>2. Len(x) = n /\ SubSeq(x, 1, n) = x
  BY <1>1, Beginning
<1> HIDE DEF x
<1>3. Len(x) <= Len(q) /\ SubSeq(x, 1, Len(x)) = SubSeq(q, 1, Len(x))
  BY <1>1, <1>2 DEF x
<1> QED
  BY <1>3 DEF Below, IsPrefix, x

\* What is below a directory is below an entry that readdir shows of it.
LEMMA Shown ==
    ASSUME setup \in Setups, NEW q \in DOMAIN Tree, ~Tree[q].hidden, NEW d, Within(q, d), q # d
    PROVE  \E n \in 0..Len(q) : SubSeq(q, 1, n) \in Range(Listed(d))
<1>1. PICK m \in 0..Len(q) : SubSeq(q, 1, m) = d
  BY DEF Within
<1>2. /\ q \in Seq(Range(q)) /\ Len(q) \in Nat \ {0} /\ SubSeq(q, 1, Len(q)) = q
  BY TreeNodes
<1> DEFINE n == m + 1
           x == SubSeq(q, 1, n)
<1>3. n \in 0..Len(q) /\ m \in 0..n /\ (n \in 1..(Len(q) - 1) \/ n = Len(q))
  <2> DEFINE l == Len(q)
  <2>1. l \in Nat /\ m \in 0..l /\ m # l
    BY <1>1, <1>2
  <2> HIDE DEF l
  <2>2. n \in 0..l /\ m \in 0..n /\ (n \in 1..(l - 1) \/ n = l)
    BY <2>1
  <2> QED
    BY <2>2 DEF l
<1>4. x \in DOMAIN Tree /\ ~Tree[x].hidden
  BY <1>2, <1>3, Above
<1>5. Len(x) = n /\ SubSeq(x, 1, m) = d
  BY <1>1, <1>2, <1>3, Beginning
<1>6. Front(x) = d
  <2>1. Len(x) - 1 = m
    BY <1>3, <1>5
  <2> QED
    BY <1>5, <2>1 DEF Front
<1> HIDE DEF x, n
<1> DEFINE S == {p \in DOMAIN Tree : Front(p) = d /\ ~Tree[p].hidden}
<1>7. x \in S
  BY <1>4, <1>6
<1>8. IsFiniteSet(S)
  <2>1. S \in SUBSET DOMAIN Tree /\ IsFiniteSet(DOMAIN Tree)
    BY Trees DEF IsTree
  <2> QED
    BY <2>1, FS_Subset
<1>9. x \in Range(SetToSeq(S))
  BY <1>7, <1>8, SetCovered
<1> QED
  BY <1>3, <1>9 DEF Listed, x
-----------------------------------------------------------------------------
(* What is left in the stack, and what is in the archive.                  *)

\* What is left stays left, or is dropped from the directory on top.
LEMMA ReplacedLeft ==
    ASSUME NEW st, st \in Seq(Range(st)), st # << >>, NEW f, NEW q, ~Passed(q, st)
    PROVE  \/ ~Passed(q, Append(Front(st), f))
           \/ \E n \in 0..Len(q) : /\ SubSeq(q, 1, n) \in Todo(Last(st))
                                   /\ SubSeq(q, 1, n) \notin Todo(f)
<1> DEFINE new == Append(Front(st), f)
           l == Len(st)
<1>1. /\ l \in Nat \ {0} /\ Len(new) = l /\ new[l] = f
      /\ \A k \in 1..(l - 1) : new[k] = st[k]
      /\ Last(st) = st[l]
  <2>1. /\ Front(st) \in Seq(Range(Front(st))) /\ Len(Front(st)) = l - 1 /\ l \in Nat \ {0}
        /\ \A i \in 1..(l - 1) : Front(st)[i] = st[i]
    BY Fronted
  <2>2. /\ Len(new) = l - 1 + 1 /\ new[l - 1 + 1] = f
        /\ \A i \in 1..(l - 1) : new[i] = Front(st)[i]
    BY <2>1, Appended
  <2>3. Last(st) = st[l]
    BY DEF Last
  <2> HIDE DEF new
  <2> QED
    BY <2>1, <2>2, <2>3
<1>2. PICK k \in 1..l, n \in 0..Len(q) : SubSeq(q, 1, n) \in Todo(st[k])
  BY DEF Passed
<1> HIDE DEF new, l
<1>3. CASE k = l
  <2>1. l \in 1..l
    BY <1>1
  <2> QED
    BY <1>1, <1>2, <1>3, <2>1 DEF Passed, new
<1>4. CASE k # l
  <2>1. k \in 1..(l - 1) /\ k \in 1..Len(new)
    BY <1>1, <1>4
  <2>2. SubSeq(q, 1, n) \in Todo(new[k])
    BY <1>1, <1>2, <2>1
  <2> QED
    BY <2>1, <2>2 DEF Passed, new
<1> QED
  BY <1>3, <1>4

\* The same when the directory on top is left.
LEMMA PoppedLeft ==
    ASSUME NEW st, st \in Seq(Range(st)), st # << >>, NEW q, ~Passed(q, st)
    PROVE  \/ ~Passed(q, Front(st))
           \/ \E n \in 0..Len(q) : SubSeq(q, 1, n) \in Todo(Last(st))
<1> DEFINE new == Front(st)
           l == Len(st)
<1>1. /\ l \in Nat \ {0} /\ Len(new) = l - 1 /\ Last(st) = st[l]
      /\ \A k \in 1..(l - 1) : new[k] = st[k]
  BY Fronted DEF Last
<1>2. PICK k \in 1..l, n \in 0..Len(q) : SubSeq(q, 1, n) \in Todo(st[k])
  BY DEF Passed
<1> HIDE DEF new, l
<1>3. CASE k = l
  BY <1>1, <1>2, <1>3
<1>4. CASE k # l
  <2>1. k \in 1..(l - 1) /\ k \in 1..Len(new)
    BY <1>1, <1>4
  <2>2. SubSeq(q, 1, n) \in Todo(new[k])
    BY <1>1, <1>2, <2>1
  <2> QED
    BY <2>1, <2>2 DEF Passed, new
<1> QED
  BY <1>3, <1>4

\* Another directory on top leaves no less.
LEMMA PushedLeft ==
    ASSUME NEW st, st \in Seq(Range(st)), NEW f, NEW q, ~Passed(q, st)
    PROVE  ~Passed(q, Append(st, f))
<1> DEFINE new == Append(st, f)
           l == Len(st)
<1>1. l \in Nat /\ Len(new) = l + 1 /\ \A k \in 1..l : new[k] = st[k]
  BY Appended
<1>2. PICK k \in 1..l, n \in 0..Len(q) : SubSeq(q, 1, n) \in Todo(st[k])
  BY DEF Passed
<1> HIDE DEF new, l
<1>3. k \in 1..Len(new) /\ SubSeq(q, 1, n) \in Todo(new[k])
  BY <1>1, <1>2
<1> QED
  BY <1>3 DEF Passed, new

\* What the directory on top has is left.
LEMMA TopLeft ==
    ASSUME NEW st, st \in Seq(Range(st)), st # << >>, NEW q, NEW n \in 0..Len(q),
           SubSeq(q, 1, n) \in Todo(Last(st))
    PROVE  ~Passed(q, st)
<1>1. Len(st) \in 1..Len(st) /\ Last(st) = st[Len(st)]
  <2>1. Len(st) \in Nat \ {0}
    BY OverRange, EmptySeq
  <2> DEFINE l == Len(st)
  <2> HIDE DEF l
  <2>2. l \in Nat \ {0} => l \in 1..l
    OBVIOUS
  <2> QED
    BY <2>1, <2>2 DEF Last, l
<1> QED
  BY <1>1 DEF Passed

\* The listings of the directories, as the one on top changes, is left and
\* is entered.
LEMMA DrainedOn ==
    ASSUME NEW st, st \in Seq(Range(st)), st # << >>, NEW all \in BOOLEAN, Drained(st, all)
    PROVE  /\ \A f : \A some \in BOOLEAN : (some => f.listing = << >>) =>
                 Drained(Append(Front(st), f), some)
           /\ Drained(Front(st), TRUE)
<1> DEFINE new == Front(st)
           l == Len(st)
<1>1. /\ l \in Nat \ {0} /\ Len(new) = l - 1 /\ new \in Seq(Range(new))
      /\ \A k \in 1..(l - 1) : new[k] = st[k]
  BY Fronted
<1>2. \A k \in 1..(l - 1) : new[k].listing = << >>
  <2>1. \A k \in 1..(l - 1) : k \in 1..l /\ k < l
    BY <1>1
  <2> QED
    BY <1>1, <2>1 DEF Drained
<1> HIDE DEF new, l
<1>3. Drained(new, TRUE)
  BY <1>1, <1>2 DEF Drained
<1>4. ASSUME NEW f, NEW some \in BOOLEAN, some => f.listing = << >>
      PROVE  Drained(Append(new, f), some)
  <2> DEFINE a == Append(new, f)
  <2>1. Len(a) = l - 1 + 1 /\ a[l - 1 + 1] = f /\ \A k \in 1..(l - 1) : a[k] = new[k]
    BY <1>1, Appended
  <2> HIDE DEF a
  <2>2. Len(a) = l /\ a[l] = f /\ \A k \in 1..l : k \in 1..(l - 1) \/ k = l
    BY <1>1, <2>1
  <2>3. \A k \in 1..l : k < l \/ some => a[k].listing = << >>
    BY <1>1, <1>2, <1>4, <2>1, <2>2
  <2> QED
    BY <2>2, <2>3 DEF Drained, a
<1> QED
  BY <1>3, <1>4 DEF new

\* The headers of two sequences are in their concatenation.
LEMMA HeadsBoth ==
    ASSUME NEW s, NEW t, s \in Seq(Range(s)), t \in Seq(Range(t))
    PROVE  Heads(s) \cup Heads(t) \subseteq Heads(s \o t)
<1> DEFINE u == s \o t
           m == Len(s)
           n == Len(t)
<1>1. /\ m \in Nat /\ n \in Nat /\ Len(u) = m + n
      /\ \A i \in 1..m : u[i] = s[i]
      /\ \A i \in 1..n : u[m + i] = t[i]
  BY Joined
<1> HIDE DEF u, m, n
<1>2. ASSUME NEW h \in Heads(s) PROVE h \in Heads(u)
  <2>1. PICK i \in 1..m : IsHead(s[i]) /\ h = s[i]
    BY DEF Heads, m
  <2>2. i \in 1..Len(u) /\ u[i] = h
    BY <1>1, <2>1
  <2> QED
    BY <2>1, <2>2 DEF Heads
<1>3. ASSUME NEW h \in Heads(t) PROVE h \in Heads(u)
  <2>1. PICK i \in 1..n : IsHead(t[i]) /\ h = t[i]
    BY DEF Heads, n
  <2>2. m + i \in 1..Len(u) /\ u[m + i] = h
    BY <1>1, <2>1
  <2> QED
    BY <2>1, <2>2 DEF Heads
<1> QED
  BY <1>2, <1>3 DEF u

\* What is written stays, and is there unless the disk is full.
LEMMA HeadsStay ==
    ASSUME archive \in Seq(Range(archive)), NEW u, u \in Seq(Range(u)), Write(u)
    PROVE  Heads(archive) \subseteq Heads(archive') /\ (~full => Heads(u) \subseteq Heads(archive'))
  BY HeadsBoth DEF Write

\* A header that was written gives its path.
LEMMA HeaderNotes ==
    ASSUME archive \in Seq(Range(archive)), NEW p, NEW kind, NEW size,
           Write(Header(p, kind, size))
    PROVE  /\ Heads(archive) \subseteq Heads(archive')
           /\ ~full /\ kind = Tree[p].kind => Recorded(Tree, archive', p)
<1> DEFINE u == Header(p, kind, size)
<1>1. u \in Seq(Range(u)) /\ Heads(u) = {Mark(p, kind, size)}
  BY HeaderHeads
<1> HIDE DEF u
<1>2. Heads(archive) \subseteq Heads(archive') /\ (~full => Heads(u) \subseteq Heads(archive'))
  BY <1>1, HeadsStay DEF u
<1>3. Mark(p, kind, size).path = p /\ Mark(p, kind, size).kind = kind
  BY DEF Mark
<1> QED
  BY <1>1, <1>2, <1>3 DEF Recorded

-----------------------------------------------------------------------------
(* Nothing is lost on the way.                                             *)

\* A step of the walk: a path that was left is left, left out or archived.
LEMMA Reaches ==
    ASSUME IInv, ReachInv, setup' = setup, bpc \notin {"done", "failed"}, bpc' # "done",
           full' = full, probe' = probe, skipped \subseteq skipped',
           Heads(archive) \subseteq Heads(archive'),
           bpc' # "failed" => Drained(stack', bpc' # "readdir"),
           \A q \in DOMAIN Tree : ~Tree[q].hidden /\ Left(q) /\ ~full =>
              bpc' = "failed" \/ q \in skipped' \/ Left(q)' \/ Recorded(Tree, archive', q),
           \A p \in written' : Tree[p].kind = "file" => p \in written \/ (bpc = "body" /\ p = body.path),
           bpc' = "body" =>
              \/ bpc = "body" /\ body'.path = body.path
              \/ ~full /\ Tree[body'.path].kind = "file" => Recorded(Tree, archive', body'.path)
    PROVE  ReachInv'
<1>1. Tree' = Tree /\ setup \in Setups /\ \A f : Fault(f)' <=> Fault(f)
  BY Same DEF IInv
<1>2. \A p : Recorded(Tree, archive, p) => Recorded(Tree, archive', p)
  BY DEF Recorded
<1>3. setup.nv = 0
  BY DEF ReachInv
<1>4. Reached'
  <2> SUFFICES ASSUME bpc' # "failed", ~full, ~Fault("cut"), NEW p \in DOMAIN Tree
               PROVE  p \in skipped' \/ Unseen(p) \/ Pending(p)' \/ Recorded(Tree, archive', p)
    BY <1>1 DEF Reached, Unseen
  <2>1. p \in skipped \/ Unseen(p) \/ Pending(p) \/ Recorded(Tree, archive, p)
    BY <1>3 DEF ReachInv, Reached
  <2>2. CASE Pending(p) /\ Tree[p].hidden
    BY <1>1, <2>2 DEF Pending
  <2>3. CASE Pending(p) /\ ~Tree[p].hidden
    <3>1. Left(p)
      BY <2>3 DEF Pending
    <3>2. p \in skipped' \/ Left(p)' \/ Recorded(Tree, archive', p)
      BY <2>3, <3>1
    <3> QED
      BY <1>1, <2>3, <3>2 DEF Pending
  <2> QED
    BY <1>2, <2>1, <2>2, <2>3
<1>5. Captured'
  BY <1>1, <1>2, <1>3 DEF ReachInv, Captured
<1> QED
  BY <1>1, <1>3, <1>4, <1>5 DEF ReachInv


\* The directory on top, while the walk goes on.
LEMMA Atop ==
    ASSUME IInv, ReachInv, Walking, setup' = setup
    PROVE  /\ setup \in Setups /\ Tree' = Tree /\ stack \in Seq(Range(stack)) /\ stack # << >>
           /\ Top = Last(stack) /\ IsFrame(Tree, Top)
           /\ Top = [path |-> Top.path, listing |-> Top.listing, entries |-> Top.entries]
           /\ bpc \notin {"done", "failed"} /\ archive \in Seq(Range(archive))
           /\ Drained(stack, bpc # "readdir")
<1>1. setup \in Setups /\ Tree' = Tree /\ IsTree(Tree) /\ archive \in Seq(Range(archive))
  BY Same DEF IInv
<1>2. IsStack(Tree, stack) /\ stack # << >> /\ bpc \notin {"done", "failed"}
  BY DEF IInv, WalkInv, Walking, Reading
<1>3. IsFrame(Tree, Top) /\ Top = Last(stack)
  BY <1>1, <1>2, OnTop DEF Top
<1> QED
  BY <1>1, <1>2, <1>3 DEF IsStack, IsFrame, ReachInv

\* What another directory on top leaves of a stack that is drained.
LEMMA NewTop ==
    ASSUME NEW st, st \in Seq(Range(st)), st # << >>, NEW all \in BOOLEAN, Drained(st, all),
           NEW f, NEW some \in BOOLEAN, some => f.listing = << >>, NEW new, new = Append(Front(st), f)
    PROVE  Drained(new, some) /\ Last(new) = f /\ new \in Seq(Range(new)) /\ new # << >>
<1>1. Front(st) \in Seq(Range(Front(st)))
  BY Fronted
<1>2. Last(new) = f /\ new \in Seq(Range(new)) /\ new # << >>
  BY <1>1, Appended
<1>3. Drained(new, some)
  BY DrainedOn
<1> QED
  BY <1>2, <1>3

\* The directory is opened: what is below it is shown.
LEMMA OpenDirReaches ==
    ASSUME IInv, ReachInv, OpenDir, setup' = setup
    PROVE  ReachInv'
<1> DEFINE d == Top.path
           f == [Top EXCEPT !.listing = Listed(d)]
<1>1. /\ bpc = "opendir" /\ bpc' = "readdir" /\ stack' = Append(Front(stack), f)
      /\ UNCHANGED <<body, written, probe, full, skipped, archive>>
  BY DEF OpenDir, Replace
<1>2. /\ setup \in Setups /\ Tree' = Tree /\ stack \in Seq(Range(stack)) /\ stack # << >>
      /\ Top = Last(stack) /\ Drained(stack, TRUE)
      /\ Top = [path |-> Top.path, listing |-> Top.listing, entries |-> Top.entries]
  <2>1. Walking /\ bpc # "readdir" /\ (bpc # "readdir") = TRUE
    BY <1>1 DEF Walking
  <2> QED
    BY <2>1, Atop
<1>3. f.path = d /\ f.listing = Listed(d)
  BY <1>2
<1>4. Todo(Last(stack)) = {} /\ Range(f.listing) \subseteq Todo(f)
  BY <1>1 DEF IInv, WalkInv, Todo, Top
<1> HIDE DEF f, d
<1>5. /\ Drained(stack', FALSE) /\ Last(stack') = f
      /\ stack' \in Seq(Range(stack')) /\ stack' # << >>
  BY <1>1, <1>2, NewTop
<1>6. ASSUME NEW q \in DOMAIN Tree, ~Tree[q].hidden, Left(q) PROVE Left(q)'
  <2>1. CASE ~Passed(q, stack)
    <3>1. ~Passed(q, Append(Front(stack), f))
      BY <1>2, <1>4, <2>1, ReplacedLeft
    <3> QED
      BY <1>1, <3>1 DEF Left
  <2>2. CASE Within(q, d) /\ q = d
    BY <1>1, <1>3, <1>5, <2>2 DEF Left, Reading, Top
  <2>3. CASE Within(q, d) /\ q # d
    <3>1. PICK n \in 0..Len(q) : SubSeq(q, 1, n) \in Range(Listed(d))
      BY <1>2, <1>6, <2>3, Shown
    <3>2. SubSeq(q, 1, n) \in Todo(Last(stack'))
      BY <1>3, <1>4, <1>5, <3>1
    <3>3. ~Passed(q, stack')
      BY <1>5, <3>2, TopLeft
    <3> QED
      BY <3>3 DEF Left
  <2> QED
    BY <1>1, <1>6, <2>1, <2>2, <2>3 DEF Left, Reading, d
<1>7. Heads(archive) \subseteq Heads(archive') /\ (bpc' # "readdir") = FALSE
  BY <1>1
<1> QED
  BY <1>1, <1>5, <1>6, <1>7, Reaches

\* The directory cannot be opened: all of it is left out.
LEMMA OpenDirFailsReaches ==
    ASSUME IInv, ReachInv, OpenDirFails, setup' = setup
    PROVE  ReachInv'
<1> DEFINE d == Top.path
<1>1. /\ bpc = "opendir" /\ bpc' \in {"entry", "failed"} /\ stack' = Front(stack)
      /\ skipped' = skipped \cup Below(d)
      /\ UNCHANGED <<body, written, probe, full, archive>>
  BY DEF OpenDirFails, Return
<1>2. /\ setup \in Setups /\ stack \in Seq(Range(stack)) /\ stack # << >>
      /\ Top = Last(stack) /\ Drained(stack, TRUE)
  <2>1. Walking /\ bpc # "readdir" /\ (bpc # "readdir") = TRUE
    BY <1>1 DEF Walking
  <2> QED
    BY <2>1, Atop
<1>3. Todo(Last(stack)) = {}
  BY <1>1 DEF IInv, WalkInv, Top
<1> HIDE DEF d
<1>4. Drained(stack', TRUE) /\ (bpc' # "readdir") = TRUE
  BY <1>1, <1>2, DrainedOn
<1>5. ASSUME NEW q \in DOMAIN Tree, Left(q) PROVE Left(q)' \/ q \in skipped'
  <2>1. CASE ~Passed(q, stack)
    <3>1. ~Passed(q, Front(stack))
      BY <1>2, <1>3, <2>1, PoppedLeft
    <3> QED
      BY <1>1, <3>1 DEF Left
  <2>2. CASE Within(q, d)
    <3>1. PICK n \in 0..Len(q) : SubSeq(q, 1, n) = d
      BY <2>2 DEF Within
    <3>2. q \in Below(d)
      BY <1>2, <3>1, Beneath
    <3> QED
      BY <1>1, <3>2
  <2> QED
    BY <1>1, <1>5, <2>1, <2>2 DEF Left, Reading, d
<1>6. Heads(archive) \subseteq Heads(archive') /\ bpc' # "body"
  BY <1>1
<1> QED
  BY <1>1, <1>4, <1>5, <1>6, Reaches

\* An entry of the listing is kept, or left out with all that is below it.
LEMMA ReadDirReaches ==
    ASSUME IInv, ReachInv, ReadDir, setup' = setup
    PROVE  ReachInv'
<1> DEFINE p == Head(Top.listing)
           f == [Top EXCEPT !.listing = Tail(@)]
           g == [f EXCEPT !.entries = Append(@, p)]
<1>1. /\ bpc = "readdir" /\ bpc' = "readdir" /\ Top.listing # << >>
      /\ \/ stack' = Append(Front(stack), g) /\ skipped' = skipped
         \/ stack' = Append(Front(stack), f) /\ skipped' = skipped \cup Below(p)
      /\ UNCHANGED <<body, written, probe, full, archive>>
  BY DEF ReadDir, Replace
<1>2. /\ setup \in Setups /\ stack \in Seq(Range(stack)) /\ stack # << >>
      /\ Top = Last(stack) /\ Drained(stack, FALSE) /\ IsFrame(Tree, Top)
      /\ Top = [path |-> Top.path, listing |-> Top.listing, entries |-> Top.entries]
  <2>1. Walking /\ (bpc # "readdir") = FALSE
    BY <1>1 DEF Walking, Reading
  <2> QED
    BY <2>1, Atop
<1>3. /\ f.path = Top.path /\ f.listing = Tail(Top.listing) /\ f.entries = Top.entries
      /\ g.path = Top.path /\ g.listing = Tail(Top.listing)
      /\ g.entries = Append(Top.entries, p)
  <2> DEFINE e == Top
  <2>1. e = [path |-> e.path, listing |-> e.listing, entries |-> e.entries]
    BY <1>2
  <2>2. /\ f = [e EXCEPT !.listing = Tail(e.listing)]
        /\ g = [f EXCEPT !.entries = Append(f.entries, p)]
    OBVIOUS
  <2> HIDE DEF e, f, g, p
  <2>3. f = [path |-> e.path, listing |-> Tail(e.listing), entries |-> e.entries]
    BY <2>1, <2>2
  <2>4. g = [path |-> e.path, listing |-> Tail(e.listing), entries |-> Append(e.entries, p)]
    BY <2>2, <2>3
  <2> QED
    BY <2>3, <2>4 DEF e
<1>4. /\ Range(Tail(Top.listing)) = Range(Top.listing) \ {p}
      /\ Range(Append(Top.entries, p)) = Range(Top.entries) \cup {p}
  <2>1. IsList(Top.listing) /\ Top.entries \in Seq(Range(Top.entries))
    BY <1>2 DEF IsFrame, IsList
  <2> QED
    BY <1>1, <2>1, ListShrinks, Appended
<1> HIDE DEF p, f, g
<1>5. Todo(Top) \ Todo(g) = {} /\ Todo(Top) \ Todo(f) \subseteq {p}
  BY <1>3, <1>4 DEF Todo
<1>6. PICK e : /\ stack' = Append(Front(stack), e) /\ e.path = Top.path
               /\ e = g \/ (e = f /\ skipped' = skipped \cup Below(p))
  BY <1>1, <1>3
<1>7. Drained(stack', FALSE) /\ Last(stack') = e
  BY <1>2, <1>6, NewTop
<1>8. ASSUME NEW q \in DOMAIN Tree, Left(q) PROVE Left(q)' \/ q \in skipped'
  <2>1. CASE ~Passed(q, stack)
    <3>1. CASE ~Passed(q, stack')
      BY <3>1 DEF Left
    <3>2. CASE Passed(q, stack')
      <4>1. PICK n \in 0..Len(q) : /\ SubSeq(q, 1, n) \in Todo(Last(stack))
                                   /\ SubSeq(q, 1, n) \notin Todo(e)
        BY <1>2, <1>6, <2>1, <3>2, ReplacedLeft
      <4>2. SubSeq(q, 1, n) = p /\ skipped' = skipped \cup Below(p)
        BY <1>2, <1>5, <1>6, <4>1
      <4>3. q \in Below(SubSeq(q, 1, n))
        BY <1>2, Beneath
      <4> QED
        BY <4>2, <4>3
    <3> QED
      BY <3>1, <3>2
  <2>2. CASE q = Top.path
    BY <1>1, <1>6, <1>7, <2>2 DEF Left, Reading, Top
  <2> QED
    BY <1>1, <1>8, <2>1, <2>2 DEF Left
<1>9. Heads(archive) \subseteq Heads(archive') /\ (bpc' # "readdir") = FALSE /\ skipped \subseteq skipped'
  BY <1>1
<1> QED
  BY <1>1, <1>7, <1>8, <1>9, Reaches

\* What the listing did not come to is left out.
LEMMA ReadDirEndsReaches ==
    ASSUME IInv, ReachInv, ReadDirEnds, setup' = setup
    PROVE  ReachInv'
<1> DEFINE f == [Top EXCEPT !.listing = << >>]
<1>1. /\ bpc = "readdir" /\ bpc' = "closedir" /\ stack' = Append(Front(stack), f)
      /\ skipped' = skipped \cup UNION {Below(p) : p \in Range(Top.listing)}
      /\ UNCHANGED <<body, written, probe, full, archive>>
  BY DEF ReadDirEnds, Replace
<1>2. /\ setup \in Setups /\ stack \in Seq(Range(stack)) /\ stack # << >>
      /\ Top = Last(stack) /\ Drained(stack, FALSE)
      /\ Top = [path |-> Top.path, listing |-> Top.listing, entries |-> Top.entries]
  <2>1. Walking /\ (bpc # "readdir") = FALSE
    BY <1>1 DEF Walking, Reading
  <2> QED
    BY <2>1, Atop
<1>3. f.path = Top.path /\ f.listing = << >> /\ f.entries = Top.entries
  BY <1>2
<1> HIDE DEF f
<1>4. Todo(Top) \ Todo(f) \subseteq Range(Top.listing)
  BY <1>3 DEF Todo
<1>5. Drained(stack', TRUE) /\ Last(stack') = f /\ (bpc' # "readdir") = TRUE
  BY <1>1, <1>2, <1>3, NewTop
<1>6. ASSUME NEW q \in DOMAIN Tree, Left(q) PROVE Left(q)' \/ q \in skipped'
  <2>1. CASE ~Passed(q, stack)
    <3>1. CASE ~Passed(q, stack')
      BY <3>1 DEF Left
    <3>2. CASE Passed(q, stack')
      <4>1. PICK n \in 0..Len(q) : /\ SubSeq(q, 1, n) \in Todo(Last(stack))
                                   /\ SubSeq(q, 1, n) \notin Todo(f)
        BY <1>1, <1>2, <2>1, <3>2, ReplacedLeft
      <4>2. SubSeq(q, 1, n) \in Range(Top.listing)
        BY <1>2, <1>4, <4>1
      <4>3. q \in Below(SubSeq(q, 1, n))
        BY <1>2, Beneath
      <4> QED
        BY <1>1, <4>2, <4>3
    <3> QED
      BY <3>1, <3>2
  <2>2. CASE q = Top.path
    BY <1>1, <1>3, <1>5, <2>2 DEF Left, Reading, Top
  <2> QED
    BY <1>1, <1>6, <2>1, <2>2 DEF Left
<1>7. Heads(archive) \subseteq Heads(archive') /\ skipped \subseteq skipped' /\ bpc' # "body"
  BY <1>1
<1> QED
  BY <1>1, <1>5, <1>6, <1>7, Reaches

\* The directory is archived, or left out.
LEMMA CloseDirReaches ==
    ASSUME IInv, ReachInv, CloseDir, setup' = setup
    PROVE  ReachInv'
<1> DEFINE d == Top.path
<1>1. /\ bpc = "closedir" /\ bpc' = "entry"
      /\ UNCHANGED <<stack, body, written, probe, full>>
      /\ \/ d # Root /\ Write(Header(d, "dir", 0)) /\ skipped' = skipped
         \/ archive' = archive /\ skipped' = skipped \cup ({d} \ {Root})
  BY DEF CloseDir
<1>2. /\ setup \in Setups /\ Drained(stack, TRUE) /\ IsFrame(Tree, Top)
      /\ archive \in Seq(Range(archive)) /\ (bpc' # "readdir") = TRUE
  <2>1. Walking /\ (bpc # "readdir") = TRUE
    BY <1>1 DEF Walking, Reading
  <2> QED
    BY <1>1, <2>1, Atop
<1>3. d # Root => d \in DOMAIN Tree /\ Tree[d].kind = "dir"
  BY <1>2 DEF IsFrame
<1> HIDE DEF d
<1>4. Heads(archive) \subseteq Heads(archive')
  BY <1>1, <1>2, HeaderNotes
<1>5. ASSUME NEW q \in DOMAIN Tree, Left(q), ~full
      PROVE  Left(q)' \/ q \in skipped' \/ Recorded(Tree, archive', q)
  <2>1. CASE ~Passed(q, stack)
    BY <1>1, <2>1 DEF Left
  <2>2. CASE q = d
    <3>1. q # Root
      BY <1>2, <2>2, TreeNodes
    <3>2. CASE Write(Header(d, "dir", 0))
      <4>1. "dir" = Tree[d].kind
        BY <1>3, <2>2, <3>1
      <4>2. Recorded(Tree, archive', d)
        BY <1>2, <1>5, <3>2, <4>1, HeaderNotes
      <4> QED
        BY <2>2, <4>2
    <3> QED
      BY <1>1, <2>2, <3>1, <3>2
  <2> QED
    BY <1>1, <1>5, <2>1, <2>2 DEF Left, d
<1>6. skipped \subseteq skipped'
  BY <1>1
<1> QED
  BY <1>1, <1>2, <1>4, <1>5, <1>6, Reaches


\* An entry is taken: only what is below it is not left as it was.
LEMMA TakenLeft ==
    ASSUME IInv, ReachInv, bpc = "entry", Top.entries # << >>, setup' = setup,
           NEW f, f = [Top EXCEPT !.entries = Tail(@)],
           NEW p, p = Head(Top.entries), NEW new, new = Append(Front(stack), f)
    PROVE  /\ setup \in Setups /\ archive \in Seq(Range(archive)) /\ p \in DOMAIN Tree
           /\ Drained(new, TRUE) /\ new \in Seq(Range(new)) /\ new # << >>
           /\ \A q \in DOMAIN Tree : Left(q) =>
                 \/ ~Passed(q, new)
                 \/ Within(q, p) /\ (Tree[p].kind # "dir" => q = p)
<1>1. /\ setup \in Setups /\ stack \in Seq(Range(stack)) /\ stack # << >>
      /\ Top = Last(stack) /\ Drained(stack, TRUE) /\ IsFrame(Tree, Top)
      /\ Top = [path |-> Top.path, listing |-> Top.listing, entries |-> Top.entries]
      /\ archive \in Seq(Range(archive))
  <2>1. Walking /\ (bpc # "readdir") = TRUE
    BY DEF Walking
  <2> QED
    BY <2>1, Atop
<1>2. f.path = Top.path /\ f.listing = Top.listing /\ f.entries = Tail(Top.entries)
  BY <1>1
<1>3. p \in DOMAIN Tree
  BY Taken DEF Child
<1>4. Top.listing = << >>
  <2>1. Len(stack) \in Nat \ {0}
    BY <1>1, OverRange, EmptySeq
  <2> DEFINE l == Len(stack)
  <2> HIDE DEF l
  <2>2. l \in Nat \ {0} => l \in 1..l
    OBVIOUS
  <2>3. Len(stack) \in 1..Len(stack)
    BY <2>1, <2>2 DEF l
  <2> QED
    BY <1>1, <2>3 DEF Drained, Last
<1>5. Range(Tail(Top.entries)) = Range(Top.entries) \ {p}
  <2>1. IsList(Top.entries)
    BY <1>1 DEF IsFrame
  <2> QED
    BY <2>1, ListShrinks
<1>6. Todo(Top) \ Todo(f) \subseteq {p}
  BY <1>2, <1>5 DEF Todo
<1>7. Drained(new, TRUE) /\ new \in Seq(Range(new)) /\ new # << >>
  <2>1. f.listing = << >> /\ TRUE \in BOOLEAN
    BY <1>2, <1>4
  <2> QED
    BY <1>1, <2>1, NewTop
<1>8. ASSUME NEW q \in DOMAIN Tree, Left(q), Passed(q, new)
      PROVE  Within(q, p) /\ (Tree[p].kind # "dir" => q = p)
  <2>1. ~Passed(q, stack)
    BY <1>8 DEF Left, Reading
  <2>2. PICK n \in 0..Len(q) : /\ SubSeq(q, 1, n) \in Todo(Last(stack))
                               /\ SubSeq(q, 1, n) \notin Todo(f)
    BY <1>1, <1>8, <2>1, ReplacedLeft
  <2>3. SubSeq(q, 1, n) = p
    BY <1>1, <1>6, <2>2
  <2>4. Within(q, p)
    BY <2>3 DEF Within
  <2>5. Tree[p].kind # "dir" => p = q
    BY <1>1, <1>3, <2>3, Leaf
  <2> QED
    BY <2>4, <2>5
<1> QED
  BY <1>1, <1>3, <1>7, <1>8

\* A directory is entered: it is opened next.
LEMMA EnterDirReaches ==
    ASSUME IInv, ReachInv, EnterDir, setup' = setup
    PROVE  ReachInv'
<1> DEFINE p == Head(Top.entries)
           f == [Top EXCEPT !.entries = Tail(@)]
           new == Append(Front(stack), f)
<1>1. /\ bpc = "entry" /\ bpc' = "opendir" /\ Top.entries # << >>
      /\ stack' = Front(stack) \o << f, Frame(p) >>
      /\ UNCHANGED <<body, written, probe, full, skipped, archive>>
  BY DEF EnterDir, NextEntry
<1>2. stack \in Seq(Range(stack)) /\ stack # << >>
  <2>1. Walking
    BY <1>1 DEF Walking
  <2> QED
    BY <2>1, Atop
<1>3. /\ Drained(new, TRUE) /\ new \in Seq(Range(new)) /\ new # << >>
      /\ \A q \in DOMAIN Tree : Left(q) => ~Passed(q, new) \/ Within(q, p)
  <2> HIDE DEF p, f, new
  <2>1. f = [Top EXCEPT !.entries = Tail(@)] /\ p = Head(Top.entries) /\ new = Append(Front(stack), f)
    BY DEF f, p, new
  <2> QED
    BY <1>1, <2>1, TakenLeft
<1>4. stack' = Append(new, Frame(p))
  <2>1. Front(stack) \in Seq(Range(Front(stack)))
    BY <1>2, Fronted
  <2> DEFINE s == Front(stack)
             S == Range(s) \cup {f, Frame(p)}
  <2>2. s \in Seq(S) /\ f \in S /\ Frame(p) \in S
    BY <2>1, SeqMonotonic
  <2> HIDE DEF s, S, f
  <2>3. s \o << f, Frame(p) >> = Append(Append(s, f), Frame(p))
    BY <2>2
  <2> QED
    BY <1>1, <2>3 DEF s, f
<1>5. Frame(p).path = p /\ Frame(p).listing = << >>
  BY DEF Frame
<1> HIDE DEF p, f, new
<1>6. Last(stack') = Frame(p) /\ stack' \in Seq(Range(stack'))
  BY <1>3, <1>4, Appended
<1>7. Drained(stack', TRUE) /\ (bpc' # "readdir") = TRUE
  <2>1. /\ Len(new) \in Nat /\ Len(stack') = Len(new) + 1 /\ stack'[Len(new) + 1] = Frame(p)
        /\ \A i \in 1..Len(new) : stack'[i] = new[i]
    BY <1>3, <1>4, Appended
  <2>2. \A i \in 1..Len(new) : new[i].listing = << >>
    BY <1>3 DEF Drained
  <2>3. \A i \in 1..(Len(new) + 1) : i \in 1..Len(new) \/ i = Len(new) + 1
    BY <2>1
  <2>4. \A i \in 1..Len(stack') : stack'[i].listing = << >>
    BY <1>5, <2>1, <2>2, <2>3
  <2> QED
    BY <1>1, <2>4 DEF Drained
<1>8. ASSUME NEW q \in DOMAIN Tree, Left(q) PROVE Left(q)'
  <2>1. CASE ~Passed(q, new)
    <3>1. ~Passed(q, stack')
      BY <1>3, <1>4, <2>1, PushedLeft
    <3> QED
      BY <3>1 DEF Left
  <2>2. CASE Within(q, p)
    BY <1>1, <1>5, <1>6, <2>2 DEF Left, Top
  <2> QED
    BY <1>3, <1>8, <2>1, <2>2
<1>9. Heads(archive) \subseteq Heads(archive') /\ bpc' # "body"
  BY <1>1
<1> QED
  BY <1>1, <1>7, <1>8, <1>9, Reaches

\* A link is archived.
LEMMA CopyLinkReaches ==
    ASSUME IInv, ReachInv, CopyLink, setup' = setup
    PROVE  ReachInv'
<1> DEFINE p == Head(Top.entries)
           f == [Top EXCEPT !.entries = Tail(@)]
<1>1. /\ bpc = "entry" /\ bpc' = "entry" /\ Top.entries # << >>
      /\ Tree[p].kind = "link" /\ Write(Header(p, "link", 0)) /\ Track(p)
      /\ stack' = Append(Front(stack), f)
      /\ UNCHANGED <<body, probe, full, skipped>>
  BY DEF CopyLink, NextEntry, Replace
<1>2. /\ archive \in Seq(Range(archive)) /\ Drained(stack', TRUE) /\ (bpc' # "readdir") = TRUE
      /\ \A q \in DOMAIN Tree : Left(q) =>
            ~Passed(q, stack') \/ (Tree[p].kind # "dir" => q = p)
  <2> HIDE DEF p, f
  <2>1. f = [Top EXCEPT !.entries = Tail(@)] /\ p = Head(Top.entries)
    BY DEF p, f
  <2>2. PICK new : new = Append(Front(stack), f)
    OBVIOUS
  <2>3. /\ archive \in Seq(Range(archive)) /\ Drained(new, TRUE)
        /\ \A q \in DOMAIN Tree : Left(q) =>
              ~Passed(q, new) \/ (Within(q, p) /\ (Tree[p].kind # "dir" => q = p))
    <3>1. bpc = "entry" /\ Top.entries # << >>
      BY <1>1
    <3> QED
      BY <2>1, <2>2, <3>1, TakenLeft
  <2> QED
    BY <1>1, <2>2, <2>3
<1> HIDE DEF p, f
<1>3. Heads(archive) \subseteq Heads(archive') /\ (~full => Recorded(Tree, archive', p))
  BY <1>1, <1>2, HeaderNotes
<1>4. ASSUME NEW q \in DOMAIN Tree, Left(q), ~full
      PROVE  Left(q)' \/ Recorded(Tree, archive', q)
  <2>1. CASE ~Passed(q, stack')
    BY <2>1 DEF Left
  <2>2. CASE q = p
    BY <1>3, <1>4, <2>2
  <2> QED
    BY <1>1, <1>2, <1>4, <2>1, <2>2
<1>5. written' \subseteq written \cup {p}
  BY <1>1 DEF Track
<1> QED
  BY <1>1, <1>2, <1>3, <1>4, <1>5, Reaches

\* The header of a file is archived.
LEMMA OpenFileReaches ==
    ASSUME IInv, ReachInv, OpenFile, setup' = setup
    PROVE  ReachInv'
<1> DEFINE p == Head(Top.entries)
           f == [Top EXCEPT !.entries = Tail(@)]
<1>1. /\ bpc = "entry" /\ bpc' = "body" /\ Top.entries # << >>
      /\ Tree[p].kind = "file" /\ Write(Header(p, "file", Tree[p].size))
      /\ body'.path = p
      /\ stack' = Append(Front(stack), f)
      /\ UNCHANGED <<written, probe, full, skipped>>
  BY DEF OpenFile, NextEntry, Replace, StartCopy
<1>2. /\ archive \in Seq(Range(archive)) /\ Drained(stack', TRUE) /\ (bpc' # "readdir") = TRUE
      /\ \A q \in DOMAIN Tree : Left(q) =>
            ~Passed(q, stack') \/ (Tree[p].kind # "dir" => q = p)
  <2> HIDE DEF p, f
  <2>1. f = [Top EXCEPT !.entries = Tail(@)] /\ p = Head(Top.entries)
    BY DEF p, f
  <2>2. PICK new : new = Append(Front(stack), f)
    OBVIOUS
  <2>3. /\ archive \in Seq(Range(archive)) /\ Drained(new, TRUE)
        /\ \A q \in DOMAIN Tree : Left(q) =>
              ~Passed(q, new) \/ (Within(q, p) /\ (Tree[p].kind # "dir" => q = p))
    <3>1. bpc = "entry" /\ Top.entries # << >>
      BY <1>1
    <3> QED
      BY <2>1, <2>2, <3>1, TakenLeft
  <2> QED
    BY <1>1, <2>2, <2>3
<1> HIDE DEF p, f
<1>3. Heads(archive) \subseteq Heads(archive') /\ (~full => Recorded(Tree, archive', p))
  BY <1>1, <1>2, HeaderNotes
<1>4. ASSUME NEW q \in DOMAIN Tree, Left(q), ~full
      PROVE  Left(q)' \/ Recorded(Tree, archive', q)
  <2>1. CASE ~Passed(q, stack')
    BY <2>1 DEF Left
  <2>2. CASE q = p
    BY <1>3, <1>4, <2>2
  <2> QED
    BY <1>1, <1>2, <1>4, <2>1, <2>2
<1>5. CASE full
  <2>1. setup.nv = 0 /\ Tree' = Tree /\ \A x : Fault(x)' <=> Fault(x)
    BY <1>1, Same DEF ReachInv, IInv
  <2>2. Reached' /\ Captured'
    BY <1>1, <1>5 DEF Reached, Captured
  <2> QED
    BY <1>1, <1>2, <2>1, <2>2 DEF ReachInv
<1>6. CASE ~full
  BY <1>1, <1>2, <1>3, <1>4, <1>6, Reaches
<1> QED
  BY <1>5, <1>6

\* An entry is left out.
LEMMA EntryFailsReaches ==
    ASSUME IInv, ReachInv, EntryFails, setup' = setup
    PROVE  ReachInv'
<1> DEFINE p == Head(Top.entries)
           f == [Top EXCEPT !.entries = Tail(@)]
<1>1. /\ bpc = "entry" /\ bpc' = "entry" /\ Top.entries # << >>
      /\ Tree[p].kind # "dir" /\ skipped' = skipped \cup {p}
      /\ stack' = Append(Front(stack), f)
      /\ UNCHANGED <<body, written, probe, full, archive>>
  BY DEF EntryFails, NextEntry, Replace
<1>2. /\ Drained(stack', TRUE) /\ (bpc' # "readdir") = TRUE
      /\ \A q \in DOMAIN Tree : Left(q) =>
            ~Passed(q, stack') \/ (Tree[p].kind # "dir" => q = p)
  <2> HIDE DEF p, f
  <2>1. f = [Top EXCEPT !.entries = Tail(@)] /\ p = Head(Top.entries)
    BY DEF p, f
  <2>2. PICK new : new = Append(Front(stack), f)
    OBVIOUS
  <2>3. /\ archive \in Seq(Range(archive)) /\ Drained(new, TRUE)
        /\ \A q \in DOMAIN Tree : Left(q) =>
              ~Passed(q, new) \/ (Within(q, p) /\ (Tree[p].kind # "dir" => q = p))
    <3>1. bpc = "entry" /\ Top.entries # << >>
      BY <1>1
    <3> QED
      BY <2>1, <2>2, <3>1, TakenLeft
  <2> QED
    BY <1>1, <2>2, <2>3
<1> HIDE DEF p, f
<1>3. ASSUME NEW q \in DOMAIN Tree, Left(q)
      PROVE  Left(q)' \/ q \in skipped'
  BY <1>1, <1>2, <1>3 DEF Left
<1>4. Heads(archive) \subseteq Heads(archive') /\ skipped \subseteq skipped' /\ bpc' # "body"
  BY <1>1
<1> QED
  BY <1>1, <1>2, <1>3, <1>4, Reaches

\* The directory is done with: nothing of it is left.
LEMMA LeaveDirReaches ==
    ASSUME IInv, ReachInv, LeaveDir, setup' = setup
    PROVE  ReachInv'
<1>1. /\ bpc = "entry" /\ bpc' \in {"entry", "probe"} /\ stack' = Front(stack)
      /\ Top.entries = << >>
      /\ UNCHANGED <<body, written, probe, full, skipped, archive>>
  BY DEF LeaveDir, Return
<1>2. /\ setup \in Setups /\ stack \in Seq(Range(stack)) /\ stack # << >>
      /\ Top = Last(stack) /\ Drained(stack, TRUE)
  <2>1. Walking /\ (bpc # "readdir") = TRUE
    BY <1>1 DEF Walking
  <2> QED
    BY <2>1, Atop
<1>3. Top.listing = << >>
  <2>1. Len(stack) \in Nat \ {0}
    BY <1>2, OverRange, EmptySeq
  <2> DEFINE l == Len(stack)
  <2> HIDE DEF l
  <2>2. l \in Nat \ {0} => l \in 1..l
    OBVIOUS
  <2>3. Len(stack) \in 1..Len(stack)
    BY <2>1, <2>2 DEF l
  <2> QED
    BY <1>2, <2>3 DEF Drained, Last
<1>4. Todo(Last(stack)) = {}
  <2>1. Range(<< >>) = {}
    BY EmptySeq DEF Range
  <2> QED
    BY <1>1, <1>2, <1>3, <2>1 DEF Todo
<1>5. Drained(stack', TRUE) /\ (bpc' # "readdir") = TRUE
  BY <1>1, <1>2, DrainedOn
<1>6. ASSUME NEW q \in DOMAIN Tree, Left(q) PROVE Left(q)'
  <2>1. ~Passed(q, stack)
    BY <1>1, <1>6 DEF Left, Reading
  <2>2. ~Passed(q, Front(stack))
    BY <1>2, <1>4, <2>1, PoppedLeft
  <2> QED
    BY <1>1, <2>2 DEF Left
<1>7. Heads(archive) \subseteq Heads(archive') /\ bpc' # "body" /\ bpc' # "done"
  BY <1>1
<1> QED
  BY <1>1, <1>5, <1>6, <1>7, Reaches


\* What a read writes: contents of the file, and no zeros.
LEMMA CopyWrites ==
    ASSUME IInv, CopyUnits
    PROVE  \E u : /\ Write(u) /\ u \in Seq(Range(u)) /\ Len(u) \in Nat \ {0}
                  /\ \A k \in 1..Len(u) : u[k] # Zero
                  /\ Heads(u) = {} /\ Distinct(u)
                  /\ body'.path = body.path
<1>1. bpc = "body" /\ ~body.ended
  BY DEF CopyUnits
<1>2. /\ body.size \in Nat /\ body.got \in 0..body.size /\ body.got < body.size
      /\ body = [path |-> body.path, size |-> body.size, got |-> body.got, ended |-> body.ended]
  BY <1>1 DEF IInv, WalkInv
<1>3. PICK n \in 1..Min({EFS_MAX_READ_REQ, body.size - body.got}) :
         /\ Write(SubSeq(Content(body.path, body.size), body.got + 1, body.got + n))
         /\ body' = [body EXCEPT !.got = @ + n, !.ended = full \/ body.got + n = body.size]
  BY DEF CopyUnits
<1>4. n \in Nat /\ n >= 1 /\ body.got + n <= body.size /\ body.got \in Nat
  <2>1. EFS_MAX_READ_REQ \in Nat /\ body.size - body.got \in Nat
    BY <1>2, EfsConstants
  <2> DEFINE m == Min({EFS_MAX_READ_REQ, body.size - body.got})
  <2>2. m \in Nat /\ m <= body.size - body.got
    BY <2>1, Lesser
  <2>3. n \in 1..m
    OBVIOUS
  <2> HIDE DEF m
  <2>4. n \in Nat /\ n >= 1 /\ n <= body.size - body.got
    BY <2>1, <2>2, <2>3
  <2> QED
    BY <1>2, <2>4
<1> DEFINE c == Content(body.path, body.size)
           a == body.got + 1
           b == body.got + n
           u == SubSeq(c, a, b)
           S == {[type |-> "data", path |-> body.path, at |-> k] : k \in 1..body.size}
<1>5. \A i \in 1..body.size : c[i] \in S
  BY <1>2, Contents
<1>6. a \in Int /\ b \in Int /\ a <= b /\ b - a + 1 = n /\ \A i \in a..b : i \in 1..body.size
  BY <1>2, <1>4
<1> HIDE DEF c, a, b, S
<1>7. u \in Seq(S) /\ Len(u) = n
  <2>1. \A i \in a..b : c[i] \in S
    BY <1>5, <1>6
  <2>2. u \in Seq(S) /\ Len(u) = IF a <= b THEN b - a + 1 ELSE 0
    BY <1>6, <2>1, SubSeqProperties
  <2> QED
    BY <1>6, <2>2
<1> HIDE DEF u
<1>8. u \in Seq(Range(u)) /\ Range(u) \subseteq S /\ DOMAIN u = 1..Len(u)
  BY <1>7, OverRange
<1>9. \A k \in 1..Len(u) : u[k] \in S
  BY <1>8 DEF Range
<1>10. \A e \in S : e # Zero
  <2>1. \A k : [type |-> "data", path |-> body.path, at |-> k] # [type |-> "zero"]
    OBVIOUS
  <2> QED
    BY <2>1 DEF S, Zero
<1>11. body'.path = body.path
  BY <1>2, <1>3
<1>12. Write(u)
  BY <1>3 DEF u, c, a, b
<1>13. Len(u) \in Nat \ {0}
  BY <1>4, <1>7
<1>14. Heads(u) = {} /\ Distinct(u)
  <2>1. \A e \in S : e.type # "header"
    BY DEF S
  <2> QED
    BY <1>8, <1>9, <2>1, Headless
<1> QED
  BY <1>8, <1>9, <1>10, <1>11, <1>12, <1>13, <1>14

\* A part of a file is copied, or the read fails.
LEMMA CopyReaches ==
    ASSUME IInv, ReachInv, CopyUnits \/ CopyFails, setup' = setup
    PROVE  ReachInv'
<1>1. /\ bpc = "body" /\ bpc' = "body"
      /\ UNCHANGED <<stack, written, probe, full, skipped>>
  BY DEF CopyUnits, CopyFails
<1>2. Heads(archive) \subseteq Heads(archive') /\ body'.path = body.path
  <2>1. CASE CopyUnits
    <3>1. PICK u : Write(u) /\ u \in Seq(Range(u)) /\ body'.path = body.path
      BY <2>1, CopyWrites
    <3> QED
      BY <3>1, HeadsStay DEF IInv
  <2>2. CASE CopyFails
    <3>1. body' = [body EXCEPT !.ended = TRUE] /\ archive' = archive
      BY <2>2 DEF CopyFails
    <3>2. body = [path |-> body.path, size |-> body.size, got |-> body.got, ended |-> body.ended]
      BY <1>1 DEF IInv, WalkInv
    <3> QED
      BY <3>1, <3>2
  <2> QED
    BY <2>1, <2>2
<1>3. \A q \in DOMAIN Tree : Left(q) => Left(q)'
  BY <1>1 DEF Left, Reading
<1>4. Drained(stack', TRUE) /\ (bpc' # "readdir") = TRUE
  BY <1>1 DEF ReachInv
<1> QED
  BY <1>1, <1>2, <1>3, <1>4, Reaches

\* The file is done with, and remembered.
LEMMA FinishCopyReaches ==
    ASSUME IInv, ReachInv, FinishCopy, setup' = setup
    PROVE  ReachInv'
<1>1. /\ bpc = "body" /\ bpc' \in {"probe", "entry"}
      /\ Write(Padding(body.size)) /\ Track(body.path)
      /\ UNCHANGED <<stack, probe, full, skipped>>
  BY DEF FinishCopy
<1>2. Heads(archive) \subseteq Heads(archive')
  <2>1. body.size \in Nat
    BY <1>1 DEF IInv, WalkInv
  <2>2. Padding(body.size) \in Seq(Range(Padding(body.size)))
    BY <2>1, PaddingHeadless
  <2> QED
    BY <1>1, <2>2, HeadsStay DEF IInv
<1>3. \A q \in DOMAIN Tree : Left(q) => Left(q)'
  BY <1>1 DEF Left, Reading
<1>4. Drained(stack', TRUE) /\ (bpc' # "readdir") = TRUE
  BY <1>1 DEF ReachInv
<1>5. written' \subseteq written \cup {body.path}
  BY <1>1 DEF Track
<1> QED
  BY <1>1, <1>2, <1>3, <1>4, <1>5, Reaches

\* What is probed, and what is left to probe.
LEMMA ProbesShrink ==
    ASSUME NEW s, s \in Seq(Range(s)), s # << >>
    PROVE  Tail(s) \in Seq(Range(Tail(s))) /\ Range(s) = Range(Tail(s)) \cup {Head(s)}
<1> DEFINE S == Range(s)
<1>1. Len(s) \in Nat \ {0} /\ DOMAIN s = 1..Len(s) /\ s \in Seq(S)
  BY OverRange, EmptySeq
<1>2. /\ Head(s) = s[1] /\ Tail(s) \in Seq(S) /\ Len(Tail(s)) = Len(s) - 1
      /\ \A i \in 1..Len(Tail(s)) : Tail(s)[i] = s[i + 1]
  BY <1>1, HeadTailProperties
<1>3. Tail(s) \in Seq(Range(Tail(s))) /\ DOMAIN Tail(s) = 1..(Len(s) - 1) /\ Range(Tail(s)) \subseteq S
  BY <1>2, OverRange
<1>4. Head(s) \in S
  BY <1>1, <1>2 DEF Range
<1>5. ASSUME NEW i \in 1..Len(s) PROVE s[i] = Head(s) \/ s[i] \in Range(Tail(s))
  <2>1. CASE i = 1
    BY <1>2, <2>1
  <2>2. CASE i # 1
    <3>1. i - 1 \in 1..(Len(s) - 1) /\ i = (i - 1) + 1
      BY <1>1, <2>2
    <3>2. Tail(s)[i - 1] = s[i]
      BY <1>2, <3>1
    <3> QED
      BY <1>3, <3>1, <3>2 DEF Range
  <2> QED
    BY <2>1, <2>2
<1>6. S \subseteq Range(Tail(s)) \cup {Head(s)}
  BY <1>1, <1>5 DEF Range
<1> QED
  BY <1>3, <1>4, <1>6

\* A path is probed: what is hidden is left out, known or archived.
LEMMA ProbeReaches ==
    ASSUME IInv, ReachInv, ProbeSkips \/ ProbeFile, setup' = setup
    PROVE  ReachInv'
<1> DEFINE p == Head(probe)
<1>1. /\ bpc = "probe" /\ probe # << >> /\ probe' = Tail(probe)
      /\ UNCHANGED <<stack, written, full>>
      /\ \/ /\ bpc' = "probe" /\ UNCHANGED <<archive, body>>
            /\ (~Wanted(p) /\ skipped' = skipped) \/ skipped' = skipped \cup {p}
         \/ /\ bpc' = "body" /\ skipped' = skipped /\ body'.path = p
            /\ Write(Header(p, "file", Tree[p].size))
  BY DEF ProbeSkips, ProbeFile, StartCopy
<1>2. /\ Tree' = Tree /\ setup \in Setups /\ \A x : Fault(x)' <=> Fault(x)
      /\ archive \in Seq(Range(archive))
  BY Same DEF IInv
<1>3. stack = << >>
  BY <1>1 DEF IInv, WalkInv
<1>4. /\ probe \in Seq(Range(probe)) /\ Range(probe) \subseteq Range(setup.probes)
      /\ setup.nv = 0 /\ Reached /\ Captured
  BY <1>1 DEF ReachInv
<1>5. probe' \in Seq(Range(probe')) /\ Range(probe) = Range(probe') \cup {p}
  BY <1>1, <1>4, ProbesShrink
<1> HIDE DEF p
<1>6. Heads(archive) \subseteq Heads(archive')
  BY <1>1, <1>2, HeaderNotes
<1>7. \A q : Recorded(Tree, archive, q) => Recorded(Tree, archive', q)
  BY <1>6 DEF Recorded
<1>8. \A q : ~Left(q)
  BY <1>1, <1>3, EmptySeq DEF Left, Reading, Passed
<1>9. ASSUME ~full, Tree[p].kind = "file", bpc' = "body" PROVE Recorded(Tree, archive', p)
  BY <1>1, <1>2, <1>9, HeaderNotes
<1>10. Captured'
  BY <1>1, <1>2, <1>4, <1>7, <1>9 DEF Captured
<1>11. Reached'
  <2> SUFFICES ASSUME ~full, ~Fault("cut"), NEW q \in DOMAIN Tree
               PROVE  q \in skipped' \/ Unseen(q) \/ Pending(q)' \/ Recorded(Tree, archive', q)
    BY <1>1, <1>2 DEF Reached, Unseen
  <2>1. q \in skipped \/ Unseen(q) \/ Pending(q) \/ Recorded(Tree, archive, q)
    BY <1>1, <1>4 DEF Reached
  <2>2. CASE Pending(q)
    <3>1. Tree[q].hidden /\ q \in Range(probe)
      BY <1>8, <2>2 DEF Pending
    <3>2. CASE q \in Range(probe')
      BY <1>1, <1>2, <3>1, <3>2 DEF Pending
    <3>3. CASE q = p
      <4>1. Tree[p].kind = "file"
        BY <1>2, <3>1, <3>3, TreeNodes
      <4>2. CASE ~Wanted(p)
        <5>1. p \in written
          BY <3>3, <4>1, <4>2 DEF Wanted
        <5> QED
          BY <1>4, <1>7, <3>3, <4>1, <5>1 DEF Captured
      <4> QED
        BY <1>1, <1>9, <3>3, <4>1, <4>2
    <3> QED
      BY <1>5, <3>1, <3>2, <3>3
  <2> QED
    BY <1>1, <1>7, <2>1, <2>2
<1>12. Drained(stack', bpc' # "readdir")
  BY <1>1, <1>3, EmptySeq DEF Drained
<1> QED
  BY <1>1, <1>2, <1>4, <1>5, <1>10, <1>11, <1>12 DEF ReachInv

\* The archive ends: nothing is pending any more.
LEMMA EndArchiveReaches ==
    ASSUME IInv, ReachInv, EndArchive, setup' = setup
    PROVE  ReachInv'
<1>1. /\ bpc = "probe" /\ probe = << >> /\ bpc' = IF full THEN "failed" ELSE "done"
      /\ Write(Zeros(2 * BLOCK))
      /\ UNCHANGED <<stack, body, written, probe, full, skipped>>
  BY DEF EndArchive
<1>2. /\ Tree' = Tree /\ \A x : Fault(x)' <=> Fault(x)
      /\ archive \in Seq(Range(archive)) /\ stack = << >>
  BY <1>1, Same DEF IInv, WalkInv
<1>3. Heads(archive) \subseteq Heads(archive')
  <2> DEFINE u == Zeros(2 * BLOCK)
  <2>1. u \in Seq(Range(u))
    BY ZerosHeadless DEF BLOCK
  <2> HIDE DEF u
  <2>2. Write(u)
    BY <1>1 DEF u
  <2> QED
    BY <1>2, <2>1, <2>2, HeadsStay
<1>4. \A q : Recorded(Tree, archive, q) => Recorded(Tree, archive', q)
  BY <1>3 DEF Recorded
<1>5. \A q : ~Left(q)
  BY <1>1, <1>2, EmptySeq DEF Left, Reading, Passed
<1>6. \A q : ~Pending(q)
  <2>1. Range(probe) = {}
    BY <1>1, EmptySeq DEF Range
  <2> QED
    BY <1>5, <2>1 DEF Pending
<1>7. setup.nv = 0 /\ Reached /\ Captured
  BY <1>1 DEF ReachInv
<1>8. Reached' /\ Captured'
  BY <1>1, <1>2, <1>4, <1>6, <1>7 DEF Reached, Captured, Unseen
<1> QED
  BY <1>1, <1>7, <1>8 DEF ReachInv

\* A full disk ends what is said; a cut, too.
LEMMA OutsideReaches ==
    ASSUME IInv, ReachInv, Disk \/ Cut
    PROVE  ReachInv'
<1>1. setup \in Setups /\ setup' = setup
  BY DEF IInv, Disk, Cut
<1>2. Tree' = Tree /\ \A x : Fault(x)' <=> Fault(x)
  BY <1>1, Same
<1>3. UNCHANGED <<bpc, stack, body, written, probe, skipped>>
  BY DEF Disk, DiskFills, Cut, backupVars
<1>4. CASE Disk
  <2>1. full' /\ archive' = archive
    BY <1>4 DEF Disk, DiskFills
  <2> QED
    BY <1>1, <1>2, <1>3, <2>1 DEF ReachInv, Reached, Captured
<1>5. CASE Cut
  <2>1. Fault("cut")
    BY <1>5 DEF Cut
  <2> QED
    BY <1>1, <1>2, <1>3, <2>1 DEF ReachInv, Reached, Captured
<1> QED
  BY <1>4, <1>5

\* Every step of the backup.
LEMMA NextReaches ==
    ASSUME IInv, ReachInv, [Next]_vars
    PROVE  ReachInv'
<1>1. CASE Backup
  <2>1. BackupNext /\ setup' = setup
    BY <1>1 DEF Backup
  <2> QED
    BY <2>1, OpenDirReaches, OpenDirFailsReaches, ReadDirReaches, ReadDirEndsReaches,
       CloseDirReaches, EnterDirReaches, CopyLinkReaches, OpenFileReaches, EntryFailsReaches,
       LeaveDirReaches, CopyReaches, FinishCopyReaches, ProbeReaches, EndArchiveReaches
    DEF BackupNext
<1>2. CASE Disk \/ Cut
  BY <1>2, OutsideReaches
<1>3. CASE UNCHANGED <<setup, archive, backupVars>>
  BY <1>3 DEF ReachInv, Reached, Captured, Pending, Left, Reading, Top, Tree, Fault, Unseen, backupVars
<1>4. CASE Restore \/ UNCHANGED vars
  BY <1>3, <1>4 DEF Restore, vars
<1> QED
  BY <1>1, <1>2, <1>4 DEF Next


-----------------------------------------------------------------------------
(* Zeros, and what kinds of headers there are.                             *)

\* A sequence that begins with something, and has no two zeros together.
Close(s) == s \in Seq(Range(s)) /\ Tight(s) /\ (s # << >> => s[1] # Zero)

\* It may follow any other.
LEMMA TightJoined ==
    ASSUME NEW s, NEW t, s \in Seq(Range(s)), Tight(s), Close(t)
    PROVE  Tight(s \o t) /\ (Close(s) => Close(s \o t))
<1> DEFINE u == s \o t
           m == Len(s)
           n == Len(t)
<1>1. /\ m \in Nat /\ n \in Nat /\ Len(u) = m + n /\ u \in Seq(Range(u))
      /\ \A i \in 1..m : u[i] = s[i]
      /\ \A i \in 1..n : u[m + i] = t[i]
  BY Joined DEF Close
<1>2. /\ \A i \in 1..(m - 1) : ~(s[i] = Zero /\ s[i + 1] = Zero)
      /\ \A i \in 1..(n - 1) : ~(t[i] = Zero /\ t[i + 1] = Zero)
  BY DEF Close, Tight
<1>3. n # 0 => t[1] # Zero
  BY EmptySeq DEF Close
<1>4. /\ (m = 0 <=> s = << >>) /\ (n = 0 <=> t = << >>) /\ (m + n = 0 <=> u = << >>)
  BY <1>1, EmptySeq DEF Close
<1> HIDE DEF u, m, n
<1>5. ASSUME NEW i \in 1..(m + n - 1), u[i] = Zero, u[i + 1] = Zero PROVE FALSE
  <2>1. CASE i \in 1..(m - 1)
    <3>1. i \in 1..m /\ i + 1 \in 1..m
      BY <1>1, <2>1
    <3> QED
      BY <1>1, <1>2, <1>5, <2>1, <3>1
  <2>2. CASE i = m
    <3>1. 1 \in 1..n /\ n # 0
      BY <1>1, <2>2
    <3> QED
      BY <1>1, <1>3, <1>5, <2>2, <3>1
  <2>3. CASE i > m
    <3>1. PICK k \in 1..(n - 1) : i = m + k
      <4>1. i - m \in 1..(n - 1) /\ i = m + (i - m)
        BY <1>1, <2>3
      <4> QED
        BY <4>1
    <3>2. k \in 1..n /\ k + 1 \in 1..n /\ i + 1 = m + (k + 1)
      BY <1>1, <3>1
    <3> QED
      BY <1>1, <1>2, <1>5, <3>1, <3>2
  <2> QED
    BY <1>1, <2>1, <2>2, <2>3
<1>6. Tight(u)
  BY <1>1, <1>5 DEF Tight
<1>7. ASSUME Close(s), u # << >> PROVE u[1] # Zero
  <2>1. CASE m = 0
    <3>1. 1 \in 1..n /\ m + 1 = 1 /\ n # 0
      BY <1>1, <1>4, <1>7, <2>1
    <3> QED
      BY <1>1, <1>3, <3>1
  <2>2. CASE m # 0
    <3>1. 1 \in 1..m
      BY <1>1, <2>2
    <3> QED
      BY <1>1, <1>4, <1>7, <2>2, <3>1 DEF Close
  <2> QED
    BY <2>1, <2>2
<1> QED
  BY <1>1, <1>6, <1>7 DEF Close, u

\* A sequence without zeros is one.
LEMMA NoZeros ==
    ASSUME NEW s, s \in Seq(Range(s)), \A i \in 1..Len(s) : s[i] # Zero
    PROVE  Close(s)
<1> DEFINE l == Len(s)
<1>1. l \in Nat /\ (l = 0 <=> s = << >>)
  BY OverRange, EmptySeq
<1> HIDE DEF l
<1>2. \A i \in 1..(l - 1) : i \in 1..l
  BY <1>1
<1>3. l # 0 => 1 \in 1..l
  BY <1>1
<1> QED
  BY <1>1, <1>2, <1>3 DEF Close, Tight, l

\* A header has none.
LEMMA HeaderUnits ==
    ASSUME NEW p, NEW kind, NEW size
    PROVE  LET h == Header(p, kind, size)
           IN  /\ h \in Seq(Range(h)) /\ Len(h) = 2
               /\ \A i \in 1..Len(h) : h[i] # Zero
               /\ Close(h)
<1> DEFINE h == Header(p, kind, size)
<1>1. h = [k \in 1..2 |-> [type |-> "header", path |-> p, kind |-> kind, size |-> size, at |-> k]]
  BY DEF Header, BLOCK
<1>2. \A k \in 1..2 : h[k].type = "header"
  BY <1>1
<1>3. Zero.type = "zero"
  BY DEF Zero
<1>4. h \in Seq(Range(h))
  BY HeaderHeads
<1>5. DOMAIN h = 1..2
  BY <1>1
<1> HIDE DEF h
<1>6. Len(h) = 2
  <2>1. Len(h) \in Nat /\ DOMAIN h = 1..Len(h)
    BY <1>4, OverRange
  <2> DEFINE l == Len(h)
  <2> HIDE DEF l
  <2>2. l \in Nat /\ 1..l = 1..2
    BY <1>5, <2>1 DEF l
  <2>3. l = 2
    BY <2>2
  <2> QED
    BY <2>3 DEF l
<1>7. \A i \in 1..Len(h) : h[i] # Zero
  BY <1>2, <1>3, <1>6
<1>8. Close(h)
  BY <1>4, <1>7, NoZeros
<1> QED
  BY <1>4, <1>6, <1>7, <1>8 DEF h

\* A file that ends in a whole unit is filled up with one zero at most.
LEMMA TightPadded ==
    ASSUME NEW s, s \in Seq(Range(s)), Tight(s), s # << >>, s[Len(s)] # Zero, NEW size \in Nat
    PROVE  Tight(s \o Padding(size))
<1> DEFINE z == Padding(size)
           u == s \o z
           m == Len(s)
           n == Len(z)
<1>1. z \in Seq(Range(z))
  BY PaddingHeadless
<1>2. n \in Nat /\ n <= 1
  <2>1. n \in Nat
    BY Blocked
  <2>2. n <= 1
    <3> DEFINE x == (BLOCK - (size % BLOCK)) % BLOCK
    <3>1. x \in 0..1
      BY DEF BLOCK
    <3>2. z = [k \in 1..x |-> Zero]
      BY DEF Padding, Zeros
    <3> HIDE DEF x, z
    <3>3. DOMAIN z = 1..x /\ DOMAIN z = 1..Len(z)
      BY <1>1, <3>2, OverRange
    <3>4. \A l \in Nat : 1..l = 1..x => l = x
      BY <3>1
    <3> QED
      BY <2>1, <3>1, <3>3, <3>4 DEF n
  <2> QED
    BY <2>1, <2>2
<1>3. /\ m \in Nat /\ Len(u) = m + n /\ \A i \in 1..m : u[i] = s[i]
  BY <1>1, Joined
<1>4. \A i \in 1..(m - 1) : ~(s[i] = Zero /\ s[i + 1] = Zero)
  BY DEF Tight
<1>5. m # 0 /\ s[m] # Zero
  BY EmptySeq
<1> HIDE DEF u, m, n, z
<1>6. ASSUME NEW i \in 1..(m + n - 1), u[i] = Zero, u[i + 1] = Zero PROVE FALSE
  <2>1. i \in 1..m
    BY <1>2, <1>3
  <2>2. CASE i = m
    BY <1>3, <1>5, <1>6, <2>1, <2>2
  <2>3. CASE i # m
    <3>1. i \in 1..(m - 1) /\ i + 1 \in 1..m
      BY <1>3, <2>1, <2>3
    <3> QED
      BY <1>3, <1>4, <1>6, <2>1, <3>1
  <2> QED
    BY <2>2, <2>3
<1>7. Tight(u)
  BY <1>2, <1>3, <1>6 DEF Tight
<1> QED
  BY <1>7 DEF u, z

\* Nothing comes after the zeros at the end.
LEMMA SealedEnd ==
    ASSUME NEW s, s \in Seq(Range(s)), Tight(s)
    PROVE  Sealed(s \o Zeros(2 * BLOCK))
<1> DEFINE z == Zeros(2 * BLOCK)
           u == s \o z
           m == Len(s)
           n == Len(z)
<1>1. z \in Seq(Range(z)) /\ Heads(z) = {}
  BY ZerosHeadless DEF BLOCK
<1>2. /\ m \in Nat /\ n \in Nat /\ Len(u) = m + n
      /\ \A i \in 1..m : u[i] = s[i]
      /\ \A i \in 1..n : u[m + i] = z[i]
  BY <1>1, Joined
<1>3. \A i \in 1..n : ~IsHead(z[i])
  BY <1>1 DEF Heads
<1>4. \A i \in 1..(m - 1) : ~(s[i] = Zero /\ s[i + 1] = Zero)
  BY DEF Tight
<1>5. ~IsHead(Zero)
  BY DEF IsHead, Zero
<1> HIDE DEF u, m, n, z
<1>6. ASSUME NEW i \in 1..(m + n - 1), u[i] = Zero, u[i + 1] = Zero, NEW j \in i..(m + n)
      PROVE  ~IsHead(u[j])
  <2>1. i \notin 1..(m - 1)
    <3> SUFFICES ASSUME i \in 1..(m - 1) PROVE FALSE
      OBVIOUS
    <3>1. i \in 1..m /\ i + 1 \in 1..m
      BY <1>2
    <3> QED
      BY <1>2, <1>4, <1>6, <3>1
  <2>2. i >= m
    BY <1>2, <2>1
  <2>3. CASE j = m
    <3>1. i = j
      BY <1>2, <2>2, <2>3
    <3> QED
      BY <1>5, <1>6, <3>1
  <2>4. CASE j # m
    <3>1. j - m \in 1..n /\ j = m + (j - m)
      BY <1>2, <2>2, <2>4
    <3> QED
      BY <1>2, <1>3, <3>1
  <2> QED
    BY <2>3, <2>4
<1>7. Sealed(u)
  BY <1>2, <1>6 DEF Sealed
<1> QED
  BY <1>7 DEF u, z

\* What is written, but zeros, leaves no two zeros together.
LEMMA TightWrites ==
    ASSUME archive \in Seq(Range(archive)), Tight(archive), ~full, NEW u, Write(u),
           u \in Seq(Range(u)), Len(u) \in Nat \ {0}, \A i \in 1..Len(u) : u[i] # Zero
    PROVE  Tight(archive') /\ archive' # << >> /\ archive'[Len(archive')] # Zero
<1>1. archive' = archive \o u /\ Close(u)
  BY NoZeros DEF Write
<1>2. Tight(archive')
  BY <1>1, TightJoined
<1> DEFINE m == Len(archive)
           n == Len(u)
<1>3. /\ m \in Nat /\ n \in Nat \ {0} /\ Len(archive') = m + n
      /\ \A i \in 1..n : archive'[m + i] = u[i]
  BY <1>1, Joined
<1>4. Len(<< >>) = 0
  OBVIOUS
<1> HIDE DEF m, n
<1>5. n \in 1..n /\ m + n # 0
  BY <1>3
<1>6. archive' # << >> /\ archive'[m + n] = u[n] /\ u[n] # Zero
  BY <1>3, <1>4, <1>5 DEF n
<1> QED
  BY <1>2, <1>3, <1>6

\* Every step of the backup keeps zeros apart.
LEMMA NextZeros ==
    ASSUME IInv, ZerosInv, [Next]_vars
    PROVE  ZerosInv'
<1>1. setup \in Setups /\ setup' = setup /\ archive \in Seq(Range(archive))
  BY DEF IInv, Next, vars, Backup, Disk, Cut, Restore
<1>2. Tree' = Tree /\ \A x : Fault(x)' <=> Fault(x)
  BY <1>1, Same
<1>3. CASE UNCHANGED <<archive, bpc>> /\ (full => full')
  BY <1>1, <1>2, <1>3 DEF ZerosInv
<1>4. CASE Disk \/ Cut \/ Restore \/ UNCHANGED vars
  <2>1. CASE Disk
    BY <1>3, <2>1 DEF Disk, DiskFills
  <2>2. CASE Cut
    <3>1. Fault("cut")
      BY <2>2 DEF Cut
    <3> QED
      BY <1>2, <3>1 DEF ZerosInv
  <2>3. CASE Restore \/ UNCHANGED vars
    BY <1>3, <2>3 DEF Restore, vars, backupVars
  <2> QED
    BY <1>4, <2>1, <2>2, <2>3
<1>5. CASE Backup
  <2> SUFFICES ASSUME ~full', ~Fault("cut")
               PROVE  /\ bpc' \notin {"done", "failed"} => Tight(archive')
                      /\ bpc' = "body" => archive' # << >> /\ archive'[Len(archive')] # Zero
                      /\ bpc' = "done" => Sealed(archive')
    BY <1>2 DEF ZerosInv
  <2>1. BackupNext /\ full' = full
    BY <1>5 DEF Backup, BackupNext, OpenDir, OpenDirFails, ReadDir, ReadDirEnds, CloseDir, EnterDir,
                CopyLink, OpenFile, EntryFails, LeaveDir, CopyUnits, CopyFails, FinishCopy,
                ProbeSkips, ProbeFile, EndArchive
  <2>2. bpc \notin {"done", "failed"}
    BY <2>1 DEF BackupNext, OpenDir, OpenDirFails, ReadDir, ReadDirEnds, CloseDir, EnterDir,
                CopyLink, OpenFile, EntryFails, LeaveDir, CopyUnits, CopyFails, FinishCopy,
                ProbeSkips, ProbeFile, EndArchive, NextEntry
  <2>3. /\ ~full /\ Tight(archive)
        /\ bpc = "body" => archive # << >> /\ archive[Len(archive)] # Zero
    BY <2>1, <2>2 DEF ZerosInv
  <2>4. CASE OpenDir \/ OpenDirFails \/ ReadDir \/ ReadDirEnds \/ EnterDir \/ EntryFails
             \/ LeaveDir \/ ProbeSkips \/ CopyFails
    <3>1. CASE OpenDir \/ ReadDir \/ ReadDirEnds \/ EnterDir \/ EntryFails \/ ProbeSkips \/ CopyFails
      <4>1. archive' = archive /\ bpc' # "done" /\ (bpc' = "body" => bpc = "body")
        BY <3>1 DEF OpenDir, ReadDir, ReadDirEnds, EnterDir, EntryFails, ProbeSkips, CopyFails,
                    NextEntry
      <4> QED
        BY <2>3, <4>1
    <3>2. CASE OpenDirFails \/ LeaveDir
      <4>1. archive' = archive /\ bpc' \in {"entry", "failed", "probe"}
        BY <3>2 DEF OpenDirFails, LeaveDir, Return
      <4> QED
        BY <2>3, <4>1
    <3> QED
      BY <2>4, <3>1, <3>2
  <2>5. CASE CloseDir
    <3>1. bpc' = "entry" /\ (archive' = archive \/ Write(Header(Top.path, "dir", 0)))
      BY <2>5 DEF CloseDir
    <3>2. PICK p : archive' = archive \/ Write(Header(p, "dir", 0))
      BY <3>1
    <3>3. Tight(archive')
      BY <1>1, <2>3, <3>2, HeaderUnits, TightWrites
    <3> QED
      BY <3>1, <3>3
  <2>6. CASE CopyLink
    <3>1. bpc' = "entry"
      BY <2>6 DEF CopyLink, NextEntry
    <3>2. PICK p : Write(Header(p, "link", 0))
      BY <2>6 DEF CopyLink
    <3>3. PICK u : u = Header(p, "link", 0)
      OBVIOUS
    <3>4. u \in Seq(Range(u)) /\ Len(u) = 2 /\ \A i \in 1..Len(u) : u[i] # Zero
      BY <3>3, HeaderUnits
    <3>5. Write(u) /\ Len(u) \in Nat \ {0} /\ ~full /\ Tight(archive)
      BY <2>3, <3>2, <3>3, <3>4
    <3>6. Tight(archive')
      BY <1>1, <3>4, <3>5, TightWrites
    <3> QED
      BY <3>1, <3>6
  <2>7. CASE OpenFile \/ ProbeFile
    <3>1. PICK p, size : bpc' = "body" /\ Write(Header(p, "file", size))
      BY <2>7 DEF OpenFile, ProbeFile, StartCopy
    <3>2. Tight(archive') /\ archive' # << >> /\ archive'[Len(archive')] # Zero
      BY <1>1, <2>3, <3>1, HeaderUnits, TightWrites
    <3> QED
      BY <3>1, <3>2
  <2>8. CASE CopyUnits
    <3>1. bpc' = "body"
      BY <2>8 DEF CopyUnits
    <3>2. Tight(archive') /\ archive' # << >> /\ archive'[Len(archive')] # Zero
      BY <1>1, <2>3, <2>8, CopyWrites, TightWrites
    <3> QED
      BY <3>1, <3>2
  <2>9. CASE FinishCopy
    <3>1. /\ bpc = "body" /\ bpc' \in {"probe", "entry"} /\ Write(Padding(body.size))
      BY <2>9 DEF FinishCopy
    <3>2. body.size \in Nat /\ archive' = archive \o Padding(body.size)
      BY <2>3, <3>1 DEF IInv, WalkInv, Write
    <3>3. Tight(archive')
      BY <1>1, <2>3, <3>1, <3>2, TightPadded
    <3> QED
      BY <3>1, <3>3
  <2>10. CASE EndArchive
    <3>1. bpc' \in {"done", "failed"} /\ archive' = archive \o Zeros(2 * BLOCK)
      BY <2>3, <2>10 DEF EndArchive, Write
    <3> QED
      BY <1>1, <2>3, <3>1, SealedEnd
  <2> QED
    BY <2>1, <2>4, <2>5, <2>6, <2>7, <2>8, <2>9, <2>10 DEF BackupNext
<1> QED
  BY <1>4, <1>5 DEF Next


\* A step that archives nothing, or one node that was not there.
LEMMA KindsOn ==
    ASSUME KindsInv, setup \in Setups, setup' = setup, Remembers' => Remembers,
           \/ Heads(archive') \subseteq Heads(archive)
           \/ \E p, kind, size :
                 /\ Heads(archive') \subseteq Heads(archive) \cup {Mark(p, kind, size)}
                 /\ Plain(Tree, setup, Mark(p, kind, size))
                 /\ Remembers => \A h \in Heads(archive) : h.path # p
    PROVE  KindsInv'
<1>1. Tree' = Tree /\ setup' = setup
  BY Same
<1>2. CASE Heads(archive') \subseteq Heads(archive)
  BY <1>1, <1>2 DEF KindsInv
<1>3. ASSUME NEW p, NEW kind, NEW size,
             Heads(archive') \subseteq Heads(archive) \cup {Mark(p, kind, size)},
             Plain(Tree, setup, Mark(p, kind, size)),
             Remembers => \A h \in Heads(archive) : h.path # p
      PROVE  KindsInv'
  <2> DEFINE m == Mark(p, kind, size)
  <2>1. m.path = p
    BY DEF Mark
  <2> HIDE DEF m
  <2>2. \A h \in Heads(archive') : Plain(Tree', setup', h)
    BY <1>1, <1>3 DEF KindsInv, m
  <2>3. ASSUME Remembers, NEW g \in Heads(archive'), NEW h \in Heads(archive'),
               g.path = h.path, "nv" \notin {g.kind, h.kind}
        PROVE  g.kind = h.kind
    <3>1. g \in Heads(archive) \/ g = m
      BY <1>3 DEF m
    <3>2. h \in Heads(archive) \/ h = m
      BY <1>3 DEF m
    <3>3. (g = m \/ h = m) => g = m /\ h = m
      BY <1>3, <2>1, <2>3, <3>1, <3>2
    <3> QED
      BY <2>3, <3>1, <3>2, <3>3 DEF KindsInv
  <2> QED
    BY <2>2, <2>3 DEF KindsInv
<1> QED
  BY <1>2, <1>3

\* An entry that is taken was not archived.
LEMMA TakenNew ==
    ASSUME IInv, bpc = "entry", Top.entries # << >>, Remembers, NEW h \in Heads(archive)
    PROVE  h.path # Head(Top.entries)
<1>1. Archived(h)
  BY DEF IInv, OnceInv
<1>2. PICK f : f = [Top EXCEPT !.entries = Tail(@)]
  OBVIOUS
<1>3. \A n \in 0..Len(h.path) : SubSeq(h.path, 1, n) # Head(Top.entries)
  BY <1>1, <1>2, Taken
<1> QED
  BY <1>1, <1>3, NotArchived

\* Every step of the backup.
LEMMA NextKinds ==
    ASSUME IInv, ReachInv, KindsInv, [Next]_vars
    PROVE  KindsInv'
<1>1. setup \in Setups /\ setup' = setup /\ archive \in Seq(Range(archive))
  BY DEF IInv, Next, vars, Backup, Disk, Cut, Restore
<1>2. Tree' = Tree /\ setup'.capacity = setup.capacity /\ \A x : Fault(x)' <=> Fault(x)
  BY <1>1, Same
<1>3. CASE UNCHANGED <<archive, written>>
  <2>1. Remembers' <=> Remembers
    BY <1>2, <1>3 DEF Remembers
  <2> QED
    BY <1>1, <1>3, <2>1, KindsOn
<1>4. CASE Disk \/ Restore \/ UNCHANGED vars
  BY <1>3, <1>4 DEF Disk, DiskFills, Restore, vars, backupVars
<1>5. CASE Cut
  <2>1. PICK n \in 0..(Len(archive) - 1) : archive' = SubSeq(archive, 1, n)
    BY <1>5 DEF Cut
  <2>2. n \in 0..Len(archive)
    BY <1>1, OverRange
  <2>3. Heads(archive') \subseteq Heads(archive)
    BY <1>1, <2>1, <2>2, CutHeads
  <2>4. Remembers' <=> Remembers
    BY <1>2, <1>5 DEF Remembers, Cut, backupVars
  <2> QED
    BY <1>1, <2>3, <2>4, KindsOn
<1>6. CASE OpenDir \/ OpenDirFails \/ ReadDir \/ ReadDirEnds \/ EnterDir \/ EntryFails
           \/ LeaveDir \/ ProbeSkips \/ CopyFails
  BY <1>3, <1>6 DEF OpenDir, OpenDirFails, ReadDir, ReadDirEnds, EnterDir, EntryFails, LeaveDir,
                    ProbeSkips, CopyFails
<1>7. CASE CloseDir
  <2> DEFINE d == Top.path
  <2>1. /\ bpc = "closedir" /\ written' = written
        /\ archive' = archive \/ (d # Root /\ Write(Header(d, "dir", 0)))
    BY <1>7 DEF CloseDir
  <2>2. Remembers' <=> Remembers
    BY <1>2, <2>1 DEF Remembers
  <2>3. d # Root => Tree[d].kind = "dir"
    <3>1. Walking
      BY <2>1 DEF Walking, Reading
    <3> QED
      BY <1>1, <3>1, Atop DEF IsFrame
  <2>4. Remembers => \A h \in Heads(archive) : h.path # d
    BY <2>1 DEF IInv, OnceInv, Archived, Reading
  <2> HIDE DEF d
  <2>5. CASE d # Root /\ Write(Header(d, "dir", 0))
    <3>1. Heads(archive') \subseteq Heads(archive) \cup {Mark(d, "dir", 0)}
      BY <1>1, <2>5, WriteHeader
    <3>2. Plain(Tree, setup, Mark(d, "dir", 0))
      BY <2>3, <2>5 DEF Plain, Mark
    <3> QED
      BY <1>1, <2>2, <2>4, <3>1, <3>2, KindsOn
  <2> QED
    BY <1>3, <2>1, <2>5
<1>8. CASE CopyLink \/ OpenFile
  <2> DEFINE p == Head(Top.entries)
  <2>1. /\ bpc = "entry" /\ Top.entries # << >>
        /\ \E size : Write(Header(p, Tree[p].kind, size))
    BY <1>8 DEF CopyLink, OpenFile, NextEntry, StartCopy
  <2>2. Remembers' => Remembers
    <3>1. p \in DOMAIN Tree
      <4>1. PICK f : f = [Top EXCEPT !.entries = Tail(@)]
        OBVIOUS
      <4> QED
        BY <2>1, <4>1, Taken DEF Child
    <3>2. CASE CopyLink
      <4>1. Track(p)
        BY <3>2 DEF CopyLink
      <4> HIDE DEF p
      <4> QED
        BY <1>1, <3>1, <4>1, Tracked
    <3>3. CASE OpenFile
      BY <1>2, <3>3 DEF OpenFile, Remembers
    <3> QED
      BY <1>8, <3>2, <3>3
  <2>3. Remembers => \A h \in Heads(archive) : h.path # p
    BY <2>1, TakenNew
  <2> HIDE DEF p
  <2>4. PICK size : Write(Header(p, Tree[p].kind, size))
    BY <2>1
  <2>5. Heads(archive') \subseteq Heads(archive) \cup {Mark(p, Tree[p].kind, size)}
    BY <1>1, <2>4, WriteHeader
  <2>6. Plain(Tree, setup, Mark(p, Tree[p].kind, size))
    BY DEF Plain, Mark
  <2> QED
    BY <1>1, <2>2, <2>3, <2>5, <2>6, KindsOn
<1>9. CASE ProbeFile
  <2> DEFINE p == Head(probe)
  <2>1. /\ bpc = "probe" /\ probe # << >> /\ written' = written
        /\ p \notin written /\ p \in DOMAIN Tree /\ Tree[p].kind # "dir"
        /\ Write(Header(p, "file", Tree[p].size))
    BY <1>9 DEF ProbeFile, StartCopy, Wanted
  <2>2. p \in Range(setup.probes)
    <3>1. probe \in Seq(Range(probe)) /\ Range(probe) \subseteq Range(setup.probes)
      BY DEF ReachInv
    <3> QED
      BY <2>1, <3>1, ProbesShrink
  <2> HIDE DEF p
  <2>3. Remembers' <=> Remembers
    BY <1>2, <2>1 DEF Remembers
  <2>4. Remembers => \A h \in Heads(archive) : h.path # p
    BY <2>1 DEF IInv, OnceInv, Archived
  <2>5. Tree[p].kind \in {"file", "link"}
    BY <1>1, <2>1, TreeNodes
  <2>6. Plain(Tree, setup, Mark(p, "file", Tree[p].size))
    BY <2>2, <2>5 DEF Plain, Mark
  <2>7. Heads(archive') \subseteq Heads(archive) \cup {Mark(p, "file", Tree[p].size)}
    BY <1>1, <2>1, WriteHeader
  <2> QED
    BY <1>1, <2>3, <2>4, <2>6, <2>7, KindsOn
<1>10. CASE CopyUnits
  <2>1. PICK u : Write(u) /\ u \in Seq(Range(u)) /\ Heads(u) = {} /\ Distinct(u)
    BY <1>10, CopyWrites
  <2>2. Heads(archive') \subseteq Heads(archive)
    BY <1>1, <2>1, WriteHeadless
  <2>3. Remembers' <=> Remembers
    BY <1>2, <1>10 DEF Remembers, CopyUnits
  <2> QED
    BY <1>1, <2>2, <2>3, KindsOn
<1>11. CASE FinishCopy
  <2>1. bpc = "body" /\ Track(body.path)
    BY <1>11 DEF FinishCopy
  <2>2. PICK u : u = Padding(body.size) /\ Write(u)
    BY <1>11 DEF FinishCopy
  <2>3. body.size \in Nat /\ body.path \in DOMAIN Tree
    BY <2>1 DEF IInv, WalkInv
  <2>4. u \in Seq(Range(u)) /\ Heads(u) = {} /\ Distinct(u)
    BY <2>2, <2>3, PaddingHeadless
  <2>5. Heads(archive') \subseteq Heads(archive)
    BY <1>1, <2>2, <2>4, WriteHeadless
  <2>6. Remembers' => Remembers
    BY <1>1, <2>1, <2>3, Tracked
  <2> QED
    BY <1>1, <2>5, <2>6, KindsOn
<1>12. CASE EndArchive
  <2>1. PICK u : u = Zeros(4) /\ Write(u)
    BY <1>12 DEF EndArchive, BLOCK
  <2>2. u \in Seq(Range(u)) /\ Heads(u) = {} /\ Distinct(u)
    BY <2>1, ZerosHeadless
  <2>3. Heads(archive') \subseteq Heads(archive)
    BY <1>1, <2>1, <2>2, WriteHeadless
  <2>4. Remembers' <=> Remembers
    BY <1>2, <1>12 DEF Remembers, EndArchive
  <2> QED
    BY <1>1, <2>3, <2>4, KindsOn
<1>13. CASE Backup
  <2>1. BackupNext
    BY <1>13 DEF Backup
  <2> QED
    BY <1>6, <1>7, <1>8, <1>9, <1>10, <1>11, <1>12, <2>1 DEF BackupNext
<1> QED
  BY <1>4, <1>5, <1>13 DEF Next


-----------------------------------------------------------------------------
(* The archive of xqcn2tar has every file.                                 *)

\* The first m of the sequences, one after the other.
Parted(c, ss, m) ==
    /\ Close(c)
    /\ \A h : h \in Heads(c) <=> \E i \in 1..m : h \in Heads(ss[i])

\* A concatenation has the headers of its parts.
LEMMA FlattenedParts ==
    ASSUME NEW n \in Nat, NEW ss, ss \in Seq(Range(ss)), Len(ss) = n,
           \A i \in 1..n : Close(ss[i])
    PROVE  Parted(FlattenSeq(ss), ss, n)
<1>1. CASE n = 0
  <2>1. FlattenSeq(ss) = ss
    BY <1>1 DEF FlattenSeq
  <2>2. ss = << >> /\ Len(<< >>) = 0 /\ << >> \in Seq(Range(<< >>))
    BY <1>1, EmptySeq
  <2>3. Close(<< >>) /\ Heads(<< >>) = {}
    BY <2>2 DEF Close, Tight, Heads
  <2> QED
    BY <1>1, <2>1, <2>2, <2>3 DEF Parted
<1>2. CASE n # 0
  <2>1. PICK f : Concatenates(f, ss, n) /\ FlattenSeq(ss) = f[n]
    BY <1>2, Concatenation
  <2>2. \A i \in 1..n : f[i] = IF i = 1 THEN ss[i] ELSE f[i - 1] \o ss[i]
    BY <2>1 DEF Concatenates
  <2> DEFINE S == {m \in Nat : m \in 1..n => Parted(f[m], ss, m)}
  <2>3. 0 \in S
    OBVIOUS
  <2>4. ASSUME NEW m \in Nat, m \in S PROVE m + 1 \in S
    <3> SUFFICES ASSUME m + 1 \in 1..n PROVE Parted(f[m + 1], ss, m + 1)
      OBVIOUS
    <3>1. CASE m = 0
      <4>1. f[1] = ss[1] /\ 1 \in 1..n
        BY <2>2, <3>1
      <4>2. Parted(ss[1], ss, 1)
        <5>1. \A i \in 1..1 : i = 1
          OBVIOUS
        <5> QED
          BY <4>1, <5>1 DEF Parted
      <4> QED
        BY <3>1, <4>1, <4>2
    <3>2. CASE m # 0
      <4>1. m \in 1..n /\ m + 1 # 1 /\ m + 1 - 1 = m
        BY <3>2
      <4>2. f[m + 1] = IF m + 1 = 1 THEN ss[m + 1] ELSE f[m + 1 - 1] \o ss[m + 1]
        BY <2>2
      <4>3. f[m + 1] = f[m] \o ss[m + 1]
        BY <4>1, <4>2
      <4>4. Parted(f[m], ss, m)
        BY <2>4, <4>1
      <4>5. /\ Close(f[m]) /\ f[m] \in Seq(Range(f[m])) /\ Tight(f[m])
            /\ Close(ss[m + 1]) /\ ss[m + 1] \in Seq(Range(ss[m + 1]))
        BY <4>4 DEF Parted, Close
      <4>6. Close(f[m + 1])
        BY <4>3, <4>5, TightJoined
      <4>7. Heads(f[m + 1]) = Heads(f[m]) \cup Heads(ss[m + 1])
        BY <4>3, <4>5, HeadsJoined, HeadsBoth
      <4>8. \A i : i \in 1..(m + 1) <=> i \in 1..m \/ i = m + 1
        OBVIOUS
      <4> QED
        BY <4>4, <4>6, <4>7, <4>8 DEF Parted
    <3> QED
      BY <3>1, <3>2
  <2> HIDE DEF S
  <2>5. n \in S
    BY <2>3, <2>4, Induction
  <2> USE DEF S
  <2>6. Parted(f[n], ss, n)
    BY <1>2, <2>5
  <2> QED
    BY <2>1, <2>6
<1> QED
  BY <1>1, <1>2

\* A member has its header, and begins with it.
LEMMA MemberClose ==
    ASSUME NEW p, NEW kind, NEW size \in Nat
    PROVE  LET m == Member(p, kind, size)
           IN  Close(m) /\ Heads(m) = {Mark(p, kind, size)}
<1> DEFINE h == Header(p, kind, size)
           c == Content(p, size)
           hc == h \o c
           m == Member(p, kind, size)
<1>1. h \in Seq(Range(h)) /\ Len(h) = 2 /\ Close(h) /\ Heads(h) = {Mark(p, kind, size)}
      /\ \A i \in 1..Len(h) : h[i] # Zero
  BY HeaderUnits, HeaderHeads
<1>2. c \in Seq(Range(c)) /\ Len(c) = size /\ \A k \in 1..size : c[k] # Zero
  <2>1. \A k : [type |-> "data", path |-> p, at |-> k] # [type |-> "zero"]
    OBVIOUS
  <2>2. \A k \in 1..size : c[k] = [type |-> "data", path |-> p, at |-> k]
    BY Contents
  <2>3. \A k \in 1..size : c[k] # Zero
    BY <2>1, <2>2 DEF Zero
  <2> QED
    BY <2>3, Contents
<1>3. m = hc \o Padding(size)
  BY DEF Member
<1>4. Padding(size) \in Seq(Range(Padding(size)))
  BY PaddingHeadless
<1> HIDE DEF h, c, m
<1>5. /\ hc \in Seq(Range(hc)) /\ Len(hc) = 2 + size
      /\ \A i \in 1..2 : hc[i] = h[i]
      /\ \A i \in 1..size : hc[2 + i] = c[i]
  <2>0. h \in Seq(Range(h)) /\ c \in Seq(Range(c))
    BY <1>1, <1>2
  <2>1. /\ hc \in Seq(Range(hc)) /\ Len(hc) = Len(h) + Len(c)
        /\ \A i \in 1..Len(h) : hc[i] = h[i]
        /\ \A i \in 1..Len(c) : hc[Len(h) + i] = c[i]
    BY <2>0, Joined
  <2> HIDE DEF hc
  <2> QED
    BY <1>1, <1>2, <2>1
<1> HIDE DEF hc
<1>6. \A i \in 1..Len(hc) : hc[i] # Zero
  <2> SUFFICES ASSUME NEW i \in 1..(2 + size) PROVE hc[i] # Zero
    BY <1>5
  <2>1. CASE i \in 1..2
    BY <1>1, <1>5, <2>1
  <2>2. CASE i \notin 1..2
    <3>1. i - 2 \in 1..size /\ i = 2 + (i - 2)
      BY <2>2
    <3> QED
      BY <1>2, <1>5, <3>1
  <2> QED
    BY <2>1, <2>2
<1>7. Close(hc) /\ hc # << >> /\ hc[Len(hc)] # Zero
  <2>1. Len(<< >>) = 0 /\ Len(hc) # 0 /\ Len(hc) \in 1..Len(hc)
    BY <1>5
  <2> QED
    BY <1>5, <1>6, <2>1, NoZeros
<1>8. Tight(m)
  BY <1>3, <1>5, <1>7, TightPadded DEF Close
<1>9. m \in Seq(Range(m)) /\ m # << >> /\ m[1] # Zero
  <2>1. m \in Seq(Range(m)) /\ Len(m) = Len(hc) + Len(Padding(size)) /\ \A i \in 1..Len(hc) : m[i] = hc[i]
    BY <1>3, <1>4, <1>5, Joined
  <2>2. Len(Padding(size)) \in Nat
    BY Blocked
  <2>3. 1 \in 1..Len(hc) /\ Len(m) # 0 /\ Len(<< >>) = 0
    BY <1>5, <2>1, <2>2
  <2> QED
    BY <1>6, <2>1, <2>3
<1>10. Mark(p, kind, size) \in Heads(m) /\ Heads(m) \subseteq {Mark(p, kind, size)}
  <2>1. Heads(h) \subseteq Heads(hc)
    BY <1>1, <1>2, HeadsBoth DEF hc
  <2>2. Heads(hc) \subseteq Heads(m)
    BY <1>3, <1>4, <1>5, HeadsBoth
  <2>3. Heads(m) \subseteq {Mark(p, kind, size)}
    BY MemberHeads DEF m
  <2> QED
    BY <1>1, <2>1, <2>2, <2>3
<1> QED
  BY <1>8, <1>9, <1>10 DEF Close, m

\* The archive of xqcn2tar, by its headers and its zeros.
LEMMA ConvertedParts ==
    ASSUME setup \in Setups, setup.nv \in Nat
    PROVE  /\ Sealed(Converted)
           /\ \A h \in Heads(Converted) :
                 \/ h.kind = "nv"
                 \/ h.kind = "file" /\ Tree[h.path].kind = "file"
           /\ \A p \in DOMAIN Tree :
                 Tree[p].kind = "file" => Recorded(Tree, Converted, p)
<1> DEFINE l == FileList
           ns == Items
           ms == Members
           a == FlattenSeq(ns)
           b == FlattenSeq(ms)
           z == Zeros(2 * BLOCK)
           F == {p \in DOMAIN Tree : Tree[p].kind = "file"}
<1>1. /\ ns \in Seq(Range(ns)) /\ Len(ns) = setup.nv
      /\ \A i \in 1..setup.nv : ns[i] = Member(<<"nv_items", i>>, "nv", 1)
      /\ ms \in Seq(Range(ms)) /\ Len(ms) = Len(l) /\ Len(l) \in Nat
      /\ \A i \in 1..Len(l) :
            /\ ms[i] = Member(l[i], "file", Tree[l[i]].size)
            /\ l[i] \in DOMAIN Tree /\ Tree[l[i]].size \in Nat
            /\ Tree[l[i]].kind = "file"
  BY Parts
<1>2. F \subseteq Range(l) /\ DOMAIN l = 1..Len(l)
  <2>1. IsTree(Tree)
    BY Trees
  <2>2. F \in SUBSET DOMAIN Tree /\ IsFiniteSet(DOMAIN Tree)
    BY <2>1 DEF IsTree
  <2>3. IsFiniteSet(F)
    BY <2>2, FS_Subset
  <2>4. F \subseteq Range(SetToSeq(F)) /\ IsList(SetToSeq(F))
    BY <2>3, SetCovered, SetListed
  <2>5. l = SetToSeq(F)
    BY DEF FileList
  <2> HIDE DEF l, F
  <2> QED
    BY <2>4, <2>5, OverRange DEF IsList
<1>3. Converted = (a \o b) \o z
  BY DEF Converted, Items, Members, FileList
<1> HIDE DEF l, ns, ms
<1>4. ASSUME NEW i \in 1..setup.nv
      PROVE  Close(ns[i]) /\ Heads(ns[i]) = {Mark(<<"nv_items", i>>, "nv", 1)}
  <2>1. PICK p, k, n : p = <<"nv_items", i>> /\ k = "nv" /\ n = 1 /\ ns[i] = Member(p, k, n)
    BY <1>1
  <2>2. n \in Nat
    BY <2>1
  <2>3. Close(ns[i]) /\ Heads(ns[i]) = {Mark(p, k, n)}
    BY <2>1, <2>2, MemberClose
  <2> QED
    BY <2>1, <2>3
<1>5. \A i \in 1..Len(l) : Close(ms[i]) /\ Heads(ms[i]) = {Mark(l[i], "file", Tree[l[i]].size)}
  BY <1>1, MemberClose
<1>6. Parted(a, ns, setup.nv) /\ Parted(b, ms, Len(l))
  BY <1>1, <1>4, <1>5, FlattenedParts
<1>7. z \in Seq(Range(z)) /\ Heads(z) = {}
  BY ZerosHeadless DEF BLOCK
<1> HIDE DEF a, b
<1>8. /\ Close(a) /\ Close(b) /\ a \in Seq(Range(a)) /\ b \in Seq(Range(b)) /\ Tight(a)
  BY <1>6 DEF Parted, Close
<1> DEFINE ab == a \o b
<1>9. Close(ab) /\ ab \in Seq(Range(ab)) /\ Tight(ab) /\ Heads(ab) = Heads(a) \cup Heads(b)
  <2>1. Close(ab)
    BY <1>8, TightJoined
  <2>2. Heads(ab) = Heads(a) \cup Heads(b)
    BY <1>8, HeadsJoined, HeadsBoth
  <2> QED
    BY <2>1, <2>2 DEF Close
<1> HIDE DEF ab
<1>10. Converted = ab \o z
  BY <1>3 DEF ab
<1>11. Sealed(Converted)
  BY <1>9, <1>10, SealedEnd
<1> HIDE DEF z
<1>12. Heads(Converted) = Heads(ab)
  BY <1>7, <1>9, <1>10, HeadsJoined, HeadsBoth
<1>13. ASSUME NEW h \in Heads(Converted)
       PROVE  h.kind = "nv" \/ (h.kind = "file" /\ Tree[h.path].kind = "file")
  <2>1. h \in Heads(a) \/ h \in Heads(b)
    BY <1>9, <1>12
  <2>2. CASE h \in Heads(a)
    <3>1. PICK i \in 1..setup.nv : h \in Heads(ns[i])
      BY <1>6, <2>2 DEF Parted
    <3>2. h = Mark(<<"nv_items", i>>, "nv", 1)
      BY <1>4, <3>1
    <3> QED
      BY <3>2 DEF Mark
  <2>3. CASE h \in Heads(b)
    <3>1. PICK i \in 1..Len(l) : h \in Heads(ms[i])
      BY <1>6, <2>3 DEF Parted
    <3>2. h = Mark(l[i], "file", Tree[l[i]].size)
      BY <1>5, <3>1
    <3>3. h.kind = "file" /\ h.path = l[i]
      BY <3>2 DEF Mark
    <3> QED
      BY <1>1, <3>3
  <2> QED
    BY <2>1, <2>2, <2>3
<1>14. ASSUME NEW p \in DOMAIN Tree, Tree[p].kind = "file"
       PROVE  Recorded(Tree, Converted, p)
  <2>1. p \in Range(l)
    BY <1>2, <1>14
  <2>2. PICK i \in 1..Len(l) : p = l[i]
    BY <1>2, <2>1 DEF Range
  <2>3. Mark(l[i], "file", Tree[l[i]].size) \in Heads(b)
    BY <1>5, <1>6 DEF Parted
  <2>4. PICK h : h = Mark(l[i], "file", Tree[l[i]].size) /\ h \in Heads(Converted)
    BY <1>9, <1>12, <2>3
  <2>5. h.kind = "file" /\ h.path = p
    BY <2>2, <2>4 DEF Mark
  <2> QED
    BY <1>14, <2>4, <2>5 DEF Recorded
<1> QED
  BY <1>11, <1>13, <1>14

\* At the beginning all is pending, or all is in the archive.
LEMMA BackupBegins ==
    ASSUME Init
    PROVE  ReachInv /\ KindsInv /\ ZerosInv
<1>1. /\ setup \in Setups /\ stack = << Frame(Root) >> /\ written = {}
      /\ probe = setup.probes
      /\ bpc = IF setup.nv = 0 THEN "opendir" ELSE "done"
      /\ archive = IF setup.nv = 0 THEN << >> ELSE Converted
  BY DEF Init, BackupInit
<1>2. IsSetup(setup) /\ setup.nv \in Nat
  BY <1>1, EfsConstants DEF IsSetup
<1>3. probe \in Seq(Range(probe)) /\ Range(probe) \subseteq Range(setup.probes)
  BY <1>1, <1>2 DEF IsSetup
<1>4. CASE setup.nv # 0
  <2>1. bpc = "done" /\ archive = Converted
    BY <1>1, <1>4
  <2>2. /\ Sealed(archive)
        /\ \A h \in Heads(archive) : h.kind = "nv" \/ (h.kind = "file" /\ Tree[h.path].kind = "file")
        /\ \A p \in DOMAIN Tree : Tree[p].kind = "file" => Recorded(Tree, archive, p)
    BY <1>1, <1>2, <2>1, ConvertedParts
  <2>3. ReachInv
    BY <1>3, <1>4, <2>1, <2>2 DEF ReachInv, Reached, Captured
  <2>4. KindsInv
    BY <2>2 DEF KindsInv, Plain
  <2>5. ZerosInv
    BY <2>1, <2>2 DEF ZerosInv
  <2> QED
    BY <2>3, <2>4, <2>5
<1>5. CASE setup.nv = 0
  <2>1. bpc = "opendir" /\ archive = << >> /\ Len(<< >>) = 0
    BY <1>1, <1>5
  <2>2. Len(stack) = 1 /\ stack[1] = Frame(Root) /\ Top = Frame(Root)
    BY <1>1 DEF Top, Last
  <2>3. Frame(Root).path = << >> /\ Frame(Root).listing = << >>
    BY DEF Frame, Root
  <2>4. Drained(stack, TRUE) /\ (bpc # "readdir") = TRUE
    <3>1. \A k \in 1..1 : k = 1
      OBVIOUS
    <3> QED
      BY <2>1, <2>2, <2>3, <3>1 DEF Drained
  <2>5. ASSUME NEW p \in DOMAIN Tree PROVE Unseen(p) \/ Pending(p)
    <3>1. CASE Tree[p].hidden
      BY <1>1, <2>1, <3>1 DEF Unseen, Pending
    <3>2. CASE ~Tree[p].hidden
      <4>1. p \in Seq(Range(p)) /\ Len(p) \in Nat \ {0}
        BY <1>1, TreeNodes
      <4>2. SubSeq(p, 1, 0) = << >> /\ 0 \in 0..Len(p)
        <5>1. 0 \in 0..Len(p)
          BY <4>1
        <5>2. Len(SubSeq(p, 1, 0)) = 0 /\ \A i \in 1..0 : p[i] \in Range(p)
          BY <4>1, <5>1, Beginning
        <5>3. SubSeq(p, 1, 0) \in Seq(Range(p))
          BY <4>1, <5>2, SubSeqProperties
        <5> QED
          BY <5>1, <5>2, <5>3, EmptySeq
      <4>3. Within(p, Top.path)
        BY <2>2, <2>3, <4>2 DEF Within
      <4> QED
        BY <2>1, <3>2, <4>3 DEF Pending, Left
    <3> QED
      BY <3>1, <3>2
  <2>6. ReachInv
    BY <1>1, <1>3, <1>5, <2>1, <2>4, <2>5 DEF ReachInv, Reached, Captured
  <2>7. Heads(archive) = {}
    BY <2>1 DEF Heads
  <2>8. KindsInv
    BY <2>7 DEF KindsInv
  <2>9. ZerosInv
    BY <2>1 DEF ZerosInv, Tight
  <2> QED
    BY <2>6, <2>8, <2>9
<1> QED
  BY <1>4, <1>5


-----------------------------------------------------------------------------
(* What the restore has read is on the modem.                              *)

\* What a step that works on a header does to the file system of the modem.
Kept(f, g, k) ==
    /\ \A q \in DOMAIN f : \/ q = k.path /\ k.kind = "file"
                           \/ q \in DOMAIN g /\ g[q] = f[q]
    /\ \A q \in DOMAIN g : \/ q \in DOMAIN f \/ g[q] = Empty("dir")
                           \/ q = k.path /\ k.kind \in {"link", "file"}

\* What was on the modem stays, except the file being written.
LEMMA KeptGiven ==
    ASSUME NEW c, NEW n, NEW f, NEW w, NEW g, NEW v, NEW k, NEW h,
           Kept(f, g, k), w \subseteq v, Given(c, n, f, w, h)
    PROVE  Given(c, n, g, v, h) \/ Redone(k, h)
  BY DEF Kept, Given, Redone

\* The directories stay.
LEMMA DirsStay ==
    ASSUME NEW c, NEW f, NEW g, NEW k, Kept(f, g, k), DirsStand(c, f),
           k.kind \in {"link", "file"} => c.tree[k.path].kind # "dir"
    PROVE  DirsStand(c, g)
  BY DEF Kept, DirsStand

\* A member has no header but its own.
LEMMA OneHead ==
    ASSUME TarInv, archive \in Seq(Range(archive)), ~Fault("read"),
           NEW i \in 1..Len(archive), IsHead(archive[i]),
           NEW j \in 1..Len(archive), IsHead(archive[j]), j > i
    PROVE  j > i - 1 + Length(archive[i])
<1> DEFINE h == archive[i]
           m == Member(h.path, h.kind, h.size)
           k == j - i + 1
<1> SUFFICES ASSUME j <= i - 1 + Length(archive[i]) PROVE FALSE
  <2>1. Formed(archive)
    BY DEF TarInv
  <2>2. h.size \in Nat
    BY <2>1 DEF Formed
  <2>3. Length(h) \in Nat /\ Len(archive) \in Nat
    BY <2>2, Long, OverRange
  <2> HIDE DEF h
  <2>4. i \in Nat /\ j \in Nat
    BY <2>3
  <2> QED
    BY <2>3, <2>4 DEF h
<1>1. h.size \in Nat /\ Follows(archive, i) /\ Len(archive) \in Nat
  BY OverRange DEF TarInv, Formed
<1>2. Length(h) \in Nat /\ Length(h) = 2 + Blocks(h.size) /\ Blocks(h.size) \in Nat
  BY <1>1, Long
<1>3. /\ m \in Seq(Range(m)) /\ Len(m) = BLOCK + Blocks(h.size)
      /\ m[1] = Mark(h.path, h.kind, h.size)
  BY <1>1, MemberUnits
<1>4. Distinct(m) /\ Heads(m) \subseteq {Mark(h.path, h.kind, h.size)}
  BY <1>1, MemberHeads
<1>5. archive[i + k - 1] = Unit(h, k) /\ i + k - 1 = j /\ k \in 1..Len(m) /\ k # 1 /\ 1 \in 1..Len(m)
  <2> HIDE DEF m
  <2>1. \A x \in 1..Length(h) : i + x - 1 <= Len(archive) => archive[i + x - 1] = Unit(h, x)
    BY <1>1 DEF Follows
  <2>2. BLOCK = 2 /\ i \in Nat /\ j \in Nat
    BY <1>1 DEF BLOCK
  <2> HIDE DEF h
  <2>3. j <= i - 1 + Length(h)
    BY DEF h
  <2>4. k \in 1..Length(h) /\ i + k - 1 = j /\ j <= Len(archive) /\ k # 1 /\ Length(h) = Len(m)
          /\ 1 \in 1..Len(m)
    BY <1>1, <1>2, <1>3, <2>2, <2>3
  <2> QED
    BY <2>1, <2>4
<1> HIDE DEF k
<1>6. IsHead(m[k])
  BY <1>5 DEF Unit
<1> HIDE DEF m, h
<1>7. m[k] \in Heads(m)
  BY <1>5, <1>6 DEF Heads
<1>8. m[k] = m[1]
  BY <1>3, <1>4, <1>7
<1> QED
  BY <1>4, <1>5, <1>6, <1>8 DEF Distinct

\* Where the header is, and which ones were before it.
LEMMA HeadBehind ==
    ASSUME IInv, TarInv, RInv, rpc \notin {"header", "end"}
    PROVE  \E i \in 1..Len(archive) :
              /\ pos - Behind - BLOCK = i - 1 /\ i \in Nat /\ IsHead(archive[i])
              /\ archive[i] = Mark(cur.path, cur.kind, cur.size)
              /\ pos = i - 1 + BLOCK + Behind
              /\ Length(archive[i]) = 2 + Blocks(cur.size)
<1>1. PICK i \in 1..Len(archive) : /\ Stands(archive, i, cur, pos - Behind, files)
                                   /\ Behind \in 0..cur.size /\ pos = i - 1 + BLOCK + Behind
  BY Here
<1>2. /\ Length(archive[i]) = 2 + cur.size + Len(Padding(cur.size))
      /\ Blocks(cur.size) = cur.size + Len(Padding(cur.size)) /\ i \in Nat
      /\ Len(Padding(cur.size)) \in Nat /\ cur.size \in Nat
      /\ archive[i] = Mark(cur.path, cur.kind, cur.size)
  BY <1>1, AtHeader
<1>3. Length(archive[i]) = 2 + Blocks(cur.size)
  BY <1>2
<1>4. IsHead(archive[i])
  BY <1>1 DEF Stands
<1>5. pos - Behind - BLOCK = i - 1
  BY <1>1, <1>2 DEF BLOCK
<1> QED
  BY <1>1, <1>2, <1>3, <1>4, <1>5

\* The directories stay when a header is worked on.
LEMMA WorkStands ==
    ASSUME IInv, TarInv, RInv, Steady, GivenInv, rpc \notin {"header", "end"},
           Kept(fs, fs', cur)
    PROVE  DirsStand(setup', fs')
<1>1. /\ setup' = setup
      /\ cur.kind = "file" => Tree[cur.path].kind # "dir"
      /\ cur.kind \in {"dir", "link"} => Tree[cur.path].kind = cur.kind
  BY Working
<1>2. cur.kind \in {"link", "file"} => setup.tree[cur.path].kind # "dir"
  BY <1>1 DEF Tree
<1>3. DirsStand(setup, fs)
  BY DEF GivenInv
<1> QED
  BY <1>1, <1>2, <1>3, DirsStay

\* A step that works on with the same header.
LEMMA StillGiven ==
    ASSUME IInv, TarInv, RInv, Steady, GivenInv, rpc \notin {"header", "end"},
           rpc' \notin {"header", "end"}, cur' = cur, pos' - Behind' = pos - Behind,
           Kept(fs, fs', cur), warned \subseteq warned'
    PROVE  GivenInv'
<1>1. DirsStand(setup', fs')
  BY WorkStands
<1>2. /\ setup' = setup /\ archive' = archive /\ written' = written
  BY DEF Steady, backupVars
<1> DEFINE n == Cardinality(written)
<1>3. ASSUME ~Fault("read"), ~Fault("cut"), NEW j \in 1..(pos - Behind - BLOCK), IsHead(archive[j])
      PROVE  Given(setup, n, fs', warned', archive[j]) \/ Redone(cur, archive[j])
  <2>1. Given(setup, n, fs, warned, archive[j]) \/ Redone(cur, archive[j])
    BY <1>3 DEF GivenInv
  <2> HIDE DEF n
  <2> QED
    BY <2>1, KeptGiven
<1> QED
  BY <1>1, <1>2, <1>3 DEF GivenInv, Fault

\* A step to the next header.
LEMMA NextGiven ==
    ASSUME IInv, TarInv, RInv, Steady, GivenInv, rpc \notin {"header", "end"},
           NEW skip \in Nat, skip + Behind = Blocks(cur.size), NextHeader(skip),
           Kept(fs, fs', cur), warned \subseteq warned',
           ~Fault("read") /\ ~Fault("cut") => \A h \in Heads(archive) :
              Redone(cur, h) \/ h = Mark(cur.path, cur.kind, cur.size) =>
                 Given(setup, Cardinality(written), fs', warned', h)
    PROVE  GivenInv'
<1>1. DirsStand(setup', fs')
  BY WorkStands
<1>2. /\ setup' = setup /\ archive' = archive /\ written' = written
      /\ archive \in Seq(Range(archive)) /\ pos \in 0..Len(archive)
      /\ rpc' = "header" /\ pos' = Min({pos + skip, Len(archive)})
  BY DEF IInv, RInv, PlaceInv, Steady, backupVars, NextHeader
<1> DEFINE n == Cardinality(written)
<1>3. ASSUME ~Fault("read"), ~Fault("cut"), NEW j \in 1..pos', IsHead(archive[j])
      PROVE  Given(setup, n, fs', warned', archive[j])
  <2>1. PICK i \in 1..Len(archive) :
              /\ pos - Behind - BLOCK = i - 1 /\ i \in Nat /\ IsHead(archive[i])
              /\ archive[i] = Mark(cur.path, cur.kind, cur.size)
              /\ pos = i - 1 + BLOCK + Behind
              /\ Length(archive[i]) = 2 + Blocks(cur.size)
    BY HeadBehind
  <2>2. /\ Len(archive) \in Nat /\ Behind \in 0..cur.size /\ cur.size \in Nat
        /\ Blocks(cur.size) = cur.size + Len(Padding(cur.size)) /\ Len(Padding(cur.size)) \in Nat
    BY Working
  <2>3. pos + skip = i - 1 + Length(archive[i]) /\ pos + skip \in Nat
    BY <1>2, <2>1, <2>2 DEF BLOCK
  <2>4. pos' \in Nat /\ pos' <= i - 1 + Length(archive[i]) /\ pos' <= Len(archive)
    <3>1. pos' = IF pos + skip <= Len(archive) THEN pos + skip ELSE Len(archive)
      BY <1>2, <2>2, <2>3, Smaller
    <3> QED
      BY <2>2, <2>3, <3>1
  <2>5. j \in 1..Len(archive) /\ j \in Nat /\ j <= i - 1 + Length(archive[i])
    <3> DEFINE e == i - 1 + Length(archive[i])
               m == pos'
    <3>1. m \in Nat /\ m <= e /\ m <= Len(archive) /\ e \in Nat /\ j \in 1..m
      BY <2>3, <2>4
    <3> HIDE DEF e, m
    <3>2. j \in 1..Len(archive) /\ j \in Nat /\ j <= e
      BY <2>2, <3>1
    <3> QED
      BY <3>2 DEF e
  <2>6. j <= i
    <3> SUFFICES ASSUME j > i PROVE FALSE
      BY <2>1, <2>5
    <3>1. j > i - 1 + Length(archive[i])
      BY <1>2, <1>3, <2>1, <2>5, OneHead
    <3>2. i - 1 + Length(archive[i]) \in Nat
      BY <2>3
    <3> DEFINE e == i - 1 + Length(archive[i])
    <3> HIDE DEF e
    <3>3. e \in Nat /\ j <= e /\ j > e /\ j \in Nat
      BY <2>5, <3>1, <3>2 DEF e
    <3> QED
      BY <3>3
  <2>7. archive[j] \in Heads(archive)
    BY <1>3, <2>5 DEF Heads
  <2>8. CASE j = i
    BY <1>3, <2>1, <2>7, <2>8
  <2>9. CASE j # i
    <3>1. j \in 1..(pos - Behind - BLOCK)
      BY <2>1, <2>5, <2>6, <2>9
    <3>2. Given(setup, n, fs, warned, archive[j]) \/ Redone(cur, archive[j])
      BY <1>2, <1>3, <3>1 DEF GivenInv
    <3> HIDE DEF n
    <3>3. Given(setup, n, fs', warned', archive[j]) \/ Redone(cur, archive[j])
      BY <3>2, KeptGiven
    <3> QED
      BY <1>3, <2>7, <3>3 DEF n
  <2> QED
    BY <2>8, <2>9
<1> QED
  BY <1>1, <1>2, <1>3 DEF GivenInv, Fault

\* A restore that gives up.
LEMMA EndGiven ==
    ASSUME Steady, GivenInv, rpc' = "end", ret' = -1, fs' = fs
    PROVE  GivenInv'
<1>1. setup' = setup
  BY DEF Steady
<1> QED
  BY <1>1 DEF GivenInv

\* Every header of a file that is on the modem, or was warned about, is
\* done with.
LEMMA FileGiven ==
    ASSUME IInv, TarInv, RInv, KindsInv, Steady, rpc \notin {"header", "end"}, cur.kind = "file",
           NEW f, NEW w,
           \/ cur.path \in w
           \/ cur.path \in DOMAIN f
                /\ f[cur.path] = [kind |-> "file", data |-> Content(cur.path, cur.size)],
           NEW h \in Heads(archive), h.path = cur.path
    PROVE  Given(setup, Cardinality(written), f, w, h)
<1>1. PICK i \in 1..Len(archive) : /\ IsHead(archive[i])
                                   /\ archive[i] = Mark(cur.path, cur.kind, cur.size)
  BY HeadBehind
<1>2. PICK g \in Heads(archive) : g = archive[i]
  BY <1>1 DEF Heads
<1>3. g.path = cur.path /\ g.kind = "file" /\ g.size = cur.size
  BY <1>1, <1>2 DEF Mark
<1>4. Honest(Tree, g) /\ Honest(Tree, h) /\ Plain(Tree, setup, g) /\ Plain(Tree, setup, h)
  BY DEF TarInv, KindsInv
<1>5. CASE h.kind = "nv"
  BY <1>5 DEF Given
<1>6. CASE h.kind = "file"
  <2>1. h.size = cur.size
    BY <1>3, <1>4, <1>6 DEF Honest
  <2> QED
    BY <1>6, <2>1 DEF Given
<1>7. CASE h.kind \in {"dir", "link"}
  <2>1. h.kind = Tree[cur.path].kind /\ Tree[cur.path].kind # "dir"
    BY <1>3, <1>4, <1>7 DEF Honest
  <2>2. Tree[cur.path].kind = "link" /\ h.kind = "link"
    BY <1>7, <2>1
  <2>3. cur.path \in Range(setup.probes)
    BY <1>3, <1>4, <2>2 DEF Plain
  <2>4. ~Remembers
    BY <1>3, <2>2 DEF KindsInv
  <2>5. Cardinality(written) = setup.capacity
    <3>1. Cardinality(written) <= setup.capacity /\ setup.capacity \in Nat
      BY Trees DEF IInv, WalkInv
    <3>2. Cardinality(written) \in Nat
      <4>1. written \in SUBSET DOMAIN Tree /\ IsFiniteSet(DOMAIN Tree)
        BY Trees DEF IInv, WalkInv, IsTree
      <4> QED
        BY <4>1, FS_Subset, FS_CardinalityType
    <3> QED
      BY <2>4, <3>1, <3>2 DEF Remembers
  <2> QED
    BY <2>2, <2>3, <2>5 DEF Given, Excused, Tree
<1> QED
  BY <1>4, <1>5, <1>6, <1>7 DEF Honest


\* A step that leaves the modem alone keeps it.
LEMMA KeptSame == \A f, k : Kept(f, f, k)
  BY DEF Kept

\* One that puts a node where there was none, or writes a file.
LEMMA KeptPut ==
    ASSUME NEW f, NEW k, NEW node,
           \/ k.path \notin DOMAIN f /\ (k.kind = "link" \/ node = Empty("dir"))
           \/ k.kind = "file"
    PROVE  Kept(f, Put(f, k.path, node), k)
<1> DEFINE g == Put(f, k.path, node)
<1>1. /\ DOMAIN g = DOMAIN f \cup {k.path} /\ g[k.path] = node
      /\ \A q \in DOMAIN f : q # k.path => g[q] = f[q]
  BY DEF Put
<1> HIDE DEF g
<1>2. Kept(f, g, k)
  BY <1>1 DEF Kept
<1> QED
  BY <1>2 DEF g

\* Or makes directories where there was nothing.
LEMMA KeptDirs ==
    ASSUME NEW p, NEW ds, ds \subseteq Missing(p), NEW k
    PROVE  Kept(fs, WithDirs(ds), k)
<1> DEFINE g == WithDirs(ds)
<1>1. /\ DOMAIN g = DOMAIN fs \cup ds
      /\ \A q \in ds : g[q] = Empty("dir")
      /\ \A q \in DOMAIN fs : q \notin ds /\ g[q] = fs[q]
  BY DEF Missing, WithDirs
<1> HIDE DEF g
<1>2. Kept(fs, g, k)
  BY <1>1 DEF Kept
<1> QED
  BY <1>2 DEF g

\* As efs_mkdirp() does.
LEMMA KeptMade ==
    ASSUME NEW p, NEW k
    PROVE  Kept(fs, MakeDirs(p).fs, k)
<1> DEFINE above(d) == {e \in Missing(p) : Len(e) < Len(d)}
           made == {d \in Missing(p) : used + Cardinality(above(d)) < setup.journal}
<1>1. MakeDirs(p).fs = WithDirs(made)
  BY DEF MakeDirs
<1>2. made \subseteq Missing(p)
  OBVIOUS
<1> HIDE DEF made
<1> QED
  BY <1>1, <1>2, KeptDirs

\* Both, one after the other.
LEMMA KeptBoth ==
    ASSUME NEW f, NEW g, NEW h, NEW k, k.kind = "file", Kept(f, g, k), Kept(g, h, k)
    PROVE  Kept(f, h, k)
  BY DEF Kept

\* A header is read, and those before it are given.
LEMMA ReadHeaderGiven ==
    ASSUME IInv, TarInv, RInv, Steady, GivenInv, ReadHeader
    PROVE  GivenInv'
<1>1. /\ RInv' /\ rpc = "header" /\ pos' = pos + 2 /\ fs' = fs /\ warned' = warned
      /\ setup' = setup /\ archive' = archive /\ written' = written /\ pos \in Nat
  <2>1. pos \in Nat
    <3>1. pos \in 0..Len(archive) /\ Len(archive) \in Nat
      BY OverRange DEF RInv, PlaceInv, IInv
    <3> QED
      BY <3>1
  <2> QED
    BY <2>1, ReadHeaderPlaced DEF ReadHeader, BLOCK, Steady, backupVars
<1>2. rpc' \in {"dir", "link", "nv", "file"}
  <2> DEFINE b == Ahead(BLOCK)
             i == pos + 1
             h == archive[i]
  <2>1. Len(b) = 2 /\ IsHeader(b) /\ rpc' = b[1].kind
    BY DEF ReadHeader, BLOCK
  <2>2. b[1] = archive[pos + 1] /\ pos + 1 \in 1..Len(archive)
    <3>1. archive \in Seq(Range(archive)) /\ pos \in 0..Len(archive) /\ 2 \in Nat /\ BLOCK = 2
      BY DEF IInv, RInv, PlaceInv, BLOCK
    <3>2. \A k \in 1..Len(b) : b[k] = archive[pos + k] /\ pos + k \in 1..Len(archive)
      BY <3>1, AheadUnits
    <3> QED
      BY <2>1, <3>2
  <2>3. IsHead(h)
    <3>1. b[1] = Header(b[1].path, b[1].kind, b[1].size)[1] /\ b[1].type = "header"
      BY <2>1 DEF IsHeader
    <3>2. b[1].at = 1
      BY <3>1 DEF Header, BLOCK
    <3> QED
      BY <2>2, <3>1, <3>2 DEF IsHead
  <2> HIDE DEF b
  <2>4. Honest(Tree, h)
    BY <2>2, <2>3 DEF TarInv, Heads
  <2> QED
    BY <2>1, <2>2, <2>4 DEF Honest
<1>3. Behind' = 0 /\ pos' - Behind' - BLOCK = pos
  <2>1. Behind' = 0
    BY <1>2 DEF Behind
  <2> QED
    BY <1>1, <2>1 DEF BLOCK
<1> QED
  BY <1>1, <1>2, <1>3 DEF GivenInv, Fault

\* Behind the end of the archive there are no headers.
LEMMA NoHeaderGiven ==
    ASSUME IInv, TarInv, RInv, ZerosInv, Steady, GivenInv, NoHeader
    PROVE  GivenInv'
<1>1. /\ archive \in Seq(Range(archive)) /\ pos \in 0..Len(archive)
      /\ setup' = setup /\ archive' = archive /\ bpc = "done" /\ written' = written
      /\ rpc = "header" /\ rpc' = "end" /\ fs' = fs /\ warned' = warned
      /\ ret' \in {ret, -1}
  BY DEF IInv, RInv, PlaceInv, Steady, backupVars, NoHeader
<1>2. DirsStand(setup', fs')
  BY <1>1 DEF GivenInv
<1> DEFINE n == Cardinality(written)
           l == Len(archive)
           b == Ahead(BLOCK)
<1>3. ASSUME ~Fault("read"), ~Fault("cut"), ret' = 0, NEW j \in 1..l, IsHead(archive[j])
      PROVE  Given(setup, n, fs, warned, archive[j])
  <2>1. l \in Nat /\ pos \in Nat /\ pos <= l
    BY <1>1, OverRange
  <2>2. CASE j <= pos
    <3>1. j \in 1..pos
      BY <2>1, <2>2
    <3> QED
      BY <1>1, <1>3, <3>1 DEF GivenInv
  <2>3. CASE j > pos
    <3>1. Border(archive, pos) /\ Whole(archive) /\ Sealed(archive)
      <4>1. ~full
        BY <1>1 DEF IInv, CauseInv
      <4> QED
        BY <1>1, <1>3, <4>1 DEF RInv, EndInv, TarInv, ZerosInv
    <3>2. Len(b) < BLOCK \/ b = Zeros(BLOCK)
      <4>1. ret' = 0 /\ 0 # -1
        BY <1>3
      <4> QED
        BY <4>1 DEF NoHeader
    <3>3. 2 \in Nat /\ BLOCK = 2
      BY DEF BLOCK
    <3>4. /\ Len(b) = IF pos + 2 <= l THEN 2 ELSE l - pos
          /\ \A k \in 1..Len(b) : b[k] = archive[pos + k]
      BY <1>1, <3>3, AheadUnits
    <3> HIDE DEF l
    <3>5. CASE pos + 2 <= l
      <4>1. b = Zeros(2) /\ Len(b) = 2
        BY <3>2, <3>3, <3>4, <3>5
      <4>2. Zeros(2)[1] = Zero /\ Zeros(2)[2] = Zero
        BY DEF Zeros
      <4>3. archive[pos + 1] = Zero /\ archive[pos + 2] = Zero
        <5>1. 1 \in 1..Len(b) /\ 2 \in 1..Len(b)
          BY <4>1
        <5> QED
          BY <3>4, <4>1, <4>2, <5>1
      <4> DEFINE i == pos + 1
      <4>4. i \in 1..(l - 1) /\ i + 1 = pos + 2 /\ j \in i..l
        BY <2>1, <2>3, <3>5
      <4> HIDE DEF i
      <4>5. archive[i] = Zero /\ archive[i + 1] = Zero
        BY <4>3, <4>4 DEF i
      <4>6. ~IsHead(archive[j])
        BY <3>1, <4>4, <4>5 DEF Sealed, l
      <4> QED
        BY <1>3, <4>6
    <3>6. CASE ~(pos + 2 <= l)
      <4>1. j = pos + 1 /\ l = pos + 1 /\ j - 1 = pos
        BY <2>1, <2>3, <3>6
      <4>2. archive[j].size \in Nat /\ Border(archive, j - 1 + Length(archive[j]))
        BY <1>3, <3>1 DEF Whole, Formed, l
      <4>3. j - 1 + Length(archive[j]) <= l
        BY <4>2 DEF Border, l
      <4> DEFINE h == archive[j]
      <4>4. Length(h) = 2 + Blocks(h.size) /\ Blocks(h.size) \in Nat
        BY <4>2, Long
      <4> HIDE DEF h
      <4> QED
        BY <2>1, <4>1, <4>3, <4>4 DEF h
    <3> QED
      BY <3>5, <3>6
  <2> QED
    BY <2>1, <2>2, <2>3
<1> QED
  BY <1>1, <1>2, <1>3 DEF GivenInv, Fault

\* A directory is there, or was warned about.
LEMMA MakeDirGiven ==
    ASSUME IInv, TarInv, RInv, KindsInv, Steady, GivenInv, MakeDir
    PROVE  GivenInv'
<1>1. /\ rpc = "dir" /\ rpc \notin {"header", "end"} /\ NextHeader(0)
      /\ cur.kind = "dir"
  BY DEF MakeDir, RInv, PlaceInv
<1>2. /\ cur.size = 0 /\ cur.path \in DOMAIN Tree /\ Tree[cur.path].kind = "dir"
  BY <1>1, Working
<1>3. Behind = 0 /\ Blocks(0) = 0 /\ 0 \in Nat
  BY <1>1, Blocked DEF Behind
<1>4. cur.path # Root
  BY <1>2, Trees DEF IInv, IsTree
<1>5. \/ cur.path \in DOMAIN fs /\ fs' = fs /\ warned' = warned
      \/ cur.path \notin DOMAIN fs /\ fs' = Put(fs, cur.path, Empty("dir")) /\ warned' = warned
      \/ warned' = warned \cup {cur.path} /\ fs' = fs
  BY <1>4 DEF MakeDir, Exists
<1>6. Kept(fs, fs', cur) /\ warned \subseteq warned'
  BY <1>5, KeptSame, KeptPut
<1>7. ASSUME NEW h \in Heads(archive),
             Redone(cur, h) \/ h = Mark(cur.path, cur.kind, cur.size)
      PROVE  Given(setup, Cardinality(written), fs', warned', h)
  <2>1. h.path = cur.path /\ h.kind = "dir" /\ h.size = 0
    BY <1>1, <1>2, <1>7 DEF Redone, Mark
  <2>2. [kind |-> h.kind, data |-> Content(h.path, h.size)] = Empty("dir")
    <3>1. Content(cur.path, 0) = << >>
      BY <1>3, Contents, EmptySeq
    <3> QED
      BY <2>1, <3>1 DEF Empty
  <2>3. CASE cur.path \in DOMAIN fs /\ fs' = fs /\ warned' = warned
    <3>1. fs[cur.path] = Empty("dir") \/ Clash(setup, cur.path)
      BY <1>2, <2>3 DEF GivenInv, DirsStand, Tree
    <3> QED
      BY <2>1, <2>2, <2>3, <3>1 DEF Given, Excused
  <2>4. CASE cur.path \notin DOMAIN fs /\ fs' = Put(fs, cur.path, Empty("dir"))
    <3>1. cur.path \in DOMAIN fs' /\ fs'[cur.path] = Empty("dir")
      BY <2>4, NodePut
    <3> QED
      BY <2>1, <2>2, <3>1 DEF Given
  <2>5. CASE warned' = warned \cup {cur.path}
    BY <2>1, <2>5 DEF Given
  <2> QED
    BY <1>5, <2>3, <2>4, <2>5
<1>8. 0 + Behind = Blocks(cur.size)
  BY <1>2, <1>3
<1> QED
  BY <1>1, <1>3, <1>6, <1>7, <1>8, NextGiven

\* A link is there, or was warned about.
LEMMA MakeLinkGiven ==
    ASSUME IInv, TarInv, RInv, KindsInv, Steady, GivenInv, MakeLink
    PROVE  GivenInv'
<1>1. /\ rpc = "link" /\ rpc \notin {"header", "end"} /\ NextHeader(0)
      /\ cur.kind = "link"
  BY DEF MakeLink, RInv, PlaceInv
<1>2. /\ cur.size = 0 /\ cur.path \in DOMAIN Tree
  BY <1>1, Working
<1>3. Behind = 0 /\ Blocks(0) = 0 /\ 0 \in Nat
  BY <1>1, Blocked DEF Behind
<1>5. \/ cur.path \notin DOMAIN fs /\ fs' = Put(fs, cur.path, Empty("link")) /\ warned' = warned
      \/ warned' = warned \cup {cur.path} /\ fs' = fs
  BY DEF MakeLink, Exists
<1>6. Kept(fs, fs', cur) /\ warned \subseteq warned'
  BY <1>1, <1>5, KeptSame, KeptPut
<1>7. ASSUME NEW h \in Heads(archive),
             Redone(cur, h) \/ h = Mark(cur.path, cur.kind, cur.size)
      PROVE  Given(setup, Cardinality(written), fs', warned', h)
  <2>1. h.path = cur.path /\ h.kind = "link" /\ h.size = 0
    BY <1>1, <1>2, <1>7 DEF Redone, Mark
  <2>2. [kind |-> h.kind, data |-> Content(h.path, h.size)] = Empty("link")
    <3>1. Content(cur.path, 0) = << >>
      BY <1>3, Contents, EmptySeq
    <3> QED
      BY <2>1, <3>1 DEF Empty
  <2>3. CASE cur.path \notin DOMAIN fs /\ fs' = Put(fs, cur.path, Empty("link"))
    <3>1. cur.path \in DOMAIN fs' /\ fs'[cur.path] = Empty("link")
      BY <2>3, NodePut
    <3> QED
      BY <2>1, <2>2, <3>1 DEF Given
  <2>4. CASE warned' = warned \cup {cur.path}
    BY <2>1, <2>4 DEF Given
  <2> QED
    BY <1>5, <2>3, <2>4
<1>8. 0 + Behind = Blocks(cur.size)
  BY <1>2, <1>3
<1> QED
  BY <1>1, <1>3, <1>6, <1>7, <1>8, NextGiven

\* An NV item is not a node.
LEMMA WriteNvGiven ==
    ASSUME IInv, TarInv, RInv, Steady, GivenInv, WriteNv
    PROVE  GivenInv'
<1>1. /\ rpc = "nv" /\ rpc \notin {"header", "end"} /\ cur.kind = "nv"
      /\ fs' = fs /\ warned' = warned
  BY DEF WriteNv, RInv, PlaceInv
<1>2. CASE ret' = -1 /\ rpc' = "end"
  BY <1>1, <1>2, EndGiven
<1>3. CASE NextHeader(Blocks(1))
  <2>1. cur.size = 1 /\ 1 \in Nat
    BY <1>1, Working
  <2>2. Blocks(1) \in Nat /\ Behind = 0 /\ Blocks(1) + Behind = Blocks(cur.size)
    <3>1. Blocks(1) \in Nat /\ Behind = 0
      BY <1>1, <2>1, Blocked DEF Behind
    <3> QED
      BY <2>1, <3>1
  <2>3. ASSUME NEW h \in Heads(archive),
               Redone(cur, h) \/ h = Mark(cur.path, cur.kind, cur.size)
        PROVE  Given(setup, Cardinality(written), fs', warned', h)
    BY <1>1, <2>3 DEF Redone, Mark, Given
  <2>4. Kept(fs, fs', cur) /\ warned \subseteq warned'
    BY <1>1, KeptSame
  <2> QED
    BY <1>1, <1>3, <2>2, <2>3, <2>4, NextGiven
<1> QED
  BY <1>2, <1>3 DEF WriteNv


\* A file that is begun.
LEMMA BeginFileGiven ==
    ASSUME IInv, TarInv, RInv, Steady, GivenInv, BeginFile
    PROVE  GivenInv'
<1>1. /\ rpc = "file" /\ rpc \notin {"header", "end"}
      /\ cur' = cur /\ fs' = fs /\ warned' = warned
  BY DEF BeginFile
<1>2. /\ cur.size \in Nat /\ pos \in 0..Len(archive) /\ archive \in Seq(Range(archive))
      /\ Len(archive) \in Nat
  BY <1>1, Working
<1>3. Kept(fs, fs', cur) /\ warned \subseteq warned'
  BY <1>1, KeptSame
<1> DEFINE b == Ahead(cur.size)
<1>4. Len(b) \in 0..cur.size /\ pos \in Nat
  BY <1>2, AheadUnits
<1>5. \/ rpc' = "large" /\ pos' = pos
      \/ rpc' = "put" /\ pos' = pos + Len(b) /\ ~(Len(b) < cur.size)
      \/ rpc' = "end" /\ ret' = -1
  BY DEF BeginFile
<1> HIDE DEF b
<1>6. Behind = 0
  BY <1>1 DEF Behind
<1>7. CASE rpc' = "large" /\ pos' = pos
  <2>1. Behind' = 0
    BY <1>7 DEF Behind
  <2>2. pos' - Behind' = pos - Behind
    BY <1>6, <1>7, <2>1
  <2> QED
    BY <1>1, <1>3, <1>7, <2>2, StillGiven
<1>8. CASE rpc' = "put" /\ pos' = pos + Len(b) /\ ~(Len(b) < cur.size)
  <2>1. Behind' = cur.size
    BY <1>1, <1>8 DEF Behind
  <2>2. pos' = pos + cur.size
    BY <1>2, <1>4, <1>8
  <2>3. pos' - Behind' = pos - Behind
    BY <1>2, <1>4, <1>6, <2>1, <2>2
  <2> QED
    BY <1>1, <1>3, <1>8, <2>3, StillGiven
<1>9. CASE rpc' = "end" /\ ret' = -1
  BY <1>1, <1>9, EndGiven
<1> QED
  BY <1>5, <1>7, <1>8, <1>9

\* A file that is on the modem, or was warned about, is done with.
LEMMA FileDone ==
    ASSUME IInv, TarInv, RInv, KindsInv, Steady, GivenInv, rpc \notin {"header", "end"},
           cur.kind = "file", NEW skip \in Nat, skip + Behind = Blocks(cur.size),
           NextHeader(skip), Kept(fs, fs', cur), warned \subseteq warned',
           ~Fault("read") /\ ~Fault("cut") =>
              \/ cur.path \in warned'
              \/ cur.path \in DOMAIN fs'
                   /\ fs'[cur.path] = [kind |-> "file", data |-> Content(cur.path, cur.size)]
    PROVE  GivenInv'
<1>1. ASSUME ~Fault("read"), ~Fault("cut"), NEW h \in Heads(archive),
             Redone(cur, h) \/ h = Mark(cur.path, cur.kind, cur.size)
      PROVE  Given(setup, Cardinality(written), fs', warned', h)
  <2>1. h.path = cur.path
    BY <1>1 DEF Redone, Mark
  <2>2. \/ cur.path \in warned'
        \/ cur.path \in DOMAIN fs'
             /\ fs'[cur.path] = [kind |-> "file", data |-> Content(cur.path, cur.size)]
    BY <1>1
  <2> QED
    BY <2>1, <2>2, FileGiven
<1> QED
  BY <1>1, NextGiven

\* The member of a file, and what has been read of it.
LEMMA FileSkip ==
    ASSUME IInv, TarInv, RInv, Steady, rpc \in {"put", "open", "write", "large", "stream"}
    PROVE  /\ cur.kind = "file" /\ cur.size \in Nat
           /\ Blocks(cur.size) \in Nat /\ Len(Padding(cur.size)) \in Nat
           /\ rpc \in {"put", "open", "write"} => Len(Padding(cur.size)) + Behind = Blocks(cur.size)
           /\ rpc = "stream" /\ offset = cur.size => Len(Padding(cur.size)) + Behind = Blocks(cur.size)
           /\ rpc = "large" => Blocks(cur.size) + Behind = Blocks(cur.size)
<1>1. cur.kind = "file"
  BY DEF RInv, PlaceInv
<1>2. /\ cur.size \in Nat /\ Len(Padding(cur.size)) \in Nat
      /\ Blocks(cur.size) = cur.size + Len(Padding(cur.size))
  BY Working
<1>3. /\ rpc \in {"put", "open", "write"} => Behind = cur.size
      /\ rpc = "stream" => Behind = offset
      /\ rpc = "large" => Behind = 0
  BY DEF Behind
<1> QED
  BY <1>1, <1>2, <1>3

\* A file that is written at once.
LEMMA PutItemGiven ==
    ASSUME IInv, TarInv, RInv, KindsInv, Steady, GivenInv, PutItem
    PROVE  GivenInv'
<1>1. /\ rpc = "put" /\ rpc \notin {"header", "end"} /\ NextHeader(Len(Padding(cur.size)))
      /\ fs' = Put(WithDirs(Missing(cur.path)), cur.path, [kind |-> "file", data |-> buffer])
      /\ warned' = warned
  BY DEF PutItem, Written
<1>2. /\ cur.kind = "file" /\ Len(Padding(cur.size)) \in Nat
      /\ Len(Padding(cur.size)) + Behind = Blocks(cur.size)
  BY <1>1, FileSkip
<1> DEFINE g == WithDirs(Missing(cur.path))
<1>3. Kept(fs, fs', cur)
  <2>1. Kept(fs, g, cur)
    BY KeptDirs
  <2> HIDE DEF g
  <2>2. Kept(g, fs', cur)
    BY <1>1, <1>2, KeptPut DEF g
  <2> QED
    BY <1>2, <2>1, <2>2, KeptBoth
<1>4. ~Fault("read") => buffer = Content(cur.path, cur.size)
  BY <1>1 DEF RInv, CopyInv
<1> HIDE DEF g
<1>5. cur.path \in DOMAIN fs' /\ fs'[cur.path] = [kind |-> "file", data |-> buffer]
  BY <1>1, NodePut DEF g
<1>6. ~Fault("read") => cur.path \in DOMAIN fs'
                          /\ fs'[cur.path] = [kind |-> "file", data |-> Content(cur.path, cur.size)]
  BY <1>4, <1>5
<1>7. warned \subseteq warned'
  BY <1>1
<1> QED
  BY <1>1, <1>2, <1>3, <1>6, <1>7, FileDone

\* Otherwise it is opened.
LEMMA PutFailsGiven ==
    ASSUME IInv, TarInv, RInv, Steady, GivenInv, PutFails
    PROVE  GivenInv'
<1>1. /\ rpc = "put" /\ rpc' = "open" /\ UNCHANGED <<pos, cur, fs, warned>>
  BY DEF PutFails
<1>2. pos' - Behind' = pos - Behind
  BY <1>1 DEF Behind
<1>3. Kept(fs, fs', cur) /\ warned \subseteq warned'
  BY <1>1, KeptSame
<1> QED
  BY <1>1, <1>2, <1>3, StillGiven

\* A file is created.
LEMMA OpensGiven ==
    ASSUME IInv, TarInv, RInv, Steady, GivenInv, cur' = cur, pos' = pos, warned' = warned,
           \/ rpc = "open" /\ rpc' = "write"
           \/ rpc = "large" /\ rpc' = "stream",
           Opens(MakeDirs(cur.path))
    PROVE  GivenInv'
<1>1. rpc \notin {"header", "end"} /\ rpc' \notin {"header", "end"}
  OBVIOUS
<1>2. cur.kind = "file"
  BY FileSkip
<1>3. fs' = Put(MakeDirs(cur.path).fs, cur.path, Empty("file")) /\ offset' = 0
  BY DEF Opens
<1>4. Behind' = Behind
  BY <1>3 DEF Behind
<1> DEFINE g == MakeDirs(cur.path).fs
<1>5. Kept(fs, fs', cur)
  <2>1. Kept(fs, g, cur)
    BY KeptMade
  <2> HIDE DEF g
  <2>2. Kept(g, fs', cur)
    BY <1>2, <1>3, KeptPut DEF g
  <2> QED
    BY <1>2, <2>1, <2>2, KeptBoth
<1>6. pos' - Behind' = pos - Behind /\ warned \subseteq warned'
  BY <1>4
<1> QED
  BY <1>1, <1>5, <1>6, StillGiven

\* A small one.
LEMMA OpenSmallGiven ==
    ASSUME IInv, TarInv, RInv, Steady, GivenInv, OpenSmall
    PROVE  GivenInv'
  BY OpensGiven DEF OpenSmall

\* A large one.
LEMMA OpenLargeGiven ==
    ASSUME IInv, TarInv, RInv, Steady, GivenInv, OpenLarge
    PROVE  GivenInv'
  BY OpensGiven DEF OpenLarge

\* An attempt that failed is followed by another one, or by a warning.
LEMMA AttemptGiven ==
    ASSUME IInv, TarInv, RInv, KindsInv, Steady, GivenInv, rpc \in {"open", "write"},
           NEW entries, AttemptFails(entries), cur' = cur, Kept(fs, fs', cur)
    PROVE  GivenInv'
<1>1. /\ cur.kind = "file" /\ Len(Padding(cur.size)) \in Nat
      /\ Len(Padding(cur.size)) + Behind = Blocks(cur.size) /\ rpc \notin {"header", "end"}
  BY FileSkip
<1>2. CASE rpc' = "put" /\ UNCHANGED <<pos, warned>>
  <2>1. Behind' = cur.size /\ Behind = cur.size
    BY <1>2 DEF Behind
  <2>2. pos' - Behind' = pos - Behind /\ warned \subseteq warned'
    BY <1>2, <2>1
  <2> QED
    BY <1>1, <1>2, <2>2, StillGiven
<1>3. CASE warned' = warned \cup {cur.path} /\ NextHeader(Len(Padding(cur.size)))
  <2>1. warned \subseteq warned' /\ cur.path \in warned'
    BY <1>3
  <2> QED
    BY <1>1, <1>3, <2>1, FileDone
<1> QED
  BY <1>2, <1>3 DEF AttemptFails

\* A small file that cannot be created.
LEMMA OpenSmallFailsGiven ==
    ASSUME IInv, TarInv, RInv, KindsInv, Steady, GivenInv, OpenSmallFails
    PROVE  GivenInv'
<1>1. /\ rpc \in {"open", "write"} /\ AttemptFails(MakeDirs(cur.path).used) /\ cur' = cur
      /\ fs' = MakeDirs(cur.path).fs
  BY DEF OpenSmallFails
<1>2. Kept(fs, fs', cur)
  BY <1>1, KeptMade
<1> QED
  BY <1>1, <1>2, AttemptGiven

\* A small file that cannot be written.
LEMMA WriteSmallFailsGiven ==
    ASSUME IInv, TarInv, RInv, KindsInv, Steady, GivenInv, WriteSmallFails
    PROVE  GivenInv'
<1>1. /\ rpc \in {"open", "write"} /\ AttemptFails(used) /\ cur' = cur /\ fs' = fs
  BY DEF WriteSmallFails
<1>2. Kept(fs, fs', cur)
  BY <1>1, KeptSame
<1> QED
  BY <1>1, <1>2, AttemptGiven

\* What the modem takes goes into the file.
LEMMA KeptTakes ==
    ASSUME NEW u, NEW n, Takes(u, n), cur.kind = "file"
    PROVE  Kept(fs, fs', cur)
<1>1. PICK e : fs' = [fs EXCEPT ![cur.path] = e]
  BY DEF Takes
<1>2. DOMAIN fs' = DOMAIN fs /\ \A q \in DOMAIN fs : q # cur.path => fs'[q] = fs[q]
  BY <1>1
<1> QED
  BY <1>2 DEF Kept

\* A part of a small file is written.
LEMMA WriteSmallGiven ==
    ASSUME IInv, TarInv, RInv, Steady, GivenInv, WriteSmall
    PROVE  GivenInv'
<1>1. /\ rpc = "write" /\ rpc' = rpc /\ UNCHANGED <<pos, cur, warned>>
  BY DEF WriteSmall
<1>2. PICK u, n : Takes(u, n)
  BY DEF WriteSmall
<1>3. cur.kind = "file"
  BY <1>1, FileSkip
<1>4. Kept(fs, fs', cur) /\ warned \subseteq warned'
  BY <1>1, <1>2, <1>3, KeptTakes
<1>5. pos' - Behind' = pos - Behind
  BY <1>1 DEF Behind
<1> QED
  BY <1>1, <1>4, <1>5, StillGiven

\* A part of a large one.
LEMMA StreamGiven ==
    ASSUME IInv, TarInv, RInv, Steady, GivenInv, Stream
    PROVE  GivenInv'
<1> DEFINE u == Ahead(Piece)
<1>1. /\ rpc = "stream" /\ rpc' = rpc /\ cur' = cur /\ warned' = warned
  BY DEF Stream
<1>2. PICK n \in 1..Len(u) : Takes(u, n) /\ pos' = pos + n
  BY DEF Stream
<1>3. /\ cur.kind = "file" /\ cur.size \in Nat /\ offset \in 0..cur.size
      /\ pos \in 0..Len(archive) /\ archive \in Seq(Range(archive)) /\ Len(archive) \in Nat
  BY <1>1, FileSkip, Working DEF RInv, PlaceInv
<1>4. Kept(fs, fs', cur) /\ warned \subseteq warned'
  BY <1>1, <1>2, <1>3, KeptTakes
<1>5. Behind' = offset' /\ Behind = offset /\ offset' = offset + n
  BY <1>1, <1>2 DEF Behind, Takes
<1>6. n \in Nat
  <2>1. Piece \in Nat
    BY <1>3, PieceFits
  <2>2. Len(u) \in Nat
    <3>1. Len(u) \in 0..Piece
      BY <1>3, <2>1, AheadUnits
    <3> QED
      BY <2>1, <3>1
  <2> HIDE DEF u
  <2> QED
    BY <2>2
<1>7. pos' - Behind' = pos - Behind
  BY <1>2, <1>3, <1>5, <1>6
<1> QED
  BY <1>1, <1>4, <1>7, StillGiven

\* A large file that cannot be created.
LEMMA OpenLargeFailsGiven ==
    ASSUME IInv, TarInv, RInv, KindsInv, Steady, GivenInv, OpenLargeFails
    PROVE  GivenInv'
<1>1. /\ rpc = "large" /\ rpc \notin {"header", "end"} /\ fs' = MakeDirs(cur.path).fs
      /\ warned' = warned \cup {cur.path} /\ NextHeader(Blocks(cur.size))
  BY DEF OpenLargeFails
<1>2. /\ cur.kind = "file" /\ Blocks(cur.size) \in Nat /\ Blocks(cur.size) + Behind = Blocks(cur.size)
  BY <1>1, FileSkip
<1>3. Kept(fs, fs', cur)
  BY <1>1, KeptMade
<1>4. warned \subseteq warned' /\ cur.path \in warned'
  BY <1>1
<1> QED
  BY <1>1, <1>2, <1>3, <1>4, FileDone

\* A file that was written to its end.
LEMMA CloseGiven ==
    ASSUME IInv, TarInv, RInv, KindsInv, Steady, GivenInv, CloseSmall \/ CloseLarge
    PROVE  GivenInv'
<1>1. /\ rpc \in {"write", "stream"} /\ rpc \notin {"header", "end"} /\ offset = cur.size
      /\ NextHeader(Len(Padding(cur.size))) /\ fs' = fs /\ warned' = warned
  BY DEF CloseSmall, CloseLarge, Written
<1>2. /\ cur.kind = "file" /\ Len(Padding(cur.size)) \in Nat
      /\ Len(Padding(cur.size)) + Behind = Blocks(cur.size)
  BY <1>1, FileSkip
<1>3. Kept(fs, fs', cur) /\ warned \subseteq warned'
  BY <1>1, KeptSame
<1>4. ~Fault("read") => cur.path \in DOMAIN fs'
                          /\ fs'[cur.path] = [kind |-> "file", data |-> Content(cur.path, cur.size)]
  BY <1>1 DEF RInv, CopyInv
<1> QED
  BY <1>1, <1>2, <1>3, <1>4, FileDone

\* A large file that cannot be written.
LEMMA StreamFailsGiven ==
    ASSUME Steady, GivenInv, StreamFails
    PROVE  GivenInv'
  BY EndGiven DEF StreamFails

-----------------------------------------------------------------------------
(* The third invariant holds.                                              *)

\* The restore has not begun, or nothing changes.
LEMMA UnreadGiven ==
    ASSUME GivenInv, UNCHANGED <<setup, restoreVars>>,
           (rpc = "header" /\ pos = 0) \/ UNCHANGED <<archive, written>>
    PROVE  GivenInv'
<1>1. /\ setup' = setup /\ rpc' = rpc /\ pos' = pos /\ fs' = fs /\ warned' = warned
      /\ cur' = cur /\ offset' = offset /\ ret' = ret
  BY DEF restoreVars
<1>2. CASE rpc = "header" /\ pos = 0
  <2>1. 1..0 = {}
    OBVIOUS
  <2> QED
    BY <1>1, <1>2, <2>1 DEF GivenInv
<1>3. CASE UNCHANGED <<archive, written>>
  <2>1. Behind' = Behind
    BY <1>1 DEF Behind
  <2> QED
    BY <1>1, <1>3, <2>1 DEF GivenInv, Fault
<1> QED
  BY <1>2, <1>3

\* Every step of the restore gives what it has read.
LEMMA RestoreGives ==
    ASSUME IInv, TarInv, RInv, KindsInv, ZerosInv, Steady, GivenInv, RestoreNext
    PROVE  GivenInv'
  BY ReadHeaderGiven, NoHeaderGiven, MakeDirGiven, MakeLinkGiven, WriteNvGiven, BeginFileGiven,
     PutItemGiven, PutFailsGiven, OpenSmallGiven, OpenSmallFailsGiven, WriteSmallGiven,
     WriteSmallFailsGiven, CloseGiven, OpenLargeGiven, OpenLargeFailsGiven, StreamGiven,
     StreamFailsGiven
  DEF RestoreNext


\* Every step keeps what was given, the other invariants given.
LEMMA NextGives ==
    ASSUME IInv, TarInv, RInv, KindsInv, ZerosInv, GivenInv, [Next]_vars
    PROVE  GivenInv'
<1>1. CASE Backup
  <2>1. BackupNext /\ setup' = setup /\ restoreVars' = restoreVars
    BY <1>1 DEF Backup
  <2>2. bpc # "done"
    <3>1. CASE \/ OpenDir \/ OpenDirFails \/ ReadDir \/ ReadDirEnds \/ CloseDir
      BY <3>1 DEF OpenDir, OpenDirFails, ReadDir, ReadDirEnds, CloseDir
    <3>2. CASE \/ EnterDir \/ CopyLink \/ OpenFile
      BY <3>2 DEF EnterDir, CopyLink, OpenFile, NextEntry
    <3>3. CASE \/ EntryFails \/ LeaveDir
      BY <3>3 DEF EntryFails, LeaveDir, NextEntry
    <3>4. CASE \/ CopyUnits \/ CopyFails \/ FinishCopy
      BY <3>4 DEF CopyUnits, CopyFails, FinishCopy
    <3>5. CASE \/ ProbeSkips \/ ProbeFile \/ EndArchive
      BY <3>5 DEF ProbeSkips, ProbeFile, EndArchive
    <3> QED
      BY <2>1, <3>1, <3>2, <3>3, <3>4, <3>5 DEF BackupNext
  <2>3. rpc = "header" /\ pos = 0
    BY <2>2 DEF RInv, PlaceInv
  <2> QED
    BY <2>1, <2>3, UnreadGiven
<1>2. CASE Disk \/ UNCHANGED vars
  <2>1. UNCHANGED <<setup, archive, written, restoreVars>>
    BY <1>2 DEF Disk, DiskFills, vars, backupVars
  <2> QED
    BY <2>1, UnreadGiven
<1>3. CASE Cut
  <2>1. rpc = "header" /\ pos = 0 /\ setup' = setup /\ restoreVars' = restoreVars
    BY <1>3 DEF Cut
  <2> QED
    BY <2>1, UnreadGiven
<1>4. CASE Restore
  <2>1. Steady /\ RestoreNext
    BY <1>4 DEF Restore, Steady
  <2> QED
    BY <2>1, RestoreGives
<1> QED
  BY <1>1, <1>2, <1>3, <1>4 DEF Next

\* At the beginning nothing was read, and the modem has its target.
LEMMA RestoreGivesNone ==
    ASSUME Init
    PROVE  GivenInv
<1>1. /\ setup \in Setups /\ rpc = "header" /\ pos = 0 /\ fs = setup.target
  BY DEF Init, RestoreInit
<1>2. IsSetup(setup)
  BY <1>1, EfsConstants
<1>3. \A q \in DOMAIN setup.tree :
         q \in DOMAIN setup.target /\ setup.target[q].kind = "dir" => setup.target[q] = Empty("dir")
  BY <1>2 DEF IsSetup
<1>4. DirsStand(setup, fs)
  BY <1>1, <1>3 DEF DirsStand, Clash
<1>5. 1..0 = {}
  OBVIOUS
<1> QED
  BY <1>1, <1>4, <1>5 DEF GivenInv

\* The backup and the restore, and what goes from one to the other, in every
\* behaviour.
THEOREM Transfer == Spec => [](IInv /\ JInv /\ GInv)
<1>1. Init => IInv /\ JInv /\ GInv
  BY InitHolds, TarInit, RestoreBegins, BackupBegins, RestoreGivesNone DEF JInv, GInv
<1>2. IInv /\ JInv /\ GInv /\ [Next]_vars => IInv' /\ JInv' /\ GInv'
  <2> SUFFICES ASSUME IInv, JInv, GInv, [Next]_vars PROVE IInv' /\ JInv' /\ GInv'
    OBVIOUS
  <2>1. IInv' /\ JInv'
    BY NextKeeps, NextCopies
  <2>2. ReachInv' /\ KindsInv' /\ ZerosInv'
    BY NextReaches, NextKinds, NextZeros DEF GInv
  <2>3. GivenInv'
    BY NextGives DEF GInv, JInv
  <2> QED
    BY <2>1, <2>2, <2>3 DEF GInv
<1> QED
  BY <1>1, <1>2, PTL DEF Spec

(* The archive gives the file system back: when no read failed and the     *)
(* archive is whole, a restore that succeeds leaves every node of the tree *)
(* on the modem, with its contents, except what was left out or warned     *)
(* about, hidden files nobody probed, and the two that are lost in         *)
(* silence: for every tree, every target, every list of probes and every   *)
(* capacity of the path_set.                                               *)
THEOREM RoundTripHolds == Spec => []RoundTrip
<1>1. IInv /\ JInv /\ GInv => RoundTrip
  <2> SUFFICES ASSUME IInv, JInv, GInv, rpc = "end", ret = 0,
                      {Fault("read"), Fault("cut")} = {FALSE}, NEW p \in DOMAIN Tree
               PROVE  \/ (p \in DOMAIN fs /\ fs[p] = Restored(p))
                      \/ p \in skipped \cup warned
                      \/ Unseen(p) \/ Occupied(p) \/ Forgotten(p)
                      \/ setup.nv > 0 /\ Tree[p].kind # "file"
    BY DEF RoundTrip
  <2>1. ~Fault("read") /\ ~Fault("cut")
    OBVIOUS
  <2>2. bpc = "done"
    BY DEF JInv, RInv, PlaceInv
  <2>3. ~full
    BY <2>2 DEF IInv, CauseInv
  <2>4. /\ Tree[p].kind \in {"dir", "link", "file"}
        /\ Tree[p].kind # "file" => Tree[p].size = 0
        /\ setup.nv \in Nat
    <3>1. IsSetup(setup)
      BY EfsConstants DEF IInv
    <3> QED
      BY <3>1 DEF IsSetup, Node, Tree
  <2>5. ASSUME Recorded(Tree, archive, p)
        PROVE  \/ (p \in DOMAIN fs /\ fs[p] = Restored(p)) \/ p \in warned
               \/ Occupied(p) \/ Forgotten(p)
    <3>1. PICK h \in Heads(archive) : h.path = p /\ h.kind = Tree[p].kind
      BY <2>5 DEF Recorded
    <3>2. PICK j \in 1..Len(archive) : IsHead(archive[j]) /\ h = archive[j]
      BY <3>1 DEF Heads
    <3>3. Given(setup, Cardinality(written), fs, warned, archive[j])
      BY <2>1, <3>2 DEF GInv, GivenInv
    <3>4. Given(setup, Cardinality(written), fs, warned, h)
      BY <3>2, <3>3
    <3>5. Honest(Tree, h)
      BY DEF JInv, TarInv
    <3>6. h.size = Tree[p].size /\ h.kind # "nv"
      BY <2>4, <3>1, <3>5 DEF Honest
    <3>7. CASE Excused(setup, Cardinality(written), h.path)
      BY <3>1, <3>7 DEF Excused, Clash, Occupied, Forgotten, Tree
    <3>8. CASE h.path \in DOMAIN fs
                 /\ fs[h.path] = [kind |-> h.kind, data |-> Content(h.path, h.size)]
      BY <3>1, <3>6, <3>8 DEF Restored
    <3> QED
      BY <3>1, <3>4, <3>6, <3>7, <3>8 DEF Given
  <2>6. CASE setup.nv = 0
    <3>1. p \in skipped \/ Unseen(p) \/ Pending(p) \/ Recorded(Tree, archive, p)
      BY <2>1, <2>2, <2>3, <2>6 DEF GInv, ReachInv, Reached
    <3>2. ~Pending(p)
      BY <2>2 DEF Pending
    <3> QED
      BY <2>5, <3>1, <3>2
  <2>7. CASE setup.nv # 0 /\ Tree[p].kind = "file"
    <3>1. Recorded(Tree, archive, p)
      BY <2>1, <2>7 DEF GInv, ReachInv
    <3> QED
      BY <2>5, <3>1
  <2>8. CASE setup.nv # 0 /\ Tree[p].kind # "file"
    BY <2>4, <2>8
  <2> QED
    BY <2>6, <2>7, <2>8
<1> QED
  BY Transfer, <1>1, PTL
=============================================================================
