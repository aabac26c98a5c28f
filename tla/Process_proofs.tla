---------------------------- MODULE Process_proofs ----------------------------
(***************************************************************************)
(* Proofs about Process and its log files.  The files, for any sizes and   *)
(* numbers of days: their steps keep the types, and each is a step of      *)
(* LogStore.  The shutdown, for any files, requests and slow services, and *)
(* any number of signals and writes: it goes through everything that was   *)
(* registered in its order, closes users before what they use and every    *)
(* channel once until a call of a file times out, and the files keep what  *)
(* LogStore promises.                                                      *)
(***************************************************************************)
EXTENDS Process, FiniteSetTheorems, TLAPS

USE LogAssumption DEF Days

(* Whatever a process does to its log files.                               *)
LogNext ==
  \/ \E f \in Files : \/ Open(f) \/ WriteBuffer(f) \/ CloseChannel(f)
                      \/ FlushTick(f) \/ DelTick(f) \/ RunEnds(f)
  \/ Midnight

(* Nothing is of a day to come, and the records in a directory are not     *)
(* younger than its day.                                                   *)
DatesFit ==
  /\ \A f \in Files : \A r \in DOMAIN log[f] : log[f][r] <= today
  /\ \A f \in Files, d \in Days : DOMAIN backups[f][d] # {} => d <= today
  /\ \A f \in Files, d \in Days : \A c \in Range(backups[f][d]) : \A r \in ToSet(c) :
       log[f][r] <= d

(* The copies in a directory are numbered without a gap, so that their     *)
(* count is a number that no copy has.                                     *)
Gapless(copies) == \E n \in Nat : DOMAIN copies = 0..n - 1

(* Only what autoDelDir could not remove has gaps: an old directory, or    *)
(* one of a file whose name is another's and digits.                       *)
Numbered ==
  \A f \in Files, d \in Days :
    faults = 0 \/ (Alike = {} /\ d \in LatestDays) => Gapless(backups[f][d])

LogInv == LogTypeOK /\ DatesFit /\ Numbered

-----------------------------------------------------------------------------
(* Sequences and their elements.                                           *)

LEMMA NoElements == ASSUME NEW S PROVE <<>> \in Seq(S) /\ ToSet(<<>>) = {}
BY DEF ToSet

LEMMA Appended ==
  ASSUME NEW S, NEW s \in Seq(S), NEW x \in S
  PROVE  Append(s, x) \in Seq(S) /\ ToSet(Append(s, x)) = ToSet(s) \cup {x}
<1>1. /\ \A i \in DOMAIN s : i \in DOMAIN Append(s, x) /\ Append(s, x)[i] = s[i]
      /\ Len(s) + 1 \in DOMAIN Append(s, x) /\ Append(s, x)[Len(s) + 1] = x
      /\ \A i \in DOMAIN Append(s, x) : i \in DOMAIN s \/ i = Len(s) + 1
  OBVIOUS
<1>. QED BY <1>1 DEF ToSet

LEMMA Concatenated ==
  ASSUME NEW S, NEW s \in Seq(S), NEW t \in Seq(S)
  PROVE  s \o t \in Seq(S) /\ ToSet(s \o t) = ToSet(s) \cup ToSet(t)
<1>1. /\ \A i \in DOMAIN s : i \in DOMAIN (s \o t) /\ (s \o t)[i] = s[i]
      /\ \A i \in DOMAIN t : Len(s) + i \in DOMAIN (s \o t) /\ (s \o t)[Len(s) + i] = t[i]
      /\ \A i \in DOMAIN (s \o t) : i \in DOMAIN s \/ i - Len(s) \in DOMAIN t
  OBVIOUS
<1>2. ASSUME NEW i \in DOMAIN (s \o t) PROVE (s \o t)[i] \in ToSet(s) \cup ToSet(t)
  <2>1. CASE i \in DOMAIN s BY <1>1, <2>1 DEF ToSet
  <2>2. CASE i - Len(s) \in DOMAIN t
    <3>1. (s \o t)[i] = t[i - Len(s)] BY <2>2
    <3>. QED BY <2>2, <3>1 DEF ToSet
  <2>. QED BY <1>1, <2>1, <2>2
<1>3. ToSet(s \o t) \subseteq ToSet(s) \cup ToSet(t)
  BY <1>2 DEF ToSet
<1>4. ASSUME NEW i \in DOMAIN s PROVE s[i] \in ToSet(s \o t)
  BY <1>1 DEF ToSet
<1>5. ASSUME NEW i \in DOMAIN t PROVE t[i] \in ToSet(s \o t)
  BY <1>1 DEF ToSet
<1>6. ToSet(s) \cup ToSet(t) \subseteq ToSet(s \o t)
  BY <1>4, <1>5 DEF ToSet
<1>. QED BY <1>3, <1>6

LEMMA AppendLater ==
  ASSUME NEW S, NEW s \in Seq(S), NEW t \in Seq(S), NEW x
  PROVE  s \o Append(t, x) = Append(s \o t, x)
<1> DEFINE T == S \cup {x}
           u == s \o Append(t, x)
           v == Append(s \o t, x)
<1>1. /\ s \in Seq(T) /\ t \in Seq(T) /\ Append(t, x) \in Seq(T) /\ s \o t \in Seq(T)
      /\ Len(s \o t) = Len(s) + Len(t)
  <2>1. s \in Seq(T) /\ t \in Seq(T) /\ x \in T OBVIOUS
  <2>. HIDE DEF T
  <2>. QED BY <2>1
<1>2. x \in T OBVIOUS
<1>. HIDE DEF T
<1>3. u \in Seq(T) /\ v \in Seq(T) /\ Len(u) = Len(v)
  BY <1>1, <1>2
<1>4. ASSUME NEW i \in 1..Len(u) PROVE u[i] = v[i]
  BY <1>1, <1>2, <1>4
<1>. HIDE DEF u, v
<1>5. u = v BY <1>3, <1>4
<1>. QED BY <1>5 DEF u, v

(* A write that is cut short leaves a prefix.                              *)
LEMMA PartElements ==
  ASSUME NEW S, NEW s \in Seq(S), NEW t \in Parts(s)
  PROVE  t \in Seq(S) /\ ToSet(t) \subseteq ToSet(s)
<1>1. PICK n \in 0..Len(s) - 1 : t = SubSeq(s, 1, n) BY DEF Parts
<1>2. Len(t) = n /\ t \in Seq(S) /\ \A i \in 1..n : i \in DOMAIN s /\ t[i] = s[i] BY <1>1
<1>. QED BY <1>2 DEF ToSet

-----------------------------------------------------------------------------
(* Files and buffers.                                                      *)

(* A copy is added to a directory, and replaces none if its numbers have   *)
(* no gap.                                                                 *)
LEMMA CopyAdded ==
  ASSUME NEW copies, IsDirectory(copies), NEW c \in Seq(Nat)
  PROVE  /\ CountFile(copies) \in Nat /\ IsDirectory(WithCopy(copies, c))
         /\ DOMAIN WithCopy(copies, c) = DOMAIN copies \cup {CountFile(copies)}
         /\ WithCopy(copies, c)[CountFile(copies)] = c
         /\ \A n \in DOMAIN copies : n # CountFile(copies) => WithCopy(copies, c)[n] = copies[n]
         /\ c \in Range(WithCopy(copies, c))
         /\ Range(WithCopy(copies, c)) \subseteq Range(copies) \cup {c}
<1> DEFINE k == CountFile(copies)
           new == WithCopy(copies, c)
<1>1. IsFiniteSet(DOMAIN copies) /\ DOMAIN copies \subseteq Nat /\ copies \in [DOMAIN copies -> Seq(Nat)]
  BY DEF IsDirectory
<1>2. k \in Nat BY <1>1, FS_CardinalityType DEF CountFile
<1>3. /\ DOMAIN new = DOMAIN copies \cup {k} /\ new[k] = c
      /\ \A n \in DOMAIN copies : n # k => new[n] = copies[n]
      /\ new \in [DOMAIN new -> Seq(Nat)]
  <2>. HIDE DEF k
  <2>. QED BY <1>1 DEF WithCopy, k
<1>. HIDE DEF k, new
<1>4. IsFiniteSet(DOMAIN new)
  <2>1. IsFiniteSet((DOMAIN copies) \cup {k}) BY <1>1, FS_AddElement
  <2>. QED BY <1>3, <2>1
<1>5. IsDirectory(new) BY <1>1, <1>2, <1>3, <1>4 DEF IsDirectory
<1>6. c \in Range(new) /\ Range(new) \subseteq Range(copies) \cup {c}
  BY <1>3 DEF Range
<1>. QED BY <1>2, <1>3, <1>5, <1>6 DEF k, new

LEMMA CopyIsNew ==
  ASSUME NEW copies, IsDirectory(copies), Gapless(copies), NEW c \in Seq(Nat)
  PROVE  /\ \A n \in DOMAIN copies : n < CountFile(copies)
         /\ Gapless(WithCopy(copies, c))
         /\ Range(copies) \subseteq Range(WithCopy(copies, c))
         /\ \A n \in DOMAIN copies : WithCopy(copies, c)[n] = copies[n]
<1>1. PICK n \in Nat : DOMAIN copies = 0..n - 1 BY DEF Gapless
<1>2. Cardinality(0..n - 1) = n
  <2>1. 0 \in Int /\ n - 1 \in Int OBVIOUS
  <2>2. Cardinality(0..n - 1) = IF 0 > n - 1 THEN 0 ELSE (n - 1) - 0 + 1 BY <2>1, FS_Interval
  <2>. QED BY <2>2
<1>3. CountFile(copies) = n BY <1>1, <1>2 DEF CountFile
<1>4. \A i \in DOMAIN copies : i < n BY <1>1
<1>5. DOMAIN WithCopy(copies, c) = 0..(n + 1) - 1
  <2>1. DOMAIN WithCopy(copies, c) = (0..n - 1) \cup {n} BY <1>1, <1>3, CopyAdded
  <2>. QED BY <2>1
<1>6. Gapless(WithCopy(copies, c)) BY <1>5 DEF Gapless
<1>7. ASSUME NEW i \in DOMAIN copies
      PROVE  i \in DOMAIN WithCopy(copies, c) /\ WithCopy(copies, c)[i] = copies[i]
  <2>1. i < n /\ n \in Nat BY <1>4
  <2>2. i # n BY <2>1
  <2>3. i # CountFile(copies) BY <1>3, <2>2
  <2>4. \A k \in DOMAIN copies : k # CountFile(copies) => WithCopy(copies, c)[k] = copies[k]
    BY CopyAdded, Zenon
  <2>5. DOMAIN WithCopy(copies, c) = DOMAIN copies \cup {CountFile(copies)}
    BY CopyAdded, Zenon
  <2>. QED BY <2>3, <2>4, <2>5, Zenon
<1>8. Range(copies) \subseteq Range(WithCopy(copies, c))
  <2>. HIDE DEF WithCopy
  <2>. QED BY <1>7 DEF Range
<1>. QED BY <1>3, <1>4, <1>6, <1>7, <1>8

(* A copy of records goes into today's directory.                          *)
CopiedTo(f, c) == backups' = [backups EXCEPT ![f][today] = WithCopy(@, c)]

LEMMA BackupAdded ==
  ASSUME LogTypeOK, NEW f \in Files, NEW c \in Seq(Nat), CopiedTo(f, c)
  PROVE  /\ backups' = [g \in Files |-> [d \in Days |-> backups'[g][d]]]
         /\ \A g \in Files, d \in Days : IsDirectory(backups'[g][d])
         /\ \A g \in Files : g # f => backups'[g] = backups[g]
         /\ \A d \in Days : d # today => backups'[f][d] = backups[f][d]
         /\ backups'[f][today] = WithCopy(backups[f][today], c)
         /\ ToSet(c) \subseteq (InBackups(f))'
         /\ (InBackups(f))' \subseteq InBackups(f) \cup ToSet(c)
         /\ Gapless(backups[f][today]) => InBackups(f) \subseteq (InBackups(f))'
<1> DEFINE Dirs == {backups[g][d] : g \in Files, d \in Days}
           new == WithCopy(backups[f][today], c)
<1>1. today \in Days /\ \A g \in Files, d \in Days : IsDirectory(backups[g][d])
  BY DEF LogTypeOK
<1>2. backups \in [Files -> [Days -> Dirs]]
  <2>1. backups = [g \in Files |-> [d \in Days |-> backups[g][d]]] BY DEF LogTypeOK
  <2>2. \A g \in Files, d \in Days : backups[g][d] \in Dirs OBVIOUS
  <2>. HIDE DEF Dirs, Days
  <2>. QED BY <2>1, <2>2
<1>3. IsDirectory(new) /\ c \in Range(new) /\ Range(new) \subseteq Range(backups[f][today]) \cup {c}
  BY <1>1, CopyAdded
<1>. HIDE DEF Dirs
<1>4. /\ backups' \in [Files -> [Days -> Dirs \cup {new}]]
      /\ \A g \in Files : g # f => backups'[g] = backups[g]
      /\ \A d \in Days : d # today => backups'[f][d] = backups[f][d]
      /\ backups'[f][today] = new
  <2>. HIDE DEF new, Days
  <2>. QED BY <1>1, <1>2 DEF CopiedTo, new
<1>5. backups' = [g \in Files |-> [d \in Days |-> backups'[g][d]]]
  <2>. HIDE DEF new, Days
  <2>. QED BY <1>4
<1>. HIDE DEF new
<1>6. \A g \in Files, d \in Days : IsDirectory(backups'[g][d])
  BY <1>1, <1>3, <1>4
<1>7. ToSet(c) \subseteq (InBackups(f))' BY <1>1, <1>3, <1>4 DEF InBackups
<1>8. ASSUME NEW r \in (InBackups(f))', r \notin ToSet(c) PROVE r \in InBackups(f)
  <2>1. PICK d \in Days : \E k \in Range(backups'[f][d]) : r \in ToSet(k)
    BY <1>8 DEF InBackups
  <2>2. \E k \in Range(backups[f][d]) : r \in ToSet(k)
    BY <1>3, <1>4, <1>8, <2>1
  <2>. QED BY <2>2 DEF InBackups
<1>9. ASSUME Gapless(backups[f][today]), NEW r \in InBackups(f) PROVE r \in (InBackups(f))'
  <2>1. PICK d \in Days : \E k \in Range(backups[f][d]) : r \in ToSet(k)
    BY <1>9 DEF InBackups
  <2>2. Range(backups[f][today]) \subseteq Range(new)
    BY <1>1, <1>9, CopyIsNew DEF new
  <2>3. \E k \in Range(backups'[f][d]) : r \in ToSet(k)
    BY <1>4, <2>1, <2>2
  <2>. QED BY <2>3 DEF InBackups
<1>. QED BY <1>4, <1>5, <1>6, <1>7, <1>8, <1>9 DEF new

(* What becomes of the records of a buffer b that is flushed: none is      *)
(* lost, and none is made up.                                              *)
FlushedTo(f, b) ==
  /\ buf' = [buf EXCEPT ![f] = buf'[f]] /\ buf'[f] \in {b, <<>>}
  /\ file' = [file EXCEPT ![f] = file'[f]] /\ file'[f] \in Seq(Nat)
  /\ ToSet(file'[f]) \subseteq ToSet(file[f]) \cup ToSet(b)
  /\ \/ backups' = backups
     \/ \E c \in Seq(Nat) : ToSet(c) \subseteq ToSet(file[f]) \cup ToSet(b) /\ CopiedTo(f, c)
  /\ ToSet(file[f]) \subseteq (OnDisk(f))' /\ ToSet(b) \subseteq (Kept(f))'
  /\ UNCHANGED faults \/ Fails

LEMMA FlushMoves ==
  ASSUME LogTypeOK, NEW f \in Files, NEW b \in Seq(Nat), Flush(f, b)
  PROVE  FlushedTo(f, b)
<1> DEFINE c == file[f] \o b
<1>1. file[f] \in Seq(Nat) /\ c \in Seq(Nat) /\ ToSet(c) = ToSet(file[f]) \cup ToSet(b)
  <2>1. file[f] \in Seq(Nat) BY DEF LogTypeOK
  <2>. QED BY <2>1, Concatenated
<1>. HIDE DEF c
<1>2. CASE Flushes(f, b) /\ file' = [file EXCEPT ![f] = c] /\ UNCHANGED <<backups, faults>>
  <2>1. buf' = [buf EXCEPT ![f] = <<>>] BY <1>2 DEF Flushes
  <2>2. buf'[f] = <<>> /\ file'[f] = c BY <1>2, <2>1 DEF LogTypeOK
  <2>. QED BY <1>1, <1>2, <2>1, <2>2 DEF FlushedTo, Kept, OnDisk
<1>3. CASE Flushes(f, b) /\ Copies(f, c)
  <2>1. buf' = [buf EXCEPT ![f] = <<>>] /\ buf'[f] = <<>> BY <1>3 DEF Flushes, LogTypeOK
  <2>2. PICK t \in {<<>>, c} : file' = [file EXCEPT ![f] = t]
    BY <1>3 DEF Copies
  <2>3. t \in Seq(Nat) /\ ToSet(t) \subseteq ToSet(c) /\ file'[f] = t
    <3>1. t \in Seq(Nat) /\ ToSet(t) \subseteq ToSet(c) BY <1>1, NoElements
    <3>. QED BY <2>2, <3>1 DEF LogTypeOK
  <2>4. CopiedTo(f, c) /\ (UNCHANGED faults \/ Fails)
    BY <1>3 DEF Copies, CopiedTo
  <2>5. ToSet(c) \subseteq (InBackups(f))'
    BY <1>1, <2>4, BackupAdded
  <2>. QED BY <1>1, <2>1, <2>2, <2>3, <2>4, <2>5 DEF FlushedTo, Kept, OnDisk
<1>4. CASE ~fd[f] /\ buf' = [buf EXCEPT ![f] = b] /\ UNCHANGED <<file, backups, faults>>
  <2>1. buf'[f] = b /\ file' = [file EXCEPT ![f] = file'[f]] BY <1>4 DEF LogTypeOK
  <2>. QED BY <1>1, <1>4, <2>1 DEF FlushedTo, Kept, OnDisk
<1>5. ASSUME Fails, NEW part \in Parts(b), file' = [file EXCEPT ![f] = @ \o part],
             buf' = [buf EXCEPT ![f] = b], UNCHANGED backups
      PROVE  FlushedTo(f, b)
  <2>1. part \in Seq(Nat) /\ ToSet(part) \subseteq ToSet(b) BY PartElements
  <2>2. file'[f] = file[f] \o part /\ buf'[f] = b BY <1>5 DEF LogTypeOK
  <2>3. file'[f] \in Seq(Nat) /\ ToSet(file'[f]) = ToSet(file[f]) \cup ToSet(part)
    BY <1>1, <2>1, <2>2, Concatenated
  <2>. QED BY <1>5, <2>1, <2>2, <2>3 DEF FlushedTo, Kept, OnDisk
<1>6. ASSUME CopyFails(f, c), buf' = [buf EXCEPT ![f] = <<>>]
      PROVE  FlushedTo(f, b)
  <2>1. file' = [file EXCEPT ![f] = c] /\ Fails BY <1>6 DEF CopyFails
  <2>2. file'[f] = c /\ buf'[f] = <<>> BY <1>6, <2>1 DEF LogTypeOK
  <2>3. \/ backups' = backups
        \/ \E t \in Seq(Nat) : ToSet(t) \subseteq ToSet(file[f]) \cup ToSet(b) /\ CopiedTo(f, t)
    <3>1. CASE backups' = backups BY <3>1
    <3>2. CASE \E part \in Parts(c) : CopiedTo(f, part)
      <4>1. PICK part \in Parts(c) : CopiedTo(f, part) BY <3>2
      <4>2. part \in Seq(Nat) /\ ToSet(part) \subseteq ToSet(c) BY <1>1, PartElements
      <4>. QED BY <1>1, <4>1, <4>2
    <3>. QED BY <1>6, <3>1, <3>2 DEF CopyFails, CopiedTo
  <2>. QED BY <1>1, <1>6, <2>1, <2>2, <2>3 DEF FlushedTo, Kept, OnDisk
<1>. QED
  BY <1>2, <1>3, <1>4, <1>5, <1>6 DEF Flush, Flushes, FlushFails, c

(* A flush changes the files of f only, and loses nothing of them unless a *)
(* copy is overwritten.                                                    *)
LEMMA FlushContents ==
  ASSUME LogTypeOK, NEW f \in Files, NEW b \in Seq(Nat), FlushedTo(f, b)
  PROVE  /\ buf' \in [Files -> Seq(Nat)] /\ file' \in [Files -> Seq(Nat)]
         /\ backups' = [g \in Files |-> [d \in Days |-> backups'[g][d]]]
         /\ \A g \in Files, d \in Days : IsDirectory(backups'[g][d])
         /\ \A g \in Files : g # f => /\ buf'[g] = buf[g] /\ file'[g] = file[g]
                                      /\ backups'[g] = backups[g]
                                      /\ (OnDisk(g))' = OnDisk(g) /\ (Kept(g))' = Kept(g)
         /\ (Kept(f))' \subseteq Kept(f) \cup ToSet(b)
         /\ (OnDisk(f))' \subseteq OnDisk(f) \cup ToSet(b) /\ ToSet(buf'[f]) \subseteq ToSet(b)
         /\ Gapless(backups[f][today]) => OnDisk(f) \subseteq (OnDisk(f))'
         /\ \A d \in Days : \A c \in Range(backups'[f][d]) :
              \/ c \in Range(backups[f][d])
              \/ d = today /\ ToSet(c) \subseteq ToSet(file[f]) \cup ToSet(b)
         /\ \A d \in Days : d # today => backups'[f][d] = backups[f][d]
         /\ Gapless(backups[f][today]) => Gapless(backups'[f][today])
<1>1. /\ buf' \in [Files -> Seq(Nat)] /\ file' \in [Files -> Seq(Nat)]
      /\ \A g \in Files : g # f => buf'[g] = buf[g] /\ file'[g] = file[g]
  <2>1. buf'[f] \in Seq(Nat) BY NoElements DEF FlushedTo
  <2>. QED BY <2>1 DEF FlushedTo, LogTypeOK
<1>2. ToSet(buf'[f]) \subseteq ToSet(b)
  BY NoElements DEF FlushedTo
<1>3. /\ backups' = [g \in Files |-> [d \in Days |-> backups'[g][d]]]
      /\ \A g \in Files, d \in Days : IsDirectory(backups'[g][d])
      /\ \A g \in Files : g # f => backups'[g] = backups[g]
      /\ Gapless(backups[f][today]) => InBackups(f) \subseteq (InBackups(f))'
      /\ (InBackups(f))' \subseteq InBackups(f) \cup ToSet(file[f]) \cup ToSet(b)
      /\ \A d \in Days : \A c \in Range(backups'[f][d]) :
           \/ c \in Range(backups[f][d])
           \/ d = today /\ ToSet(c) \subseteq ToSet(file[f]) \cup ToSet(b)
      /\ \A d \in Days : d # today => backups'[f][d] = backups[f][d]
      /\ Gapless(backups[f][today]) => Gapless(backups'[f][today])
  <2>. HIDE DEF ToSet
  <2>1. CASE backups' = backups
    <3>1. (InBackups(f))' = InBackups(f) BY <2>1, Zenon DEF InBackups
    <3>. QED BY <2>1, <3>1 DEF LogTypeOK
  <2>2. CASE backups' # backups
    <3>1. PICK c \in Seq(Nat) : /\ ToSet(c) \subseteq ToSet(file[f]) \cup ToSet(b)
                                /\ CopiedTo(f, c)
      BY <2>2 DEF FlushedTo
    <3>2. IsDirectory(backups[f][today]) /\ today \in Days BY DEF LogTypeOK
    <3>3. Range(WithCopy(backups[f][today], c)) \subseteq Range(backups[f][today]) \cup {c}
      BY <3>2, CopyAdded
    <3>4. ASSUME NEW d \in Days, NEW k \in Range(backups'[f][d])
          PROVE  \/ k \in Range(backups[f][d])
                 \/ d = today /\ ToSet(k) \subseteq ToSet(file[f]) \cup ToSet(b)
      BY <3>1, <3>3, <3>4, BackupAdded
    <3>5. Gapless(backups[f][today]) => Gapless(backups'[f][today])
      BY <3>1, <3>2, BackupAdded, CopyIsNew
    <3>. QED BY <3>1, <3>4, <3>5, BackupAdded
  <2>. QED BY <2>1, <2>2
<1>4. ASSUME NEW g \in Files, g # f PROVE (InBackups(g))' = InBackups(g)
  <2>1. backups'[g] = backups[g] BY <1>3, <1>4
  <2>. QED BY <2>1, Zenon DEF InBackups
<1>5. ASSUME NEW g \in Files, g # f PROVE (OnDisk(g))' = OnDisk(g) /\ (Kept(g))' = Kept(g)
  BY <1>1, <1>4, <1>5 DEF OnDisk, Kept
<1>. QED BY <1>1, <1>2, <1>3, <1>5 DEF FlushedTo, OnDisk, Kept

-----------------------------------------------------------------------------
(* The steps.                                                              *)

(* The log of f, and of no other file, has grown.                          *)
Grows(f) ==
  /\ log' \in [Files -> Seq(Days)] /\ today' = today
  /\ \A g \in Files : g # f => log'[g] = log[g]
  /\ \A r \in DOMAIN log[f] : r \in DOMAIN log'[f] /\ log'[f][r] = log[f][r]
  /\ \A r \in DOMAIN log'[f] : log'[f][r] <= today

ControlOK ==
  /\ closed \in [Files -> BOOLEAN] /\ fd \in [Files -> BOOLEAN]
  /\ runner \in [Files -> {"none", "running", "ended"}]

LEMMA FlushInv ==
  ASSUME LogInv, NEW f \in Files, NEW b \in Seq(Nat), FlushedTo(f, b), Grows(f),
         ToSet(b) \subseteq DOMAIN log'[f], ControlOK'
  PROVE  LogInv'
<1> USE DEF LogInv
<1>1. LogTypeOK'
  <2>1. ASSUME NEW g \in Files PROVE (Kept(g))' \subseteq DOMAIN log'[g]
    <3>1. Kept(g) \subseteq DOMAIN log[g] BY DEF LogTypeOK
    <3>2. CASE g = f
      <4>1. DOMAIN log[f] \subseteq DOMAIN log'[f] BY DEF Grows
      <4>. QED BY <3>1, <3>2, <4>1, FlushContents
    <3>3. CASE g # f BY <3>1, <3>3, FlushContents DEF Grows
    <3>. QED BY <3>2, <3>3
  <2>2. today' \in Days /\ log' \in [Files -> Seq(Days)] /\ faults' \in 0..MaxFaults
    <3>1. faults \in 0..MaxFaults /\ (UNCHANGED faults \/ Fails) BY DEF LogTypeOK, FlushedTo
    <3>2. faults' \in 0..MaxFaults BY <3>1 DEF Fails
    <3>. QED BY <3>2 DEF Grows, LogTypeOK
  <2>. QED BY <2>1, <2>2, FlushContents DEF LogTypeOK, ControlOK
<1>2. \A g \in Files : \A r \in DOMAIN log'[g] : log'[g][r] <= today'
  BY DEF Grows, DatesFit
<1>3. ASSUME NEW g \in Files, NEW d \in Days, DOMAIN backups'[g][d] # {} PROVE d <= today'
  <2>1. today \in Nat /\ today' = today BY DEF LogTypeOK, Grows
  <2>2. CASE d = today BY <2>1, <2>2
  <2>3. CASE d # today
    <3>1. backups'[g][d] = backups[g][d] BY <2>3, FlushContents
    <3>. QED BY <1>3, <2>1, <3>1 DEF DatesFit
  <2>. QED BY <2>2, <2>3
<1>4. ASSUME NEW g \in Files, NEW d \in Days, NEW c \in Range(backups'[g][d]), NEW r \in ToSet(c)
      PROVE  log'[g][r] <= d
  <2>1. CASE c \in Range(backups[g][d])
    <3>1. log[g][r] <= d BY <2>1 DEF DatesFit
    <3>2. r \in Kept(g) BY <2>1 DEF Kept, OnDisk, InBackups
    <3>3. log'[g][r] = log[g][r] BY <3>2 DEF Grows, LogTypeOK
    <3>. QED BY <3>1, <3>3
  <2>2. CASE c \notin Range(backups[g][d])
    <3>1. g = f /\ d = today /\ ToSet(c) \subseteq ToSet(file[f]) \cup ToSet(b)
      BY <2>2, FlushContents
    <3>2. ToSet(file[f]) \subseteq Kept(f) BY DEF Kept, OnDisk
    <3>3. r \in DOMAIN log'[f] BY <3>1, <3>2 DEF Grows, LogTypeOK
    <3>. QED BY <3>1, <3>3 DEF Grows
  <2>. QED BY <2>1, <2>2
<1>5. ASSUME NEW g \in Files, NEW d \in Days,
             faults' = 0 \/ (Alike = {} /\ d \in LatestDays')
      PROVE  Gapless(backups'[g][d])
  <2>1. faults' = 0 => faults = 0 BY DEF FlushedTo, Fails, LogTypeOK
  <2>2. LatestDays' = LatestDays BY DEF Grows, LatestDays
  <2>3. Gapless(backups[g][d]) BY <1>5, <2>1, <2>2 DEF Numbered
  <2>4. CASE g = f /\ d = today BY <2>3, <2>4, FlushContents
  <2>5. CASE ~ (g = f /\ d = today)
    <3>1. backups'[g][d] = backups[g][d] BY <2>5, FlushContents
    <3>. QED BY <2>3, <3>1
  <2>. QED BY <2>4, <2>5
<1>. QED BY <1>1, <1>2, <1>3, <1>4, <1>5 DEF DatesFit, Numbered

(* Write, whether it flushes or not.                                       *)
LEMMA WriteMoves ==
  ASSUME LogInv, NEW f \in Files, WriteBuffer(f)
  PROVE  \E b \in Seq(Nat) :
           /\ FlushedTo(f, b) /\ Grows(f) /\ ControlOK'
           /\ ToSet(b) = ToSet(buf[f]) \cup {Len(log'[f])}
           /\ ToSet(b) \subseteq DOMAIN log'[f] /\ log'[f] = Append(log[f], today)
<1> USE DEF LogInv
<1> DEFINE b == Append(buf[f], Len(log'[f]))
<1>1. /\ log[f] \in Seq(Days) /\ today \in Days /\ buf[f] \in Seq(Nat) /\ file[f] \in Seq(Nat)
      /\ log' = [log EXCEPT ![f] = Append(@, today)] /\ log'[f] = Append(log[f], today)
      /\ UNCHANGED <<today, closed, fd, runner>>
  BY DEF LogTypeOK, WriteBuffer
<1>2. /\ log' \in [Files -> Seq(Days)] /\ Len(log'[f]) = Len(log[f]) + 1
      /\ \A r \in DOMAIN log'[f] : r \in DOMAIN log[f] \/ r = Len(log'[f])
      /\ Len(log'[f]) \in DOMAIN log'[f] /\ log'[f][Len(log'[f])] = today
      /\ \A r \in DOMAIN log[f] : r \in DOMAIN log'[f] /\ log'[f][r] = log[f][r]
  <2>1. Append(log[f], today) \in Seq(Days) BY <1>1
  <2>2. log' \in [Files -> Seq(Days)] BY <1>1, <2>1 DEF LogTypeOK
  <2>. QED BY <1>1, <2>2
<1>3. Grows(f)
  BY <1>1, <1>2 DEF Grows, LogTypeOK, DatesFit
<1>4. b \in Seq(Nat) /\ ToSet(b) = ToSet(buf[f]) \cup {Len(log'[f])}
  <2>1. Len(log'[f]) \in Nat BY <1>1, <1>2
  <2>2. buf[f] \in Seq(Nat) BY <1>1
  <2>3. ASSUME NEW x \in Nat
        PROVE  /\ Append(buf[f], x) \in Seq(Nat)
               /\ ToSet(Append(buf[f], x)) = ToSet(buf[f]) \cup {x}
    BY <2>2, Appended, Zenon
  <2>. QED BY <2>1, <2>3
<1>5. ToSet(buf[f]) \subseteq DOMAIN log[f]
  BY DEF LogTypeOK, Kept
<1>6. FlushedTo(f, b)
  <2>1. CASE Flush(f, b) BY <1>4, <2>1, FlushMoves
  <2>2. CASE buf' = [buf EXCEPT ![f] = b] /\ UNCHANGED <<file, backups, faults>>
    <3>. HIDE DEF b
    <3>1. buf'[f] = b /\ file' = [file EXCEPT ![f] = file'[f]] BY <2>2 DEF LogTypeOK
    <3>2. OnDisk(f)' = OnDisk(f) BY <2>2, Zenon DEF OnDisk, InBackups
    <3>. QED BY <1>1, <2>2, <3>1, <3>2 DEF FlushedTo, Kept, OnDisk, LogTypeOK
  <2>. QED BY <2>1, <2>2 DEF WriteBuffer
<1>7. ControlOK'
  BY <1>1 DEF ControlOK, LogTypeOK
<1>8. ToSet(b) \subseteq DOMAIN log'[f]
  BY <1>2, <1>4, <1>5
<1>. QED BY <1>1, <1>3, <1>4, <1>6, <1>7, <1>8

(* The goroutine's flushes.                                                *)
LEMMA TickMoves ==
  ASSUME LogInv, NEW f \in Files, FlushTick(f) \/ RunEnds(f)
  PROVE  /\ buf[f] \in Seq(Nat) /\ FlushedTo(f, buf[f]) /\ Grows(f) /\ ControlOK'
         /\ ToSet(buf[f]) \subseteq DOMAIN log'[f] /\ log' = log
<1> USE DEF LogInv
<1>1. buf[f] \in Seq(Nat) /\ Flush(f, buf[f]) /\ UNCHANGED <<today, log, closed>>
  BY DEF LogTypeOK, FlushTick, RunEnds, Flush
<1>2. ControlOK'
  BY DEF ControlOK, LogTypeOK, FlushTick, RunEnds
<1>3. ToSet(buf[f]) \subseteq DOMAIN log[f]
  BY DEF LogTypeOK, Kept
<1>4. Grows(f)
  BY <1>1 DEF Grows, LogTypeOK, DatesFit
<1>. QED BY <1>1, <1>2, <1>3, <1>4, FlushMoves

LEMMA CopiesRestricted ==
  ASSUME NEW copies, IsDirectory(copies), NEW S \in SUBSET DOMAIN copies
  PROVE  /\ IsDirectory(Restrict(copies, S)) /\ DOMAIN Restrict(copies, S) = S
         /\ Range(Restrict(copies, S)) \subseteq Range(copies)
<1>1. IsFiniteSet(S) BY FS_Subset DEF IsDirectory
<1>2. \A n \in S : n \in Nat /\ copies[n] \in Seq(Nat) /\ copies[n] \in Range(copies)
  BY DEF IsDirectory, Range
<1>. QED BY <1>1, <1>2 DEF IsDirectory, Restrict, Range

(* What autoDelDir leaves.                                                 *)
LEMMA DelLeaves ==
  ASSUME LogInv, NEW f \in Files, DelTick(f)
  PROVE  /\ UNCHANGED <<today, log, buf, file, closed, fd, runner>>
         /\ UNCHANGED faults \/ Fails
         /\ backups' = [g \in Files |-> [d \in Days |-> backups'[g][d]]]
         /\ \A g \in Files, d \in Days : IsDirectory(backups'[g][d])
         /\ \A g \in Files, d \in Days :
              /\ DOMAIN backups'[g][d] \subseteq DOMAIN backups[g][d]
              /\ Range(backups'[g][d]) \subseteq Range(backups[g][d])
              /\ ~ Doomed(f, g, d) => backups'[g][d] = backups[g][d]
              /\ Doomed(f, g, d) /\ ~Fails => DOMAIN backups'[g][d] = {}
         /\ \A g \in Files : (Kept(g))' \subseteq Kept(g) /\ (OnDisk(g))' \subseteq OnDisk(g)
<1> USE DEF LogInv
<1>1. /\ UNCHANGED <<today, log, buf, file, closed, fd, runner>>
      /\ UNCHANGED faults \/ Fails
  BY DEF DelTick
<1>2. PICK names : RemoveAllBut(f, names) /\ (~Fails => names = {})
  BY DEF DelTick
<1>3. backups' = [g \in Files |-> [d \in Days |-> backups'[g][d]]]
  <2>. HIDE DEF Days
  <2>. QED BY <1>2 DEF RemoveAllBut
<1>4. ASSUME NEW g \in Files, NEW d \in Days
      PROVE  /\ IsDirectory(backups'[g][d])
             /\ DOMAIN backups'[g][d] \subseteq DOMAIN backups[g][d]
             /\ Range(backups'[g][d]) \subseteq Range(backups[g][d])
             /\ ~ Doomed(f, g, d) => backups'[g][d] = backups[g][d]
             /\ Doomed(f, g, d) /\ ~Fails => DOMAIN backups'[g][d] = {}
  <2>1. IsDirectory(backups[g][d]) BY DEF LogTypeOK
  <2>2. backups'[g][d] = IF Doomed(f, g, d)
                         THEN Restrict(backups[g][d], DOMAIN backups[g][d] \cap names)
                         ELSE backups[g][d]
    BY <1>2, Zenon DEF RemoveAllBut
  <2>3. CASE Doomed(f, g, d)
    <3>1. backups'[g][d] = Restrict(backups[g][d], DOMAIN backups[g][d] \cap names)
      BY <2>2, <2>3
    <3>2. /\ IsDirectory(backups'[g][d])
          /\ DOMAIN backups'[g][d] = DOMAIN backups[g][d] \cap names
          /\ Range(backups'[g][d]) \subseteq Range(backups[g][d])
      <4>1. DOMAIN backups[g][d] \cap names \in SUBSET DOMAIN backups[g][d] OBVIOUS
      <4>. QED BY <2>1, <3>1, <4>1, CopiesRestricted
    <3>. QED BY <1>2, <2>3, <3>2
  <2>4. CASE ~ Doomed(f, g, d)
    BY <2>1, <2>2, <2>4
  <2>. QED BY <2>3, <2>4
<1>5. ASSUME NEW g \in Files PROVE (InBackups(g))' \subseteq InBackups(g)
  <2> SUFFICES ASSUME NEW r \in (InBackups(g))' PROVE r \in InBackups(g)
    OBVIOUS
  <2>1. PICK d \in Days : \E c \in Range(backups'[g][d]) : r \in ToSet(c)
    BY DEF InBackups
  <2>. QED BY <1>4, <2>1 DEF InBackups
<1>. QED BY <1>1, <1>3, <1>4, <1>5 DEF Kept, OnDisk

LEMMA LogInitInv == LogInit => LogInv
<1> SUFFICES ASSUME LogInit PROVE LogInv
  OBVIOUS
<1>1. \A f \in Files, d \in Days : backups[f][d] = NoCopies
  BY DEF LogInit
<1>2. DOMAIN NoCopies = {} /\ Range(NoCopies) = {} /\ IsDirectory(NoCopies) /\ Gapless(NoCopies)
  <2>1. DOMAIN NoCopies = {} /\ NoCopies \in [{} -> Seq(Nat)] BY DEF NoCopies
  <2>2. Range(NoCopies) = {} BY <2>1 DEF Range
  <2>3. IsDirectory(NoCopies) BY <2>1, FS_EmptySet DEF IsDirectory
  <2>4. 0..0 - 1 = {} BY SMT
  <2>. QED BY <2>1, <2>2, <2>3, <2>4 DEF Gapless
<1>3. \A f \in Files : Kept(f) = {}
  <2>1. ASSUME NEW f \in Files PROVE InBackups(f) = {} BY <1>1, <1>2 DEF InBackups
  <2>2. \A f \in Files : ToSet(buf[f]) = {} /\ ToSet(file[f]) = {} BY DEF LogInit, ToSet
  <2>. QED BY <2>1, <2>2 DEF Kept, OnDisk
<1>4. backups = [f \in Files |-> [d \in Days |-> backups[f][d]]]
  <2>. HIDE DEF Days
  <2>. QED BY <1>1 DEF LogInit
<1>5. LogTypeOK
  BY <1>1, <1>2, <1>3, <1>4 DEF LogInit, LogTypeOK
<1>6. DatesFit /\ Numbered
  BY <1>1, <1>2 DEF LogInit, DatesFit, Numbered
<1>. QED BY <1>5, <1>6 DEF LogInv

LEMMA LogNextInv ==
  ASSUME LogInv, LogNext \/ UNCHANGED logVars
  PROVE  LogInv'
<1> USE DEF LogInv
<1>1. ASSUME NEW f \in Files, Open(f) \/ CloseChannel(f) PROVE LogInv'
  <2>1. UNCHANGED <<today, faults, log, buf, file, backups>>
    BY <1>1 DEF Open, CloseChannel, diskVars
  <2>2. ControlOK'
    BY <1>1 DEF Open, CloseChannel, ControlOK, LogTypeOK
  <2>3. \A g \in Files : (Kept(g))' = Kept(g) BY <2>1, Zenon DEF Kept, OnDisk, InBackups
  <2>4. LogTypeOK' BY <2>1, <2>2, <2>3 DEF LogTypeOK, ControlOK
  <2>. QED BY <2>1, <2>4 DEF DatesFit, Numbered, LatestDays
<1>2. ASSUME NEW f \in Files, WriteBuffer(f) PROVE LogInv'
  BY <1>2, WriteMoves, FlushInv
<1>3. ASSUME NEW f \in Files, FlushTick(f) \/ RunEnds(f) PROVE LogInv'
  BY <1>3, TickMoves, FlushInv
<1>4. ASSUME NEW f \in Files, DelTick(f) PROVE LogInv'
  <2>1. UNCHANGED <<today, log>> /\ (UNCHANGED faults \/ Fails) BY <1>4, DelLeaves
  <2>2. faults' \in 0..MaxFaults /\ (faults' = 0 => faults = 0 /\ ~Fails)
    BY <2>1 DEF Fails, LogTypeOK
  <2>3. LogTypeOK'
    <3>1. UNCHANGED <<today, log, buf, file, closed, fd, runner>> BY <1>4, DelLeaves
    <3>2. \A g \in Files : (Kept(g))' \subseteq DOMAIN log'[g]
      BY <1>4, <3>1, DelLeaves DEF LogTypeOK
    <3>3. /\ backups' = [g \in Files |-> [d \in Days |-> backups'[g][d]]]
          /\ \A g \in Files, d \in Days : IsDirectory(backups'[g][d])
      BY <1>4, DelLeaves
    <3>4. /\ today \in Days /\ log \in [Files -> Seq(Days)]
          /\ buf \in [Files -> Seq(Nat)] /\ file \in [Files -> Seq(Nat)]
          /\ closed \in [Files -> BOOLEAN] /\ fd \in [Files -> BOOLEAN]
          /\ runner \in [Files -> {"none", "running", "ended"}]
      BY DEF LogTypeOK
    <3>. HIDE DEF LogInv
    <3>. QED BY <2>2, <3>1, <3>2, <3>3, <3>4 DEF LogTypeOK
  <2>4. ASSUME NEW g \in Files, NEW d \in Days, NEW c \in Range(backups'[g][d]), NEW r \in ToSet(c)
        PROVE  log'[g][r] <= d
    BY <1>4, <2>1, <2>4, DelLeaves DEF DatesFit
  <2>5. ASSUME NEW g \in Files, NEW d \in Days, DOMAIN backups'[g][d] # {}
        PROVE  d <= today'
    <3>1. DOMAIN backups[g][d] # {} BY <1>4, <2>5, DelLeaves
    <3>. QED BY <2>1, <3>1 DEF DatesFit
  <2>6. ASSUME NEW g \in Files, NEW d \in Days,
               faults' = 0 \/ (Alike = {} /\ d \in LatestDays')
        PROVE  Gapless(backups'[g][d])
    <3>1. LatestDays' = LatestDays BY <2>1 DEF LatestDays
    <3>2. CASE ~ Doomed(f, g, d)
      <4>1. backups'[g][d] = backups[g][d] BY <1>4, <3>2, DelLeaves
      <4>2. Gapless(backups[g][d]) BY <2>2, <2>6, <3>1 DEF Numbered
      <4>. QED BY <4>1, <4>2
    <3>3. CASE Doomed(f, g, d)
      <4>1. faults' = 0 BY <2>6, <3>1, <3>3 DEF Doomed
      <4>2. DOMAIN backups'[g][d] = {} BY <1>4, <2>2, <3>3, <4>1, DelLeaves
      <4>3. 0..0 - 1 = {} BY SMT
      <4>. QED BY <4>2, <4>3 DEF Gapless
    <3>. QED BY <3>2, <3>3
  <2>7. \A g \in Files : \A r \in DOMAIN log'[g] : log'[g][r] <= today'
    BY <2>1 DEF DatesFit
  <2>. QED BY <2>3, <2>4, <2>5, <2>6, <2>7 DEF DatesFit, Numbered
<1>5. CASE Midnight
  <2>1. /\ today' = today + 1 /\ today' \in Days /\ today \in Nat
        /\ UNCHANGED <<log, buf, file, backups, faults, closed, fd, runner>>
    BY <1>5 DEF Midnight, LogTypeOK, diskVars
  <2>2. \A g \in Files : (Kept(g))' = Kept(g) BY <2>1, Zenon DEF Kept, OnDisk, InBackups
  <2>3. LogTypeOK' BY <2>1, <2>2 DEF LogTypeOK
  <2>4. /\ \A f \in Files : \A r \in DOMAIN log[f] : log[f][r] \in Nat
        /\ \A d \in Days : d \in Nat
    <3>1. \A f \in Files : \A r \in DOMAIN log[f] : log[f][r] \in Days BY DEF LogTypeOK
    <3>. QED BY <3>1
  <2>5. \A f \in Files : \A r \in DOMAIN log'[f] : log'[f][r] <= today'
    <3>. HIDE DEF Days
    <3>. QED BY <2>1, <2>4 DEF DatesFit
  <2>6. \A f \in Files, d \in Days : DOMAIN backups'[f][d] # {} => d <= today'
    <3>. HIDE DEF Days
    <3>. QED BY <2>1, <2>4 DEF DatesFit
  <2>7. DatesFit'
    BY <2>1, <2>5, <2>6 DEF DatesFit
  <2>8. ASSUME NEW g \in Files, NEW d \in Days,
               faults = 0 \/ (Alike = {} /\ d \in LatestDays')
        PROVE  Gapless(backups[g][d])
    <3>1. CASE faults = 0 \/ d \in LatestDays BY <2>8, <3>1 DEF Numbered
    <3>2. CASE d \notin LatestDays /\ d \in LatestDays'
      <4>1. d \in Nat /\ d <= today' /\ today' < d + SaveDays BY <2>4, <3>2 DEF LatestDays
      <4>2. ~ (d <= today /\ today < d + SaveDays) BY <3>2 DEF LatestDays
      <4>3. ~ (d <= today) BY <2>1, <4>1, <4>2
      <4>4. DOMAIN backups[g][d] = {} BY <4>3 DEF DatesFit
      <4>5. 0..0 - 1 = {} BY SMT
      <4>. QED BY <4>4, <4>5 DEF Gapless
    <3>. QED BY <2>8, <3>1, <3>2
  <2>9. Numbered' BY <2>1, <2>8 DEF Numbered
  <2>. QED BY <2>3, <2>7, <2>9
<1>6. CASE UNCHANGED logVars
  <2>1. UNCHANGED <<today, faults, log, buf, file, backups, closed, fd, runner>>
    BY <1>6 DEF logVars, diskVars
  <2>2. \A g \in Files : (Kept(g))' = Kept(g) BY <2>1, Zenon DEF Kept, OnDisk, InBackups
  <2>. QED BY <2>1, <2>2 DEF LogTypeOK, DatesFit, Numbered, LatestDays
<1>. QED BY <1>1, <1>2, <1>3, <1>4, <1>5, <1>6 DEF LogNext

-----------------------------------------------------------------------------
(* The steps are steps of LogStore.                                        *)

LEMMA KeepsUntouched ==
  ASSUME NEW g \in Files, log'[g] = log[g], (OnDisk(g))' = OnDisk(g), buf'[g] = buf[g]
  PROVE  Store!Keep(g)
BY DEF Store!Keep, Store!Moves

LEMMA FlushIsStep ==
  ASSUME LogTypeOK, NEW f \in Files, NEW b \in Seq(Nat), FlushedTo(f, b), Grows(f),
         Gapless(backups[f][today]), NEW written, ToSet(b) = ToSet(buf[f]) \cup written,
         \/ written = {} /\ log'[f] = log[f]
         \/ log'[f] = Append(log[f], today) /\ written = {Len(log'[f])}
  PROVE  Store!Step
<1>1. \A g \in Files : g # f => Store!Keep(g)
  BY FlushContents, KeepsUntouched DEF Grows
<1>2. /\ OnDisk(f) \subseteq (OnDisk(f))'
      /\ ToSet(buf[f]) \cup written \subseteq ToSet(buf'[f]) \cup (OnDisk(f))'
      /\ ToSet(buf'[f]) \subseteq ToSet(buf[f]) \cup written
      /\ (OnDisk(f))' \subseteq OnDisk(f) \cup ToSet(buf[f]) \cup written
  BY FlushContents DEF FlushedTo, Kept
<1>3. Store!Moves(f, written)
  BY <1>2 DEF Store!Moves
<1>4. Store!Accept(f) \/ Store!Keep(f)
  BY <1>3 DEF Store!Accept, Store!Keep
<1>. QED BY <1>1, <1>4 DEF Store!Step, Grows

LEMMA DelIsStep ==
  ASSUME LogInv, Alike = {}, NEW f \in Files, DelTick(f)
  PROVE  Store!Step
<1> USE DEF LogInv
<1>1. ASSUME NEW g \in Files, g # f PROVE Store!Keep(g)
  <2>1. \A d \in Days : backups'[g][d] = backups[g][d]
    BY <1>1, DelLeaves DEF Doomed
  <2>2. backups'[g] = backups[g]
    <3>1. backups[g] = [d \in Days |-> backups[g][d]] BY DEF LogTypeOK
    <3>2. backups'[g] = [d \in Days |-> backups'[g][d]] BY DelLeaves
    <3>. HIDE DEF Days
    <3>. QED BY <2>1, <3>1, <3>2
  <2>3. UNCHANGED <<log, file, buf>> BY DEF DelTick
  <2>4. (InBackups(g))' = InBackups(g) BY <2>2, Zenon DEF InBackups
  <2>. QED BY <2>3, <2>4, KeepsUntouched DEF OnDisk
<1>2. ASSUME NEW r \in OnDisk(f), r \notin (OnDisk(f))'
      PROVE  r \in Store!Old(f)
  <2>1. r \notin ToSet(file[f]) BY <1>2 DEF OnDisk, DelTick
  <2>2. PICK d \in Days : \E c \in Range(backups[f][d]) : r \in ToSet(c)
    BY <1>2, <2>1 DEF OnDisk, InBackups
  <2>3. PICK c \in Range(backups[f][d]) : r \in ToSet(c) BY <2>2
  <2>4. d \notin LatestDays
    <3>1. SUFFICES ASSUME d \in LatestDays PROVE FALSE OBVIOUS
    <3>2. backups'[f][d] = backups[f][d] BY <3>1, DelLeaves DEF Doomed
    <3>3. r \in (InBackups(f))' BY <2>3, <3>2 DEF InBackups
    <3>. QED BY <1>2, <3>3 DEF OnDisk
  <2>5. d <= today
    <3>1. DOMAIN backups[f][d] # {} BY <2>3 DEF Range
    <3>. QED BY <3>1 DEF DatesFit
  <2>6. r \in DOMAIN log[f] /\ log[f][r] <= d
    BY <1>2, <2>3 DEF DatesFit, LogTypeOK, Kept
  <2>7. log[f][r] \in Days BY <2>6 DEF LogTypeOK
  <2>. QED BY <2>4, <2>5, <2>6, <2>7 DEF LatestDays, LogTypeOK, Store!Old
<1>3. /\ UNCHANGED <<today, log, buf>>
      /\ (OnDisk(f))' \subseteq OnDisk(f)
  BY DelLeaves
<1>4. Store!Keep(f)
  <2>1. OnDisk(f) \ (OnDisk(f))' \subseteq Store!Old(f) BY <1>2
  <2>. QED BY <1>3, <2>1 DEF Store!Keep, Store!Moves
<1>. QED BY <1>1, <1>3, <1>4 DEF Store!Step

(* Nothing is lost before it is old, whatever fails.                       *)
LEMMA LogNextIsStep ==
  ASSUME LogInv, Alike = {}, LogNext \/ UNCHANGED logVars
  PROVE  Store!Step \/ Store!Midnight \/ UNCHANGED Store!vars
<1> USE DEF LogInv
<1>1. ASSUME UNCHANGED <<today, log, buf, file, backups>> PROVE UNCHANGED Store!vars
  <2>1. \A f \in Files : (OnDisk(f))' = OnDisk(f) BY <1>1, Zenon DEF OnDisk, InBackups
  <2>. QED BY <1>1, <2>1 DEF Store!vars
<1>0. \A f \in Files : Gapless(backups[f][today])
  <2>1. today \in Days /\ today \in Nat BY DEF LogTypeOK
  <2>2. today \in LatestDays BY <2>1 DEF LatestDays
  <2>. QED BY <2>1, <2>2 DEF Numbered
<1>2. ASSUME NEW f \in Files, WriteBuffer(f) PROVE Store!Step
  BY <1>0, <1>2, WriteMoves, FlushIsStep
<1>3. ASSUME NEW f \in Files, FlushTick(f) \/ RunEnds(f) PROVE Store!Step
  <2>1. ToSet(buf[f]) = ToSet(buf[f]) \cup {} OBVIOUS
  <2>. QED BY <1>0, <1>3, <2>1, TickMoves, FlushIsStep
<1>4. ASSUME NEW f \in Files, DelTick(f) PROVE Store!Step
  BY <1>4, DelIsStep
<1>5. CASE Midnight
  <2>1. today' = today + 1 /\ UNCHANGED <<log, buf, file, backups>>
    BY <1>5 DEF Midnight, diskVars
  <2>2. \A f \in Files : (OnDisk(f))' = OnDisk(f) BY <2>1, Zenon DEF OnDisk, InBackups
  <2>. QED BY <2>1, <2>2 DEF Store!Midnight
<1>6. ASSUME NEW f \in Files, Open(f) \/ CloseChannel(f) PROVE UNCHANGED Store!vars
  BY <1>1, <1>6 DEF Open, CloseChannel, diskVars
<1>7. CASE UNCHANGED logVars
  BY <1>1, <1>7 DEF logVars, diskVars
<1>. QED BY <1>2, <1>3, <1>4, <1>5, <1>6, <1>7 DEF LogNext

LEMMA LogInitIsInit == LogInit => Store!LogInit
<1> SUFFICES ASSUME LogInit PROVE Store!LogInit
  OBVIOUS
<1>1. \A f \in Files : Kept(f) = {}
  BY LogInitInv DEF LogInit, LogInv, LogTypeOK
<1>. QED BY <1>1 DEF LogInit, Store!LogInit, Kept

-----------------------------------------------------------------------------
(* The order of the records.                                               *)

LEMMA OrderAppend ==
  ASSUME NEW days, NEW last \in Seq(Nat), NEW x \in Nat,
         InOrder(days, last), \A r \in ToSet(last) : r < x,
         \A d \in Days : \A i \in DOMAIN days[d] : \A r \in ToSet(days[d][i]) : r < x
  PROVE  InOrder(days, Append(last, x))
<1> DEFINE new == Append(last, x)
<1>1. /\ \A i \in DOMAIN new : \/ i \in DOMAIN last /\ new[i] = last[i]
                               \/ i = Len(last) + 1 /\ new[i] = x
      /\ \A i \in DOMAIN last : i < Len(last) + 1 /\ last[i] < x
  BY DEF ToSet
<1>2. \A i, j \in DOMAIN last : i < j => last[i] < last[j]
  BY DEF InOrder, Increases
<1>3. \A i \in DOMAIN last : i \in Nat
  OBVIOUS
<1>4. DOMAIN new = 1..Len(last) + 1 /\ DOMAIN last = 1..Len(last) /\ Len(last) \in Nat
  OBVIOUS
<1>5. Increases(new)
  <2> SUFFICES ASSUME NEW i \in DOMAIN new, NEW j \in DOMAIN new, i < j PROVE new[i] < new[j]
    BY DEF Increases
  <2>1. i \in DOMAIN last BY <1>4
  <2>. QED BY <1>1, <1>2, <2>1
<1>6. ASSUME NEW d \in Days, NEW i \in DOMAIN days[d] PROVE Below(days[d][i], new)
  <2>1. \A k \in DOMAIN days[d][i] : days[d][i][k] < x BY DEF ToSet
  <2>2. \A k \in DOMAIN days[d][i] : \A j \in DOMAIN last : days[d][i][k] < last[j]
    BY DEF InOrder, Below
  <2>. HIDE DEF new
  <2>. QED BY <1>1, <2>1, <2>2 DEF Below
<1>. QED BY <1>5, <1>6 DEF InOrder

LEMMA OrderBackup ==
  ASSUME NEW days, NEW new, NEW last \in Seq(Nat), NEW t \in Days,
         InOrder(days, last), \A d \in Days : DOMAIN days[d] # {} => d <= t,
         IsDirectory(days[t]), Gapless(days[t]),
         new[t] = WithCopy(days[t], last), \A d \in Days : d # t => new[d] = days[d]
  PROVE  InOrder(new, <<>>)
<1> DEFINE k == CountFile(days[t])
<1>1. /\ k \in Nat /\ \A i \in DOMAIN days[t] : i < k /\ i \in Nat
      /\ DOMAIN new[t] = DOMAIN days[t] \cup {k} /\ new[t][k] = last
      /\ \A i \in DOMAIN days[t] : i # k => new[t][i] = days[t][i]
  <2>1. k \in Nat /\ \A i \in DOMAIN days[t] : i < k BY CopyAdded, CopyIsNew
  <2> DEFINE copied == WithCopy(days[t], last)
  <2>2. DOMAIN copied = DOMAIN days[t] \cup {k} /\ copied[k] = last BY CopyAdded, Zenon
  <2>3. \A i \in DOMAIN days[t] : copied[i] = days[t][i] BY CopyIsNew, Zenon
  <2>4. \A i \in DOMAIN days[t] : i \in Nat BY DEF IsDirectory
  <2>5. new[t] = copied OBVIOUS
  <2>. HIDE DEF k, copied
  <2>. QED BY <2>1, <2>2, <2>3, <2>4, <2>5
<1>. HIDE DEF k
<1>2. /\ \A d \in Days : \A i \in DOMAIN new[d] :
           \/ i \in DOMAIN days[d] /\ new[d][i] = days[d][i]
           \/ d = t /\ i = k /\ new[d][i] = last
      /\ \A d \in Days : \A i \in DOMAIN days[d] : d <= t
  <2>1. ASSUME NEW d \in Days, NEW i \in DOMAIN new[d]
        PROVE  \/ i \in DOMAIN days[d] /\ new[d][i] = days[d][i]
               \/ d = t /\ i = k /\ new[d][i] = last
    <3>1. CASE d = t BY <1>1, <2>1, <3>1
    <3>2. CASE d # t
      <4>1. new[d] = days[d] BY <3>2
      <4>. QED BY <2>1, <4>1
    <3>. QED BY <3>1, <3>2
  <2>. QED BY <2>1
<1>3. Increases(<<>>) /\ \A c : Below(c, <<>>)
  BY DEF Increases, Below
<1>4. Increases(last) /\ \A d \in Days : \A i \in DOMAIN days[d] : Increases(days[d][i])
  BY DEF InOrder
<1>5. ASSUME NEW d \in Days, NEW i \in DOMAIN new[d], NEW e \in Days, NEW j \in DOMAIN new[e],
             d < e \/ (d = e /\ i < j)
      PROVE  Below(new[d][i], new[e][j])
  <2>1. CASE i \in DOMAIN days[d] /\ new[d][i] = days[d][i]
             /\ j \in DOMAIN days[e] /\ new[e][j] = days[e][j]
    BY <1>5, <2>1 DEF InOrder
  <2>2. CASE i \in DOMAIN days[d] /\ new[d][i] = days[d][i] /\ new[e][j] = last
    BY <2>2 DEF InOrder
  <2>3. ~ (d = t /\ i = k)
    <3> SUFFICES ASSUME d = t, i = k PROVE FALSE
      OBVIOUS
    <3>1. CASE j \in DOMAIN days[e]
      <4>1. e <= t BY <1>2, <3>1
      <4>2. e = t BY <1>5, <4>1
      <4>3. j < k /\ j \in Nat BY <1>1, <3>1, <4>2
      <4>. QED BY <1>1, <1>5, <4>2, <4>3
    <3>2. CASE e = t /\ j = k
      BY <1>1, <1>5, <3>2
    <3>. QED BY <1>2, <3>1, <3>2
  <2>. QED BY <1>2, <2>1, <2>2, <2>3
<1>6. \A d \in Days : \A i \in DOMAIN new[d] : Increases(new[d][i])
  BY <1>2, <1>4
<1>. QED BY <1>3, <1>5, <1>6 DEF InOrder

LEMMA OrderDelete ==
  ASSUME NEW days, NEW last, NEW new, InOrder(days, last),
         \A d \in Days : DOMAIN new[d] = {} \/ new[d] = days[d]
  PROVE  InOrder(new, last)
<1>1. \A d \in Days : \A i \in DOMAIN new[d] : new[d] = days[d] /\ i \in DOMAIN days[d]
  OBVIOUS
<1>. QED BY <1>1 DEF InOrder

(* A flush of b, when nothing fails.                                       *)
FlushesTo(f, last) ==
  \/ backups'[f] = backups[f] /\ file'[f] \o buf'[f] = last
  \/ CopiedTo(f, last) /\ file'[f] \o buf'[f] = <<>>

LEMMA FlushOrder ==
  ASSUME LogTypeOK, NEW f \in Files, NEW b \in Seq(Nat), Flush(f, b), faults' = 0
  PROVE  FlushesTo(f, file[f] \o b)
<1> DEFINE c == file[f] \o b
<1>1. ~Fails BY DEF Fails, LogTypeOK
<1>2. c \in Seq(Nat) /\ c \o <<>> = c /\ <<>> \o <<>> = <<>>
  <2>1. file[f] \in Seq(Nat) BY DEF LogTypeOK
  <2>2. c \in Seq(Nat) BY <2>1
  <2>. HIDE DEF c
  <2>. QED BY <2>2
<1>. HIDE DEF c
<1>3. ASSUME buf' = [buf EXCEPT ![f] = <<>>], file' = [file EXCEPT ![f] = c], UNCHANGED backups
      PROVE  FlushesTo(f, c)
  BY <1>2, <1>3 DEF FlushesTo, LogTypeOK
<1>4. ASSUME buf' = [buf EXCEPT ![f] = <<>>], Copies(f, c)
      PROVE  FlushesTo(f, c)
  BY <1>1, <1>2, <1>4 DEF FlushesTo, LogTypeOK, Copies, CopiedTo
<1>5. ASSUME buf' = [buf EXCEPT ![f] = b], UNCHANGED <<file, backups>>
      PROVE  FlushesTo(f, c)
  BY <1>5 DEF FlushesTo, LogTypeOK, c
<1>. QED
  BY <1>1, <1>3, <1>4, <1>5 DEF Flush, Flushes, FlushFails, CopyFails, c

LEMMA OrderOfFlush ==
  ASSUME NEW f \in Files, LogInv, faults = 0, NEW last \in Seq(Nat), FlushesTo(f, last),
         InOrder(backups[f], last)
  PROVE  InOrder(backups'[f], file'[f] \o buf'[f])
<1>1. /\ today \in Days /\ IsDirectory(backups[f][today]) /\ Gapless(backups[f][today])
      /\ \A d \in Days : DOMAIN backups[f][d] # {} => d <= today
  BY DEF LogInv, LogTypeOK, DatesFit, Numbered
<1>2. CASE backups'[f] = backups[f] /\ file'[f] \o buf'[f] = last
  BY <1>2
<1>3. CASE CopiedTo(f, last) /\ file'[f] \o buf'[f] = <<>>
  <2>1. /\ backups'[f][today] = WithCopy(backups[f][today], last)
        /\ \A d \in Days : d # today => backups'[f][d] = backups[f][d]
    BY <1>3, BackupAdded DEF LogInv
  <2>2. InOrder(backups'[f], <<>>)
    BY <1>1, <2>1, OrderBackup
  <2>. QED BY <1>3, <2>2
<1>. QED BY <1>2, <1>3 DEF FlushesTo

(* The younger records are kept.                                           *)
Suffix(f) == \A r \in Kept(f) : r..Len(log[f]) \subseteq Kept(f)

LEMMA OthersInOrder ==
  ASSUME NEW g \in Files, InOrder(backups[g], file[g] \o buf[g]), Suffix(g),
         backups'[g] = backups[g], file'[g] = file[g], buf'[g] = buf[g], log'[g] = log[g]
  PROVE  (InOrder(backups[g], file[g] \o buf[g]) /\ Suffix(g))'
<1>1. (InBackups(g))' = InBackups(g) BY Zenon DEF InBackups
<1>2. (Kept(g))' = Kept(g) BY <1>1 DEF Kept, OnDisk
<1>. QED BY <1>2 DEF Suffix

LEMMA WriteOrder ==
  ASSUME LogInv, NEW f \in Files, WriteBuffer(f), faults = 0, faults' = 0,
         InOrder(backups[f], file[f] \o buf[f]), Suffix(f)
  PROVE  (InOrder(backups[f], file[f] \o buf[f]) /\ Suffix(f))'
<1> USE DEF LogInv
<1> DEFINE n == Len(log'[f])
           b == Append(buf[f], n)
           last == file[f] \o buf[f]
<1>1. /\ log[f] \in Seq(Days) /\ buf[f] \in Seq(Nat) /\ file[f] \in Seq(Nat)
      /\ log'[f] = Append(log[f], today) /\ today \in Days /\ n \in Nat /\ n = Len(log[f]) + 1
      /\ DOMAIN log[f] = 1..Len(log[f]) /\ Len(log[f]) \in Nat
  BY DEF LogTypeOK, WriteBuffer
<1>2. Kept(f) \subseteq DOMAIN log[f] BY DEF LogTypeOK
<1>3. last \in Seq(Nat) /\ ToSet(last) = ToSet(file[f]) \cup ToSet(buf[f])
  BY <1>1, Concatenated
<1>4. b \in Seq(Nat) /\ file[f] \o b = Append(last, n)
  <2>1. file[f] \in Seq(Nat) /\ buf[f] \in Seq(Nat) BY <1>1
  <2>2. Append(buf[f], n) \in Seq(Nat) BY <1>1, <2>1
  <2>3. \A k : file[f] \o Append(buf[f], k) = Append(file[f] \o buf[f], k)
    BY <2>1, AppendLater
  <2>. QED BY <2>2, <2>3
<1>. HIDE DEF n, last
<1>5. InOrder(backups[f], Append(last, n))
  <2>1. \A r \in Kept(f) : r < n BY <1>1, <1>2
  <2>2. \A r \in ToSet(last) : r < n BY <1>3, <2>1 DEF Kept, OnDisk
  <2>3. ASSUME NEW d \in Days, NEW i \in DOMAIN backups[f][d], NEW r \in ToSet(backups[f][d][i])
        PROVE  r < n
    <3>1. backups[f][d][i] \in Range(backups[f][d]) BY DEF Range
    <3>2. r \in InBackups(f) BY <3>1 DEF InBackups
    <3>. QED BY <2>1, <3>2 DEF Kept, OnDisk
  <2>4. InOrder(backups[f], last) BY DEF last
  <2>. QED BY <1>1, <1>3, <2>2, <2>3, <2>4, OrderAppend
<1>6. FlushesTo(f, Append(last, n))
  <2>1. CASE Flush(f, b)
    BY <1>4, <2>1, FlushOrder
  <2>2. CASE buf' = [buf EXCEPT ![f] = b] /\ UNCHANGED <<file, backups, faults>>
    BY <1>4, <2>2 DEF FlushesTo, LogTypeOK
  <2>. QED BY <2>1, <2>2 DEF WriteBuffer, n
<1>7. InOrder(backups'[f], file'[f] \o buf'[f])
  <2>1. Append(last, n) \in Seq(Nat) BY <1>1, <1>3
  <2>. QED BY <1>5, <1>6, <2>1, OrderOfFlush
<1>8. (Kept(f))' = Kept(f) \cup {n}
  <2>1. PICK c \in Seq(Nat) : FlushedTo(f, c) /\ ToSet(c) = ToSet(buf[f]) \cup {n}
    BY WriteMoves DEF n
  <2>2. today \in Days BY <1>1
  <2>3. Gapless(backups[f][today]) BY <2>2 DEF Numbered
  <2>. QED BY <2>1, <2>3, FlushContents DEF FlushedTo, Kept
<1>9. ASSUME NEW r \in (Kept(f))', NEW k \in r..n PROVE k \in (Kept(f))'
  <2>1. CASE k = n BY <1>8, <2>1
  <2>2. CASE k # n
    <3>1. r \in Kept(f) /\ k \in r..Len(log[f]) BY <1>1, <1>2, <1>8, <2>2
    <3>. QED BY <1>8, <3>1 DEF Suffix
  <2>. QED BY <2>1, <2>2
<1>. QED BY <1>7, <1>9 DEF Suffix, n

LEMMA TickOrder ==
  ASSUME LogInv, NEW f \in Files, FlushTick(f) \/ RunEnds(f), faults = 0, faults' = 0,
         InOrder(backups[f], file[f] \o buf[f]), Suffix(f)
  PROVE  (InOrder(backups[f], file[f] \o buf[f]) /\ Suffix(f))'
<1> USE DEF LogInv
<1>1. buf[f] \in Seq(Nat) /\ file[f] \o buf[f] \in Seq(Nat) BY DEF LogTypeOK
<1>2. Flush(f, buf[f]) BY DEF FlushTick, RunEnds, Flush
<1>3. InOrder(backups'[f], file'[f] \o buf'[f])
  BY <1>1, <1>2, FlushOrder, OrderOfFlush
<1>4. (Kept(f))' = Kept(f)
  <2>1. today \in Days BY DEF LogTypeOK
  <2>2. Gapless(backups[f][today]) BY <2>1 DEF Numbered
  <2>. QED BY <2>2, TickMoves, FlushContents DEF FlushedTo, Kept
<1>. QED BY <1>3, <1>4, TickMoves DEF Suffix

LEMMA DelOrder ==
  ASSUME LogInv, NEW f \in Files, DelTick(f), ~Fails, NEW g \in Files,
         InOrder(backups[g], file[g] \o buf[g]), Suffix(g)
  PROVE  (InOrder(backups[g], file[g] \o buf[g]) /\ Suffix(g))'
<1> USE DEF LogInv
<1> DEFINE last == file[g] \o buf[g]
<1>1. UNCHANGED <<log, file, buf>> BY DEF DelTick
<1>0. \A d \in Days : DOMAIN backups'[g][d] = {} \/ backups'[g][d] = backups[g][d]
  BY DelLeaves
<1>2. InOrder(backups'[g], last)
  BY <1>0, OrderDelete
<1>3. file[g] \in Seq(Nat) /\ buf[g] \in Seq(Nat) BY DEF LogTypeOK
<1>4. ToSet(last) = ToSet(file[g]) \cup ToSet(buf[g]) BY <1>3, Concatenated
<1>. HIDE DEF last
<1>5. ASSUME NEW r \in (Kept(g))', NEW k \in r..Len(log[g]) PROVE k \in (Kept(g))'
  <2> SUFFICES ASSUME k \notin (Kept(g))' PROVE FALSE
    OBVIOUS
  <2>1. r \in Kept(g) /\ Kept(g) \subseteq DOMAIN log[g] /\ log[g] \in Seq(Days)
    BY DelLeaves DEF LogTypeOK
  <2>2. k \in Kept(g) BY <2>1 DEF Suffix
  <2>3. k \in InBackups(g) BY <1>1, <2>2 DEF Kept, OnDisk
  <2>4. PICK d \in Days : \E c \in Range(backups[g][d]) : k \in ToSet(c)
    BY <2>3 DEF InBackups
  <2>5. PICK i \in DOMAIN backups[g][d] : k \in ToSet(backups[g][d][i])
    BY <2>4 DEF Range
  <2>6. backups'[g][d] # backups[g][d]
    <3> SUFFICES ASSUME backups'[g][d] = backups[g][d] PROVE FALSE
      OBVIOUS
    <3>1. k \in (InBackups(g))' BY <2>4 DEF InBackups
    <3>. QED BY <3>1 DEF Kept, OnDisk
  <2>7. r \in Nat /\ k \in Nat /\ r <= k BY <2>1, <2>2
  <2>8. r < k \/ r = k \/ FALSE BY <2>7
  <2>9. CASE r \in ToSet(last)
    <3>1. Below(backups[g][d][i], last) BY DEF InOrder, last
    <3>2. k < r BY <2>5, <2>9, <3>1 DEF Below, ToSet
    <3>. QED BY <2>7, <3>2
  <2>10. CASE r \in (InBackups(g))'
    <3>1. PICK e \in Days : \E c \in Range(backups'[g][e]) : r \in ToSet(c)
      BY <2>10 DEF InBackups
    <3>2. PICK j \in DOMAIN backups'[g][e] : r \in ToSet(backups'[g][e][j])
      BY <3>1 DEF Range
    <3>3. backups'[g][e] = backups[g][e] BY <1>0, <3>2
    <3>4. g = f /\ d \notin LatestDays /\ e \in LatestDays
      <4>1. Doomed(f, g, d) BY <2>6, DelLeaves
      <4>2. ~ Doomed(f, g, e) BY <3>2, DelLeaves
      <4>. QED BY <4>1, <4>2 DEF Doomed
    <3>5. d <= today BY <2>5 DEF DatesFit
    <3>6. d < e
      <4>1. today \in Nat /\ d \in Nat /\ e \in Nat BY DEF LogTypeOK
      <4>2. today >= d + SaveDays /\ today < e + SaveDays
        BY <3>4, <3>5, <4>1 DEF LatestDays
      <4>. QED BY <4>1, <4>2
    <3>7. Below(backups[g][d][i], backups[g][e][j])
      BY <3>2, <3>3, <3>6 DEF InOrder
    <3>8. k < r BY <2>5, <3>2, <3>3, <3>7 DEF Below, ToSet
    <3>. QED BY <2>7, <3>8
  <2>. QED BY <1>1, <1>4, <2>9, <2>10 DEF Kept, OnDisk
<1>. QED BY <1>1, <1>2, <1>5 DEF Suffix, last

LEMMA LogNextInOrder ==
  ASSUME LogInv, LogInOrder, LogNext \/ UNCHANGED logVars
  PROVE  LogInOrder'
<1> SUFFICES ASSUME faults' = 0, NEW g \in Files
             PROVE  (InOrder(backups[g], file[g] \o buf[g]) /\ Suffix(g))'
  BY DEF LogInOrder, Suffix
<1> USE DEF LogInv
<1>1. faults = 0 /\ ~Fails
  <2>1. faults \in Nat BY DEF LogTypeOK
  <2>2. UNCHANGED faults \/ Fails => faults = 0 /\ ~Fails BY <2>1 DEF Fails
  <2>3. ASSUME NEW f \in Files, NEW b, Flush(f, b) PROVE UNCHANGED faults \/ Fails
    BY <2>3 DEF Flush, Flushes, FlushFails, Copies, CopyFails
  <2>4. ASSUME NEW f \in Files, WriteBuffer(f) \/ FlushTick(f) \/ RunEnds(f)
        PROVE  UNCHANGED faults \/ Fails
    BY <2>3, <2>4 DEF WriteBuffer, FlushTick, RunEnds, Flush
  <2>. QED
    BY <2>2, <2>4 DEF LogNext, logVars, diskVars, Open, CloseChannel, Midnight, DelTick
<1>2. \A h \in Files : InOrder(backups[h], file[h] \o buf[h]) /\ Suffix(h)
  BY <1>1 DEF LogInOrder, Suffix
<1>3. ASSUME NEW f \in Files, WriteBuffer(f)
      PROVE  (InOrder(backups[g], file[g] \o buf[g]) /\ Suffix(g))'
  <2>1. CASE g = f BY <1>1, <1>2, <1>3, <2>1, WriteOrder
  <2>2. CASE g # f
    <3>1. PICK b \in Seq(Nat) : FlushedTo(f, b) /\ Grows(f) BY <1>3, WriteMoves
    <3>. QED BY <1>2, <2>2, <3>1, FlushContents, OthersInOrder DEF Grows
  <2>. QED BY <2>1, <2>2
<1>4. ASSUME NEW f \in Files, FlushTick(f) \/ RunEnds(f)
      PROVE  (InOrder(backups[g], file[g] \o buf[g]) /\ Suffix(g))'
  <2>1. CASE g = f BY <1>1, <1>2, <1>4, <2>1, TickOrder
  <2>2. CASE g # f
    BY <1>2, <1>4, <2>2, TickMoves, FlushContents, OthersInOrder
  <2>. QED BY <2>1, <2>2
<1>5. ASSUME NEW f \in Files, DelTick(f)
      PROVE  (InOrder(backups[g], file[g] \o buf[g]) /\ Suffix(g))'
  BY <1>1, <1>2, <1>5, DelOrder
<1>6. CASE UNCHANGED <<log, file, buf, backups>>
  BY <1>2, <1>6, OthersInOrder
<1>. QED BY <1>3, <1>4, <1>5, <1>6
         DEF LogNext, logVars, diskVars, Open, CloseChannel, Midnight

LEMMA LogInitInOrder == LogInit => LogInOrder
<1> SUFFICES ASSUME LogInit, NEW f \in Files
             PROVE  InOrder(backups[f], file[f] \o buf[f]) /\ Suffix(f)
  BY DEF LogInOrder, Suffix
<1>1. \A d \in Days : DOMAIN backups[f][d] = {} BY DEF LogInit, NoCopies
<1>2. file[f] \o buf[f] = <<>> BY DEF LogInit
<1>3. Kept(f) = {} BY LogInitInv DEF LogInit, LogInv, LogTypeOK
<1>. QED BY <1>1, <1>2, <1>3 DEF InOrder, Increases, Suffix

-----------------------------------------------------------------------------
(* The shutdown.                                                           *)

USE LogAssumption, ProcessAssumption DEF Days, Closers, Services

-----------------------------------------------------------------------------
(* The inductive invariant.                                                *)

(* Nothing is shut down before shutdownAction begins.                      *)
NotStarted ==
  main \in {"boot", "wait", "busy"} =>
    /\ left = {} /\ late = {}
    /\ \A i \in DOMAIN list : stage[i] = "idle"

(* A call begins when those before it have ended or timed out.             *)
InTurn ==
  \A i, j \in DOMAIN list :
    stage[j] # "idle" /\ Before(i, j) => stage[i] = "done" \/ i \in late

(* Only files go through Close.                                            *)
CallsFit ==
  \A i \in DOMAIN list :
    stage[i] \in {"checked", "written", "closing"} => list[i] \in Files

(* What is closed was closed by its call.                                  *)
ClosedByCall ==
  /\ \A f \in Files : closed[f] =>
       \E i \in DOMAIN list : list[i] = f /\ stage[i] = "done"
  /\ \A s \in Services : ~isOpen[s] =>
       \E i \in DOMAIN list : list[i] = s /\ stage[i] = "done"

NoFileIsLate == \A i \in late : list[i] \notin Files

(* A call that is to close a channel finds it open, unless another call    *)
(* may run beside it.                                                      *)
ClosingOpen ==
  NoFileIsLate =>
    \A i \in DOMAIN list : stage[i] = "closing" => ~closed[list[i]]

(* The server's Shutdown leaves no request.                                *)
Drained ==
  /\ InFlight # {} => "http" \in ToSet(list)
  /\ \A i \in DOMAIN list : list[i] = "http" /\ stage[i] = "done" => InFlight = {}

(* All but what is said of the records.                                    *)
CallsInv ==
  /\ NotStarted /\ InTurn /\ CallsFit /\ ClosedByCall /\ ClosingOpen /\ Drained
  /\ ClosedOnce

PInv == TypeOK /\ CallsInv /\ LogInv /\ LogInOrder

-----------------------------------------------------------------------------
(* The order of shutdownAction.                                            *)

LEMMA Ranks ==
  ASSUME NEW x \in Closers \cup {"http"}
  PROVE  /\ Rank(x) \in 1..3
         /\ x \in Files <=> Rank(x) = 3
         /\ x = "http" <=> Rank(x) = 1
BY DEF Rank

LEMMA BeforeOrders ==
  ASSUME TypeOK, NEW i \in DOMAIN list, NEW j \in DOMAIN list
  PROVE  /\ i # j => Before(i, j) \/ Before(j, i)
         /\ ~ (Before(i, j) /\ Before(j, i))
<1>1. list[i] \in Closers \cup {"http"} /\ list[j] \in Closers \cup {"http"}
  BY DEF TypeOK
<1>2. Rank(list[i]) \in 1..3 /\ Rank(list[j]) \in 1..3 BY <1>1, Ranks
<1>3. i \in Nat /\ j \in Nat BY DEF TypeOK
<1>. QED BY <1>2, <1>3 DEF Before

(* One file at a time is shut down, if none times out.                     *)
LEMMA OneFileCall ==
  ASSUME TypeOK, InTurn, NoFileIsLate,
         NEW i \in DOMAIN list, NEW j \in DOMAIN list, list[i] \in Files, list[j] \in Files,
         stage[i] \notin {"idle", "done"}, stage[j] \notin {"idle", "done"}
  PROVE  i = j
<1>1. i \notin late /\ j \notin late BY DEF NoFileIsLate
<1>. QED BY <1>1, BeforeOrders DEF InTurn

(* The main goroutine waits for what comes before.                         *)
LEMMA TurnComes ==
  ASSUME TypeOK, NEW i \in DOMAIN list, Turn(i), NEW j \in DOMAIN list, Before(j, i)
  PROVE  stage[j] = "done" \/ j \in late
<1>1. j \notin left BY BeforeOrders DEF Turn
<1>. QED BY <1>1 DEF TypeOK, Turn

-----------------------------------------------------------------------------
(* The steps.                                                              *)

(* Every step is one of the log files, or leaves them alone.               *)
LEMMA StepsOfLog ==
  ASSUME TypeOK, Next \/ UNCHANGED vars
  PROVE  LogNext \/ UNCHANGED logVars
<1>1. ASSUME NEW f \in Files, OpenAgain(f) PROVE LogNext \/ UNCHANGED logVars
  BY <1>1 DEF OpenAgain, Register, LogNext
<1>2. ASSUME Boot PROVE LogNext \/ UNCHANGED logVars
  BY <1>2 DEF Boot, Register, LogNext
<1>3. ASSUME NEW i \in DOMAIN list, Call(i) PROVE LogNext \/ UNCHANGED logVars
  BY <1>3 DEF Call, ServiceCall, FileCall, CloseCheck, LogNext
<1>4. ASSUME NEW q \in Requests, RequestBegins(q) \/ RequestLogs(q) \/ RequestEnds(q)
      PROVE  LogNext \/ UNCHANGED logVars
  BY <1>4 DEF RequestBegins, RequestLogs, RequestEnds, LogNext, TypeOK
<1>5. ASSUME NEW f \in Files, FileFlush(f) \/ FileDel(f) \/ FileEnds(f)
      PROVE  LogNext \/ UNCHANGED logVars
  BY <1>5 DEF FileFlush, FileDel, FileEnds, LogNext
<1>6. CASE NextDay BY <1>6 DEF NextDay, LogNext
<1>7. CASE SignalStep
  BY <1>7 DEF SignalStep, SignalKills, Terminate, OtherSignal, SignalDropped
<1>8. ASSUME LoopAgain \/ Exit \/ \E i \in DOMAIN list : Launch(i) \/ CallReturned(i) \/ TimesOut(i)
      PROVE  UNCHANGED logVars
  BY <1>8 DEF LoopAgain, Exit, Launch, CallReturned, TimesOut
<1>9. CASE UNCHANGED vars BY <1>9 DEF vars
<1>. QED
  BY <1>1, <1>2, <1>3, <1>4, <1>5, <1>6, <1>7, <1>8, <1>9 DEF Next, MainStep, CallStep

LEMMA LogPartInv ==
  ASSUME PInv, Next \/ UNCHANGED vars
  PROVE  LogInv' /\ LogInOrder' /\ LogTypeOK'
BY StepsOfLog, LogNextInv, LogNextInOrder DEF PInv, LogInv

(* The flushes, the days.                                                  *)
LEMMA Idles ==
  ASSUME PInv, LogTypeOK', UNCHANGED <<mainVars, isOpen, reqVars, closed>>
  PROVE  TypeOK' /\ CallsInv'
<1>1. UNCHANGED <<main, sent, list, stage, left, late, isOpen, rq, target, closed>>
  BY DEF mainVars, reqVars
<1>2. TypeOK'
  BY <1>1 DEF PInv, TypeOK
<1>3. CallsInv'
  BY <1>1 DEF PInv, CallsInv, NotStarted, InTurn, CallsFit, ClosedByCall, ClosingOpen, Drained,
              ClosedOnce, NoFileIsLate, Before, InFlight
<1>. QED BY <1>2, <1>3

(* The signals, and the main loop.                                         *)
LEMMA MainMoves ==
  ASSUME PInv, LogTypeOK', UNCHANGED <<list, stage, left, late, isOpen, reqVars, closed>>,
         sent' \in 0..MaxSignals,
         \/ main \in {"boot", "wait", "busy"} /\ main' \in {"wait", "busy", "exited", "killed"}
         \/ UNCHANGED main
         \/ main' = "exited"
  PROVE  TypeOK' /\ CallsInv'
<1>1. UNCHANGED <<list, stage, left, late, isOpen, rq, target, closed>>
  BY DEF reqVars
<1>2. TypeOK'
  BY <1>1 DEF PInv, TypeOK
<1>3. CallsInv'
  BY <1>1 DEF PInv, CallsInv, NotStarted, InTurn, CallsFit, ClosedByCall, ClosingOpen, Drained,
              ClosedOnce, NoFileIsLate, Before, InFlight
<1>. QED BY <1>2, <1>3

LEMMA TerminateInv ==
  ASSUME PInv, LogTypeOK', Terminate
  PROVE  TypeOK' /\ CallsInv'
<1>1. /\ UNCHANGED <<list, stage, late, isOpen, rq, target, closed>>
      /\ main = "wait" /\ main' = "shutdown" /\ left' = DOMAIN list
      /\ sent' = sent + 1 /\ sent < MaxSignals
  BY DEF Terminate, Send, reqVars, logVars
<1>2. TypeOK'
  BY <1>1 DEF PInv, CallsInv, NotStarted, TypeOK
<1>3. CallsInv'
  BY <1>1 DEF PInv, CallsInv, NotStarted, InTurn, CallsFit, ClosedByCall, ClosingOpen, Drained,
              ClosedOnce, NoFileIsLate, Before, InFlight
<1>. QED BY <1>2, <1>3

(* What is registered before the shutdown.                                 *)
LEMMA RegisterInv ==
  ASSUME PInv, LogTypeOK', NEW x \in Closers \cup {"http"}, Register(x),
         main \in {"boot", "wait", "busy"},
         UNCHANGED <<main, sent, left, late, isOpen, reqVars>>
  PROVE  TypeOK' /\ CallsInv'
<1>1. UNCHANGED <<main, sent, left, late, isOpen, rq, target, closed>>
  BY DEF reqVars, Register, Open, logVars
<1>2. /\ list \in Seq(Closers \cup {"http"}) /\ stage \in [DOMAIN list -> CallStages]
      /\ list' = Append(list, x) /\ stage' = Append(stage, "idle")
  BY DEF PInv, TypeOK, Register
<1>3. stage \in Seq(CallStages)
  BY <1>2
<1>4. /\ list' \in Seq(Closers \cup {"http"}) /\ stage' \in [DOMAIN list' -> CallStages]
      /\ \A i \in DOMAIN list : i \in DOMAIN list' /\ list'[i] = list[i] /\ stage'[i] = stage[i]
      /\ \A i \in DOMAIN list' : i \in DOMAIN list \/ stage'[i] = "idle"
  <2>1. "idle" \in CallStages /\ Len(stage) = Len(list) BY <1>2, <1>3 DEF CallStages
  <2>. HIDE DEF Closers
  <2>2. stage' \in Seq(CallStages) /\ list' \in Seq(Closers \cup {"http"})
    BY <1>2, <1>3, <2>1
  <2>3. Len(stage') = Len(stage) + 1 /\ Len(list') = Len(list) + 1
    BY <1>2, <1>3
  <2>4. stage' \in [DOMAIN list' -> CallStages]
    <3>1. stage' \in [1..Len(stage') -> CallStages] BY <2>2
    <3>2. DOMAIN list' = 1..Len(list') BY <2>2
    <3>. QED BY <2>1, <2>3, <3>1, <3>2
  <2>5. /\ \A i \in DOMAIN list : i \in DOMAIN list' /\ list'[i] = list[i] /\ stage'[i] = stage[i]
        /\ \A i \in DOMAIN list' : i \in DOMAIN list \/ stage'[i] = "idle"
    BY <1>2, <1>3, <2>1
  <2>. QED BY <2>2, <2>4, <2>5
<1>5. /\ left = {} /\ late = {} /\ \A i \in DOMAIN list' : stage'[i] = "idle"
  BY <1>4 DEF PInv, CallsInv, NotStarted
<1>6. TypeOK'
  BY <1>1, <1>4, <1>5 DEF PInv, TypeOK
<1>7. ClosedByCall' /\ Drained'
  <2>1. (\A f \in Files : ~closed[f]) /\ (\A s \in Services : isOpen[s])
    <3>1. \A i \in DOMAIN list : stage[i] = "idle" BY DEF PInv, CallsInv, NotStarted
    <3>. QED BY <3>1 DEF PInv, CallsInv, ClosedByCall
  <2>2. InFlight # {} => "http" \in ToSet(list')
    BY <1>4 DEF PInv, CallsInv, Drained, ToSet
  <2>. QED BY <1>1, <1>5, <2>1, <2>2 DEF ClosedByCall, Drained, InFlight
<1>8. NotStarted' /\ InTurn' /\ CallsFit' /\ ClosingOpen' /\ ClosedOnce'
  BY <1>1, <1>5 DEF PInv, CallsInv, NotStarted, InTurn, CallsFit, ClosingOpen, ClosedOnce, NoFileIsLate
<1>. QED BY <1>6, <1>7, <1>8 DEF CallsInv

(* The calls begin in their turn, and end or time out.                     *)
LEMMA LaunchInv ==
  ASSUME PInv, LogTypeOK', NEW i \in DOMAIN list, Launch(i)
  PROVE  TypeOK' /\ CallsInv'
<1>1. /\ UNCHANGED <<main, sent, list, left, late, isOpen, rq, target, closed>>
      /\ main = "shutdown" /\ stage[i] = "idle" /\ i \in left
      /\ stage' = [stage EXCEPT ![i] = "running"]
  BY DEF Launch, Turn, SetStage, reqVars, logVars
<1>2. /\ stage \in [DOMAIN list -> CallStages] /\ stage'[i] = "running"
      /\ \A j \in DOMAIN list : j # i => stage'[j] = stage[j]
  BY <1>1 DEF PInv, TypeOK
<1>3. TypeOK'
  BY <1>1, <1>2 DEF PInv, TypeOK, CallStages
<1>4. InTurn'
  <2> SUFFICES ASSUME NEW j \in DOMAIN list, NEW k \in DOMAIN list,
                      stage'[k] # "idle", Before(j, k)
               PROVE  stage'[j] = "done" \/ j \in late
    BY <1>1 DEF InTurn, Before
  <2>1. CASE k = i
    <3>1. j # i BY <2>1, BeforeOrders DEF PInv
    <3>. QED BY <1>2, <2>1, <3>1, TurnComes DEF PInv, Launch
  <2>2. CASE k # i
    <3>1. stage[j] = "done" \/ j \in late BY <1>2, <2>2 DEF PInv, CallsInv, InTurn
    <3>. QED BY <1>1, <1>2, <3>1
  <2>. QED BY <2>1, <2>2
<1>5. ClosedByCall' /\ Drained'
  <2>1. \A j \in DOMAIN list : stage'[j] = "done" <=> stage[j] = "done" BY <1>1, <1>2
  <2>. QED BY <1>1, <2>1 DEF PInv, CallsInv, ClosedByCall, Drained, InFlight
<1>6. NotStarted' /\ CallsFit' /\ ClosingOpen' /\ ClosedOnce'
  BY <1>1, <1>2 DEF PInv, CallsInv, NotStarted, CallsFit, ClosingOpen, ClosedOnce, NoFileIsLate
<1>. QED BY <1>3, <1>4, <1>5, <1>6 DEF CallsInv

LEMMA ReturnInv ==
  ASSUME PInv, LogTypeOK', NEW i \in DOMAIN list, CallReturned(i) \/ TimesOut(i)
  PROVE  TypeOK' /\ CallsInv'
<1>1. /\ UNCHANGED <<main, sent, list, stage, isOpen, rq, target, closed>>
      /\ main = "shutdown" /\ i \in left /\ left' = left \ {i}
      /\ \/ stage[i] = "done" /\ late' = late
         \/ list[i] \in Slow /\ late' = late \cup {i}
  BY DEF CallReturned, TimesOut, Turn, reqVars, logVars
<1>2. TypeOK'
  BY <1>1 DEF PInv, TypeOK
<1>3. InTurn'
  BY <1>1 DEF PInv, CallsInv, InTurn, Before
<1>4. CallsFit'
  BY <1>1 DEF PInv, CallsInv, CallsFit
<1>5. NotStarted' /\ ClosedByCall' /\ ClosingOpen' /\ Drained' /\ ClosedOnce'
  BY <1>1 DEF PInv, CallsInv, NotStarted, ClosedByCall, ClosingOpen, Drained, ClosedOnce, NoFileIsLate,
              InFlight
<1>. QED BY <1>2, <1>3, <1>4, <1>5 DEF CallsInv

(* What a call that runs may do to the stages.                             *)
LEMMA CallKeepsTurns ==
  ASSUME PInv, NEW i \in DOMAIN list, stage[i] \notin {"idle", "done"}, NEW s \in CallStages,
         s # "idle", SetStage(i, s), UNCHANGED <<list, left, late>>
  PROVE  /\ stage' \in [DOMAIN list' -> CallStages] /\ stage'[i] = s
         /\ \A j \in DOMAIN list : j # i => stage'[j] = stage[j]
         /\ \A j \in DOMAIN list : stage[j] = "done" => stage'[j] = "done"
         /\ InTurn'
<1>1. /\ stage' \in [DOMAIN list' -> CallStages] /\ stage'[i] = s
      /\ \A j \in DOMAIN list : j # i => stage'[j] = stage[j]
  BY DEF SetStage, PInv, TypeOK
<1>2. \A j \in DOMAIN list : /\ stage[j] = "done" => stage'[j] = "done"
                             /\ stage'[j] # "idle" => stage[j] # "idle"
  BY <1>1
<1>3. InTurn'
  BY <1>2 DEF PInv, CallsInv, InTurn, Before
<1>. QED BY <1>1, <1>2, <1>3

LEMMA ServiceCallInv ==
  ASSUME PInv, LogTypeOK', NEW i \in DOMAIN list, main = "shutdown", ServiceCall(i)
  PROVE  TypeOK' /\ CallsInv'
<1>1. /\ UNCHANGED <<main, sent, list, left, late, rq, target, closed>>
      /\ stage[i] = "running" /\ SetStage(i, "done") /\ list[i] \notin Files
      /\ list[i] = "http" => InFlight = {}
      /\ isOpen' = [s \in Services |-> isOpen[s] /\ s # list[i]]
  BY DEF ServiceCall, reqVars, logVars
<1>2. /\ stage' \in [DOMAIN list' -> CallStages] /\ stage'[i] = "done"
      /\ \A j \in DOMAIN list : j # i => stage'[j] = stage[j]
      /\ \A j \in DOMAIN list : stage[j] = "done" => stage'[j] = "done"
      /\ InTurn'
  BY <1>1, CallKeepsTurns DEF CallStages
<1>3. TypeOK'
  BY <1>1, <1>2 DEF PInv, TypeOK
<1>4. ClosedByCall'
  <2>1. ASSUME NEW s \in Services, ~isOpen'[s]
        PROVE  \E j \in DOMAIN list : list[j] = s /\ stage'[j] = "done"
    <3>1. CASE s = list[i] BY <1>2, <3>1
    <3>2. CASE s # list[i]
      <4>1. ~isOpen[s] BY <1>1, <2>1, <3>2, Zenon
      <4>. QED BY <1>2, <4>1 DEF PInv, CallsInv, ClosedByCall
    <3>. QED BY <3>1, <3>2
  <2>2. ASSUME NEW f \in Files, closed[f]
        PROVE  \E j \in DOMAIN list : list[j] = f /\ stage'[j] = "done"
    BY <1>2, <2>2 DEF PInv, CallsInv, ClosedByCall
  <2>. QED BY <1>1, <2>1, <2>2 DEF ClosedByCall
<1>5. Drained'
  BY <1>1, <1>2 DEF PInv, CallsInv, Drained, InFlight
<1>6. NotStarted' /\ CallsFit' /\ ClosingOpen' /\ ClosedOnce'
  BY <1>1, <1>2 DEF PInv, CallsInv, NotStarted, CallsFit, ClosingOpen, ClosedOnce, NoFileIsLate
<1>. QED BY <1>2, <1>3, <1>4, <1>5, <1>6 DEF CallsInv

LEMMA FileCallInv ==
  ASSUME PInv, LogTypeOK', NEW i \in DOMAIN list, main = "shutdown", FileCall(i)
  PROVE  TypeOK' /\ CallsInv'
<1>1. /\ UNCHANGED <<sent, list, left, late, isOpen, rq, target>> /\ list[i] \in Files
      /\ closed \in [Files -> BOOLEAN] /\ list[i] # "http"
  BY DEF FileCall, reqVars, PInv, TypeOK, LogTypeOK
<1>2. CASE stage[i] = "closing" /\ closed[list[i]]
  <2>1. ~ NoFileIsLate BY <1>2 DEF PInv, CallsInv, ClosingOpen
  <2>2. main' = "panicked" /\ UNCHANGED <<logVars, stage>>
    BY <1>2 DEF FileCall, CloseCheck
  <2>3. UNCHANGED <<stage, closed>> BY <2>2 DEF logVars
  <2>4. TypeOK' BY <1>1, <2>2, <2>3 DEF PInv, TypeOK
  <2>5. ClosingOpen' /\ ClosedOnce' BY <1>1, <2>1 DEF ClosingOpen, ClosedOnce, NoFileIsLate
  <2>6. NotStarted' /\ InTurn' /\ CallsFit' /\ ClosedByCall' /\ Drained'
    BY <1>1, <2>2, <2>3 DEF PInv, CallsInv, NotStarted, InTurn, CallsFit, ClosedByCall, Drained,
                            InFlight, Before
  <2>. QED BY <2>4, <2>5, <2>6 DEF CallsInv
<1> SUFFICES ASSUME ~ (stage[i] = "closing" /\ closed[list[i]])
             PROVE  TypeOK' /\ CallsInv'
  BY <1>2
<1>3. PICK s \in {"checked", "written", "closing", "done"} :
        /\ stage[i] \notin {"idle", "done"} /\ SetStage(i, s) /\ UNCHANGED main
        /\ \/ /\ UNCHANGED closed
              /\ s = "closing" => ~closed[list[i]]
           \/ s = "done" /\ closed' = [closed EXCEPT ![list[i]] = TRUE]
  <2>1. CASE stage[i] = "running"
    <3>1. SetStage(i, "checked") \/ SetStage(i, "written")
      BY <2>1 DEF FileCall, CloseCheck
    <3>. QED BY <2>1, <3>1 DEF FileCall, CloseCheck, logVars
  <2>2. CASE stage[i] = "checked"
    BY <2>2 DEF FileCall, CloseCheck, WriteBuffer
  <2>3. CASE stage[i] = "written"
    <3>1. /\ SetStage(i, IF closed[list[i]] THEN "done" ELSE "closing")
          /\ UNCHANGED <<logVars, main>>
      BY <2>3 DEF FileCall, CloseCheck
    <3>2. CASE closed[list[i]] BY <2>3, <3>1, <3>2 DEF logVars
    <3>3. CASE ~closed[list[i]] BY <2>3, <3>1, <3>3 DEF logVars
    <3>. QED BY <3>2, <3>3
  <2>4. CASE stage[i] = "closing"
    BY <2>4 DEF FileCall, CloseCheck, CloseChannel
  <2>. QED BY <2>1, <2>2, <2>3, <2>4 DEF FileCall, CloseCheck
<1>4. /\ stage' \in [DOMAIN list' -> CallStages] /\ stage'[i] = s
      /\ \A j \in DOMAIN list : j # i => stage'[j] = stage[j]
      /\ \A j \in DOMAIN list : stage[j] = "done" => stage'[j] = "done"
      /\ InTurn'
  BY <1>1, <1>3, CallKeepsTurns DEF CallStages
<1>5. TypeOK'
  BY <1>1, <1>3, <1>4 DEF PInv, TypeOK
<1>6. ClosedByCall'
  <2>1. ASSUME NEW t \in Services, ~isOpen'[t]
        PROVE  \E j \in DOMAIN list : list[j] = t /\ stage'[j] = "done"
    BY <1>1, <1>4, <2>1 DEF PInv, CallsInv, ClosedByCall
  <2>2. ASSUME NEW f \in Files, closed'[f]
        PROVE  \E j \in DOMAIN list : list[j] = f /\ stage'[j] = "done"
    <3>1. closed[f] \/ (f = list[i] /\ s = "done")
      <4>1. CASE closed' = closed BY <2>2, <4>1
      <4>2. CASE s = "done" /\ closed' = [closed EXCEPT ![list[i]] = TRUE]
        BY <1>1, <2>2, <4>2
      <4>. QED BY <1>3, <4>1, <4>2
    <3>. QED BY <1>4, <3>1 DEF PInv, CallsInv, ClosedByCall
  <2>. QED BY <1>1, <2>1, <2>2 DEF ClosedByCall
<1>7. ClosingOpen'
  <2> SUFFICES ASSUME NoFileIsLate, NEW j \in DOMAIN list, stage'[j] = "closing"
               PROVE  ~closed'[list[j]]
    BY <1>1 DEF ClosingOpen, NoFileIsLate
  <2>1. CASE j = i BY <1>3, <1>4, <2>1
  <2>2. CASE j # i
    <3>1. stage[j] = "closing" BY <1>4, <2>2
    <3>2. list[j] \in Files /\ ~closed[list[j]]
      BY <3>1 DEF PInv, CallsInv, CallsFit, ClosingOpen
    <3>3. FALSE BY <1>1, <1>3, <2>2, <3>1, <3>2, OneFileCall DEF PInv, CallsInv
    <3>. QED BY <3>3
  <2>. QED BY <2>1, <2>2
<1>8. Drained'
  BY <1>1, <1>4 DEF PInv, CallsInv, Drained, InFlight
<1>9. NotStarted' /\ CallsFit' /\ ClosedOnce'
  BY <1>1, <1>3, <1>4 DEF PInv, CallsInv, NotStarted, CallsFit, ClosedOnce
<1>. QED BY <1>4, <1>5, <1>6, <1>7, <1>8, <1>9 DEF CallsInv

(* The requests.                                                           *)
LEMMA RequestInv ==
  ASSUME PInv, LogTypeOK', NEW q \in Requests,
         RequestBegins(q) \/ RequestLogs(q) \/ RequestEnds(q)
  PROVE  TypeOK' /\ CallsInv'
<1>1. UNCHANGED <<main, sent, list, stage, left, late, isOpen, target, closed>>
  BY DEF RequestBegins, RequestLogs, RequestEnds, mainVars, logVars, WriteBuffer
<1>2. PICK s \in {"running", "checked", "ended"} : rq' = [rq EXCEPT ![q] = s]
  BY DEF RequestBegins, RequestLogs, RequestEnds
<1>3. rq[q] # "new" \/ Listening
  BY DEF RequestBegins, RequestLogs, RequestEnds
<1>4. TypeOK'
  BY <1>1, <1>2 DEF PInv, TypeOK
<1>5. rq[q] = "ended" => s = "ended"
  BY <1>2 DEF RequestBegins, RequestLogs, RequestEnds, PInv, TypeOK
<1>6. Drained'
  <2>1. rq \in [Requests -> {"new", "running", "checked", "ended"}] BY DEF PInv, TypeOK
  <2>2. CASE rq[q] = "new"
    <3>1. "http" \in ToSet(list) /\ \A i \in DOMAIN list : list[i] = "http" => stage[i] = "idle"
      BY <1>3, <2>2 DEF Listening
    <3>. QED BY <1>1, <3>1 DEF Drained
  <2>3. CASE rq[q] # "new"
    <3>1. InFlight' \subseteq InFlight BY <1>2, <1>5, <2>1, <2>3 DEF InFlight
    <3>. QED BY <1>1, <3>1 DEF PInv, CallsInv, Drained
  <2>. QED BY <2>2, <2>3
<1>7. NotStarted' /\ InTurn' /\ CallsFit' /\ ClosedByCall' /\ ClosingOpen' /\ ClosedOnce'
  BY <1>1 DEF PInv, CallsInv, NotStarted, InTurn, CallsFit, ClosedByCall, ClosingOpen,
              ClosedOnce, NoFileIsLate, Before
<1>. QED BY <1>4, <1>6, <1>7 DEF CallsInv

LEMMA PNext ==
  ASSUME PInv, Next \/ UNCHANGED vars
  PROVE  PInv'
<1>1. LogInv' /\ LogInOrder' /\ LogTypeOK'
  BY LogPartInv
<1> SUFFICES TypeOK' /\ CallsInv'
  BY <1>1 DEF PInv
<1>2. CASE Boot
  <2>1. CASE UNCHANGED main
    <3>1. CASE ToRegister = {} /\ main' = "wait" /\ UNCHANGED <<list, stage, logVars>>
      BY <1>1, <1>2, <2>1, <3>1, MainMoves DEF Boot, logVars, PInv, TypeOK
    <3>2. CASE \E k \in ToRegister : Register(BootSeq[k])
      <4>1. PICK k \in ToRegister : Register(BootSeq[k]) BY <3>2
      <4>2. BootSeq[k] \in Closers \cup {"http"} BY DEF ToRegister
      <4>. QED BY <1>1, <1>2, <2>1, <4>1, <4>2, RegisterInv DEF Boot
    <3>. QED BY <1>2, <3>1, <3>2 DEF Boot
  <2>2. CASE ~ UNCHANGED main
    BY <1>1, <1>2, <2>2, MainMoves DEF Boot, logVars, PInv, TypeOK
  <2>. QED BY <2>1, <2>2
<1>3. CASE LoopAgain \/ Exit \/ SignalKills \/ OtherSignal \/ SignalDropped
  <2>1. sent' \in 0..MaxSignals
    BY <1>3 DEF LoopAgain, Exit, SignalKills, OtherSignal, SignalDropped, Send, PInv, TypeOK
  <2>. QED
    BY <1>1, <1>3, <2>1, MainMoves
       DEF LoopAgain, Exit, SignalKills, OtherSignal, SignalDropped, logVars
<1>4. CASE Terminate
  BY <1>1, <1>4, TerminateInv
<1>5. ASSUME NEW i \in DOMAIN list, Launch(i) \/ CallReturned(i) \/ TimesOut(i)
      PROVE  TypeOK' /\ CallsInv'
  BY <1>1, <1>5, LaunchInv, ReturnInv
<1>6. CASE NextDay
  BY <1>1, <1>6, Idles DEF NextDay, Midnight
<1>7. ASSUME NEW f \in Files, FileFlush(f) \/ FileDel(f) \/ FileEnds(f)
      PROVE  TypeOK' /\ CallsInv'
  BY <1>1, <1>7, Idles DEF FileFlush, FileDel, FileEnds, FlushTick, DelTick, RunEnds
<1>8. ASSUME NEW f \in Files, OpenAgain(f) PROVE TypeOK' /\ CallsInv'
  BY <1>1, <1>8, RegisterInv DEF OpenAgain
<1>9. ASSUME NEW i \in Entries, CallStep(i) PROVE TypeOK' /\ CallsInv'
  <2>1. i \in DOMAIN list /\ Call(i) /\ Alive BY <1>9 DEF CallStep
  <2>2. main = "shutdown"
    <3>1. stage[i] # "idle" BY <2>1 DEF Call, ServiceCall, FileCall, CloseCheck
    <3>. QED BY <2>1, <3>1 DEF Alive, PInv, CallsInv, NotStarted, TypeOK
  <2>. QED BY <1>1, <2>1, <2>2, ServiceCallInv, FileCallInv DEF Call
<1>10. ASSUME NEW q \in Requests, RequestBegins(q) \/ RequestLogs(q) \/ RequestEnds(q)
       PROVE  TypeOK' /\ CallsInv'
  BY <1>1, <1>10, RequestInv
<1>11. CASE UNCHANGED vars
  BY <1>1, <1>11, Idles DEF vars, logVars
<1>. QED
  BY <1>2, <1>3, <1>4, <1>5, <1>6, <1>7, <1>8, <1>9, <1>10, <1>11
     DEF Next, MainStep, SignalStep

LEMMA PInit == Init => PInv
<1> SUFFICES ASSUME Init PROVE PInv
  OBVIOUS
<1>1. LogInv /\ LogInOrder /\ LogTypeOK
  BY LogInitInv, LogInitInOrder DEF Init, LogInv
<1>2. DOMAIN list = {} /\ \A f \in Files : ~closed[f]
  BY DEF Init, LogInit
<1>3. TypeOK
  BY <1>1, <1>2 DEF Init, TypeOK
<1>4. InFlight = {}
  BY DEF Init, InFlight
<1>5. CallsInv
  BY <1>2, <1>4 DEF Init, CallsInv, NotStarted, InTurn, CallsFit, ClosedByCall, ClosingOpen,
                    Drained, ClosedOnce, NoFileIsLate
<1>. QED BY <1>1, <1>3, <1>5 DEF PInv

(* A request in flight keeps the server's Shutdown from returning, and so  *)
(* everything after it from beginning; a service that is still closing     *)
(* does the same for the files.                                            *)
LEMMA InvUsers == PInv => UsersCloseFirst
<1> SUFFICES ASSUME PInv PROVE UsersCloseFirst
  OBVIOUS
<1> USE DEF PInv, CallsInv
<1>1. ASSUME NEW i \in DOMAIN list, NEW j \in DOMAIN list, stage[j] = "done",
             Rank(list[i]) < Rank(list[j])
      PROVE  stage[i] = "done" \/ i \in late
  BY <1>1 DEF InTurn, Before
<1>2. ASSUME NEW i \in DOMAIN list
      PROVE  /\ Rank(list[i]) \in 1..3
             /\ list[i] \in Files <=> Rank(list[i]) = 3
             /\ list[i] = "http" <=> Rank(list[i]) = 1
  <2>1. list[i] \in Closers \cup {"http"} BY DEF TypeOK
  <2>. HIDE DEF Closers
  <2>. QED BY <2>1, Ranks
<1>3. ASSUME InFlight # {}, \A i \in late : list[i] # "http"
      PROVE  (\A s \in Services : isOpen[s]) /\ (\A f \in Files : ~closed[f])
  <2>1. PICK h \in DOMAIN list : list[h] = "http" BY <1>3 DEF Drained, ToSet
  <2>2. stage[h] # "done" /\ h \notin late BY <1>3, <2>1 DEF Drained
  <2>3. ASSUME NEW j \in DOMAIN list, stage[j] = "done", list[j] # "http" PROVE FALSE
    <3>1. Rank(list[h]) = 1 /\ Rank(list[j]) \in 2..3 BY <1>2, <2>1, <2>3
    <3>. QED BY <1>1, <2>2, <2>3, <3>1
  <2>. QED BY <2>3 DEF ClosedByCall
<1>4. ASSUME NEW i \in DOMAIN list, list[i] \notin Files, i \notin late, stage[i] # "done",
             NEW f \in Files, closed[f]
      PROVE  FALSE
  <2>1. PICK j \in DOMAIN list : list[j] = f /\ stage[j] = "done" BY <1>4 DEF ClosedByCall
  <2>2. Rank(list[i]) \in 1..2 /\ Rank(list[j]) = 3 BY <1>2, <1>4, <2>1
  <2>. QED BY <1>1, <1>4, <2>1, <2>2
<1>. QED BY <1>3, <1>4 DEF UsersCloseFirst

-----------------------------------------------------------------------------
(* The theorems.                                                           *)

THEOREM Invariant == Spec => []PInv
BY PInit, PNext, PTL DEF Spec

(* The parts of Graceful, its calls and the log files keep their types,    *)
(* however many files are opened again and whatever times out.             *)
THEOREM ProcessTypeOK == Spec => []TypeOK
<1>1. PInv => TypeOK BY DEF PInv
<1>. QED BY Invariant, <1>1, PTL

(* A channel is closed once, however often its file was registered, unless *)
(* an AfterShutdown of a file times out (auto_back_file.go:55, 129-136,    *)
(* graceful.go:124).                                                       *)
THEOREM ChannelsCloseOnce == Spec => []ClosedOnce
<1>1. PInv => ClosedOnce BY DEF PInv, CallsInv
<1>. QED BY Invariant, <1>1, PTL

(* Users are closed before what they use (shutdownAction,                  *)
(* graceful.go:105), unless they timed out.                                *)
THEOREM UsersBeforeUsed == Spec => []UsersCloseFirst
BY Invariant, InvUsers, PTL

(* The records of a log are in their order and each is there once, unless  *)
(* the disk failed (flush and fileCopyWithIndex, auto_back_file.go:228).   *)
THEOREM RecordsInOrder == Spec => []LogInOrder
<1>1. PInv => LogInOrder BY DEF PInv
<1>. QED BY Invariant, <1>1, PTL

(* Where no file's name is another's and digits, which is so of the names  *)
(* in gof.go, the files are logs that keep what is younger than SaveDays   *)
(* days, whatever fails and whenever the process ends.                     *)
THEOREM FilesImplementLog ==
  ASSUME Alike = {} PROVE Spec => ImplementsLog
<1>1. Init => Store!LogInit
  BY LogInitIsInit DEF Init
<1>2. PInv /\ [Next]_vars => [Store!Step \/ Store!Midnight]_(Store!vars)
  BY StepsOfLog, LogNextIsStep DEF PInv
<1>. QED BY <1>1, <1>2, Invariant, PTL DEF Spec, ImplementsLog, Store!LogSpec
=============================================================================
