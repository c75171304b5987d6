--------------------------- MODULE Journal_proofs ---------------------------
(***************************************************************************)
(* Theorems about Journal, for every number of days, appends and openings: *)
(* a record whose append has returned stays in the files, and the journal  *)
(* implements DurableLog; the tables are what replaying the files gives,   *)
(* and they show what every append that returned has recorded.             *)
(*                                                                         *)
(* The first half is about which records are in the files (DurableInv),    *)
(* the second about the order in which they are and what the tables make   *)
(* of them (ViewInv).                                                      *)
(***************************************************************************)
EXTENDS Journal, TLAPS, FiniteSetTheorems, SequenceTheorems, WellFoundedInduction

-----------------------------------------------------------------------------
(* The inductive invariant.                                                *)

\* The lines of a file, its flag and its two counters.
FileType(f) ==
  /\ f \in [lines : Seq(Range(f.lines)), tail : BOOLEAN, synced : Nat, redone : Nat]
  /\ f.synced <= Len(f.lines) /\ f.redone <= Len(f.lines)

Running == {"idle", "write", "sync", "upsert"}
Appending == {"write", "sync", "upsert"}

JTypeOK ==
  /\ DOMAIN disk = Days /\ disk = [d \in Days |-> disk[d]]
  /\ \A d \in Days : FileType(disk[d])
  /\ pc \in Running \union {"down", "repair", "rewrite"}
  /\ pc \in Appending => rec.day \in Days
  /\ buf.lines \in Seq(Range(buf.lines))
  /\ pc = "rewrite" => buf.day \in Days /\ disk[buf.day] = Empty
  /\ pc # "rewrite" => buf.lines = <<>>
  /\ today \in Days

\* The lines of a file that survive whatever stops the process or the machine,
\* or are counted as damaged: an fsync has covered them, or a repair rewrote them.
Kept(f) == {f.lines[i] : i \in 1 .. f.synced} \union {f.lines[i] : i \in 1 .. f.redone}

Safe == Range(buf.lines) \union UNION {Kept(disk[d]) : d \in Days}

\* While a process runs, a partial line is one it has written itself; the record
\* being appended has reached its file when it is synced and is safe afterwards.
DurableInv ==
  /\ JTypeOK
  /\ Sound \subseteq Safe
  /\ damaged = {} => Garbled \notin Held
  /\ pc \in Running /\ (\E d \in Days : disk[d].tail) => HasCut
  /\ pc = "sync" => rec \in damaged \union Range(disk[rec.day].lines)
  /\ pc = "upsert" => rec \in damaged \union Safe

-----------------------------------------------------------------------------
(* One file.                                                               *)

LEMMA KeptStored ==
  ASSUME NEW f, FileType(f)
  PROVE  Kept(f) \subseteq Range(f.lines)
  BY DEF FileType, Kept, Range

LEMMA EmptyFile ==
  FileType(Empty) /\ Range(Empty.lines) = {} /\ ~Empty.tail
  BY DEF FileType, Empty, Range

\* Writing a line keeps what was kept and stores that line.
LEMMA LineWritten ==
  ASSUME NEW f, FileType(f), NEW r,
         NEW g, g = [f EXCEPT !.lines = Append(@, r), !.tail = FALSE]
  PROVE  /\ FileType(g) /\ ~g.tail
         /\ Kept(g) = Kept(f)
         /\ Range(g.lines) = Range(f.lines) \union {r}
<1> DEFINE S == Range(f.lines) \union {r}
<1>1. f.lines \in Seq(S) /\ Len(f.lines) \in Nat
  BY DEF FileType
<1>2. /\ g.lines = Append(f.lines, r) /\ g.tail = FALSE
      /\ g.synced = f.synced /\ g.redone = f.redone
      /\ g = [lines |-> g.lines, tail |-> g.tail, synced |-> g.synced, redone |-> g.redone]
  BY DEF FileType
<1>3. /\ g.lines \in Seq(S) /\ Len(g.lines) = Len(f.lines) + 1
      /\ g.lines[Len(f.lines) + 1] = r
      /\ \A i \in 1 .. Len(f.lines) : g.lines[i] = f.lines[i]
  BY <1>1, <1>2
<1>4. Range(g.lines) = S
  <2>1. \A x \in S : \E i \in DOMAIN g.lines : g.lines[i] = x
    BY <1>1, <1>3 DEF Range
  <2>2. \A i \in DOMAIN g.lines : g.lines[i] \in S
    BY <1>3
  <2> QED
    BY <2>1, <2>2 DEF Range
<1>5. FileType(g)
  <2>1. g \in [lines : Seq(S), tail : BOOLEAN, synced : Nat, redone : Nat]
    BY <1>2, <1>3 DEF FileType
  <2>2. g.synced <= Len(g.lines) /\ g.redone <= Len(g.lines)
    BY <1>1, <1>2, <1>3 DEF FileType
  <2> QED
    BY <1>4, <2>1, <2>2 DEF FileType
<1>6. Kept(g) = Kept(f)
  BY <1>1, <1>2, <1>3 DEF Kept, FileType
<1> QED
  BY <1>2, <1>4, <1>5, <1>6

\* An fsync keeps every line of the file.
LEMMA FileSynced ==
  ASSUME NEW f, FileType(f),
         NEW g, g = [f EXCEPT !.synced = Len(f.lines), !.redone = 0]
  PROVE  /\ FileType(g) /\ g.tail = f.tail /\ g.lines = f.lines
         /\ Kept(g) = Range(f.lines)
<1>1. /\ g.lines = f.lines /\ g.tail = f.tail
      /\ g.synced = Len(f.lines) /\ g.redone = 0
      /\ g = [lines |-> g.lines, tail |-> g.tail, synced |-> g.synced, redone |-> g.redone]
  BY DEF FileType
<1>2. FileType(g)
  BY <1>1 DEF FileType
<1>3. Kept(g) = Range(f.lines)
  <2>1. DOMAIN f.lines = 1 .. Len(f.lines)
    BY DEF FileType
  <2> QED
    BY <1>1, <2>1 DEF Kept, Range
<1> QED
  BY <1>1, <1>2, <1>3

\* A partial line changes nothing else.
LEMMA FileCut ==
  ASSUME NEW f, FileType(f), NEW g, g = [f EXCEPT !.tail = TRUE]
  PROVE  FileType(g) /\ g.lines = f.lines /\ Kept(g) = Kept(f)
  BY DEF FileType, Kept

\* A rewritten file keeps every line it is given.
LEMMA FileRewritten ==
  ASSUME NEW s, s \in Seq(Range(s)),
         NEW g, g = [Empty EXCEPT !.lines = s, !.redone = Len(s)]
  PROVE  FileType(g) /\ g.lines = s /\ ~g.tail /\ Kept(g) = Range(s)
<1>1. g.lines = s /\ g.tail = FALSE /\ g.synced = 0 /\ g.redone = Len(s)
  BY DEF Empty
<1>2. Len(s) \in Nat /\ DOMAIN s = 1 .. Len(s)
  OBVIOUS
<1>3. FileType(g)
  <2>1. g \in [lines : Seq(Range(s)), tail : BOOLEAN, synced : Nat, redone : Nat]
    BY <1>2 DEF Empty
  <2> QED
    BY <1>1, <1>2, <2>1 DEF FileType
<1>4. Kept(g) = Range(s)
  <2>1. Kept(g) = {s[i] : i \in 1 .. Len(s)}
    BY <1>1, <1>2 DEF Kept
  <2> QED
    BY <1>2, <2>1 DEF Range
<1> QED
  BY <1>1, <1>3, <1>4

\* A power loss keeps what was synced; what was rewritten it keeps or takes.
LEMMA FileLost ==
  ASSUME NEW f, FileType(f), NEW n \in f.synced .. Len(f.lines),
         NEW g \in [lines : {SubSeq(f.lines, 1, n)}, tail : BOOLEAN, synced : {n}, redone : {0}]
  PROVE  /\ FileType(g)
         /\ Range(g.lines) \subseteq Range(f.lines)
         /\ Kept(f) \subseteq Kept(g) \union {f.lines[i] : i \in n + 1 .. f.redone}
<1>1. g.lines = SubSeq(f.lines, 1, n) /\ g.synced = n /\ g.redone = 0
  OBVIOUS
<1>2. /\ f.lines \in Seq(Range(f.lines)) /\ n \in Nat /\ n <= Len(f.lines)
      /\ f.synced \in Nat /\ f.synced <= n /\ f.redone \in 0 .. Len(f.lines)
  BY DEF FileType
<1>3. /\ Len(g.lines) = n /\ DOMAIN g.lines = 1 .. n
      /\ \A i \in 1 .. n : g.lines[i] = f.lines[i]
  BY <1>1, <1>2
<1>4. g.lines \in Seq(Range(g.lines))
  <2>1. g.lines \in Seq(Range(f.lines))
    BY <1>1, <1>2
  <2> QED
    BY <2>1, SeqOfRange
<1>5. FileType(g)
  <2>1. g \in [lines : {g.lines}, tail : BOOLEAN, synced : Nat, redone : Nat]
    BY <1>1, <1>2
  <2>2. g \in [lines : Seq(Range(g.lines)), tail : BOOLEAN, synced : Nat, redone : Nat]
    BY <1>4, <2>1
  <2> QED
    BY <1>1, <1>2, <1>3, <2>2 DEF FileType
<1>6. Range(g.lines) \subseteq Range(f.lines)
  BY <1>2, <1>3 DEF Range
<1>7. Kept(f) \subseteq Kept(g) \union {f.lines[i] : i \in n + 1 .. f.redone}
  <2>1. ASSUME NEW i \in 1 .. f.synced
        PROVE  f.lines[i] \in Kept(g)
    <3>1. i \in 1 .. n /\ g.synced = n /\ g.lines[i] = f.lines[i]
      BY <1>1, <1>2, <1>3
    <3> QED
      BY <3>1 DEF Kept
  <2>2. ASSUME NEW i \in 1 .. f.redone
        PROVE  f.lines[i] \in Kept(g) \union {f.lines[j] : j \in n + 1 .. f.redone}
    <3>1. CASE i \in n + 1 .. f.redone
      BY <3>1
    <3>2. CASE i \in 1 .. n
      <4>1. g.synced = n /\ g.lines[i] = f.lines[i]
        BY <1>1, <1>3, <3>2
      <4> QED
        BY <3>2, <4>1 DEF Kept
    <3>3. i \in n + 1 .. f.redone \/ i \in 1 .. n
      BY <1>2
    <3> QED
      BY <3>1, <3>2, <3>3, Zenon
  <2> QED
    BY <2>1, <2>2 DEF Kept
<1> QED
  BY <1>5, <1>6, <1>7

-----------------------------------------------------------------------------
(* The invariant holds.                                                    *)

\* Every record is dated with a trading day.
LEMMA RequestDay ==
  ASSUME today \in Days, NEW r \in Requests \union TradeUpdates
  PROVE  r.day \in Days
  BY DEF Requests, TradeUpdates, Unmanaged, Recent, NewRecord, Record

LEMMA GarbledDay == Garbled.day \notin Days
  BY DEF Garbled, Record, Days

\* The old record is synced before anything happens.
LEMMA DurableInit == Init => DurableInv
<1> SUFFICES ASSUME Init PROVE DurableInv
  OBVIOUS
<1> USE DEF Init
<1> DEFINE First == [Empty EXCEPT !.lines = <<OldTrade>>, !.synced = 1]
<1>1. 1 \in Days /\ \A d \in Days : d \in Nat
  BY JournalAssumption DEF Days
<1>2. /\ FileType(First) /\ ~First.tail
      /\ Kept(First) = {OldTrade} /\ Range(First.lines) = {OldTrade}
  <2>1. /\ First.lines = <<OldTrade>> /\ First.tail = FALSE
        /\ First.synced = 1 /\ First.redone = 0
        /\ First \in [lines : {First.lines}, tail : BOOLEAN, synced : Nat, redone : Nat]
    BY DEF Empty
  <2>2. <<OldTrade>> \in Seq({OldTrade}) /\ Len(<<OldTrade>>) = 1
    OBVIOUS
  <2>3. Range(<<OldTrade>>) = {OldTrade}
    BY DEF Range
  <2> HIDE DEF First
  <2>4. First \in [lines : Seq(Range(First.lines)), tail : BOOLEAN, synced : Nat, redone : Nat]
    BY <2>1, <2>2, <2>3
  <2>5. Kept(First) = {OldTrade}
    BY <2>1, <2>2 DEF Kept
  <2> QED
    BY <2>1, <2>2, <2>3, <2>4, <2>5 DEF FileType
<1>3. \A d \in Days : disk[d] = IF d = 1 THEN First ELSE Empty
  OBVIOUS
<1>4. buf.lines = <<>> /\ buf.lines \in Seq(Range(buf.lines)) /\ Range(buf.lines) = {}
  BY DEF NoBuf, Range
<1> HIDE DEF First
<1>5. JTypeOK
  BY <1>1, <1>2, <1>3, <1>4, EmptyFile DEF JTypeOK, Appending, Running
<1>6. OldTrade # Garbled
  BY <1>1, GarbledDay DEF OldTrade, Record
<1>7. Sound \subseteq Safe
  BY <1>1, <1>2, <1>3 DEF Sound, Safe
<1>8. Garbled \notin Held
  BY <1>2, <1>3, <1>4, <1>6, EmptyFile DEF Held, Stored
<1> QED
  BY <1>5, <1>7, <1>8 DEF DurableInv, Running

\* The file that a step writes, and the others.
LEMMA OneFile ==
  ASSUME JTypeOK, NEW e \in Days, NEW g, disk' = [disk EXCEPT ![e] = g]
  PROVE  /\ DOMAIN disk' = Days /\ disk' = [d \in Days |-> disk'[d]]
         /\ disk'[e] = g /\ \A d \in Days \ {e} : disk'[d] = disk[d]
  BY DEF JTypeOK

\* What a step that writes one file does to what is safe, and to what is stored.
LEMMA FilesAround ==
  ASSUME NEW e \in Days, \A d \in Days \ {e} : disk'[d] = disk[d]
  PROVE  /\ \A x : x \in Safe' <=> \/ x \in Kept(disk'[e])
                                   \/ x \in Range(buf'.lines)
                                   \/ \E d \in Days \ {e} : x \in Kept(disk[d])
         /\ \A x : x \in Safe <=> \/ x \in Kept(disk[e])
                                  \/ x \in Range(buf.lines)
                                  \/ \E d \in Days \ {e} : x \in Kept(disk[d])
         /\ \A x : x \in Stored' <=> \/ x \in Range(disk'[e].lines)
                                     \/ \E d \in Days \ {e} : x \in Range(disk[d].lines)
         /\ \A x : x \in Stored <=> \/ x \in Range(disk[e].lines)
                                    \/ \E d \in Days \ {e} : x \in Range(disk[d].lines)
<1>1. \A x : x \in Safe' <=> \/ \E d \in Days : x \in Kept(disk'[d])
                             \/ x \in Range(buf'.lines)
  <2> DEFINE K == UNION {Kept(disk'[d]) : d \in Days}
  <2>1. \A x : x \in K <=> \E d \in Days : x \in Kept(disk'[d])
    OBVIOUS
  <2>2. Safe' = K \union Range(buf'.lines)
    BY DEF Safe
  <2> HIDE DEF K
  <2> QED
    BY <2>1, <2>2
<1>2. \A x : x \in Safe <=> \/ \E d \in Days : x \in Kept(disk[d])
                            \/ x \in Range(buf.lines)
  <2> DEFINE K == UNION {Kept(disk[d]) : d \in Days}
  <2>1. \A x : x \in K <=> \E d \in Days : x \in Kept(disk[d])
    OBVIOUS
  <2>2. Safe = K \union Range(buf.lines)
    BY DEF Safe
  <2> HIDE DEF K
  <2> QED
    BY <2>1, <2>2
<1>3. \A x : x \in Stored' <=> \E d \in Days : x \in Range(disk'[d].lines)
  BY DEF Stored
<1>4. \A x : x \in Stored <=> \E d \in Days : x \in Range(disk[d].lines)
  BY DEF Stored
<1> QED
  BY <1>1, <1>2, <1>3, <1>4

\* Steps that write no file.
LEMMA FilesKept ==
  ASSUME UNCHANGED <<disk, buf>>
  PROVE  Safe' = Safe /\ Stored' = Stored /\ Held' = Held
  BY DEF Safe, Stored, Held

LEMMA AppendStep ==
  ASSUME DurableInv, AppendRecord \/ UpdateTrade
  PROVE  DurableInv' /\ Held' = Held
<1>1. PICK r \in Requests \union TradeUpdates : Begin(r)
  BY DEF AppendRecord, UpdateTrade
<1>2. r.day \in Days
  BY <1>1, RequestDay DEF DurableInv, JTypeOK
<1>3. Safe' = Safe /\ Held' = Held /\ Sound' = Sound /\ HasCut' = HasCut
  BY <1>1, FilesKept DEF Begin, Sound, HasCut
<1>4. JTypeOK'
  BY <1>1, <1>2 DEF DurableInv, JTypeOK, Begin, Running, Appending
<1> QED
  BY <1>1, <1>3, <1>4 DEF DurableInv, Begin, Running

LEMMA WriteLineStep ==
  ASSUME DurableInv, WriteLine
  PROVE  /\ DurableInv'
         /\ damaged' = {} => Held' = Held \union {rec}
<1> DEFINE e == rec.day
           line == IF disk[e].tail THEN Garbled ELSE rec
           g == [disk[e] EXCEPT !.lines = Append(@, line), !.tail = FALSE]
<1> USE DEF DurableInv
<1>1. JTypeOK /\ e \in Days /\ FileType(disk[e])
  BY DEF WriteLine, JTypeOK, Appending
<1>2. /\ DOMAIN disk' = Days /\ disk' = [d \in Days |-> disk'[d]]
      /\ disk'[e] = g /\ \A d \in Days \ {e} : disk'[d] = disk[d]
  <2>1. disk' = [disk EXCEPT ![e] = g]
    BY <1>1 DEF WriteLine, JTypeOK
  <2> QED
    BY <1>1, <2>1, OneFile
<1>3. /\ FileType(disk'[e]) /\ ~disk'[e].tail
      /\ Kept(disk'[e]) = Kept(disk[e])
      /\ Range(disk'[e].lines) = Range(disk[e].lines) \union {line}
  <2> HIDE DEF line
  <2>1. g = [disk[e] EXCEPT !.lines = Append(@, line), !.tail = FALSE] /\ disk'[e] = g
    BY <1>2
  <2> HIDE DEF g, e
  <2> QED
    BY <1>1, <2>1, LineWritten
<1> HIDE DEF g
<1>4. JTypeOK'
  BY <1>1, <1>2, <1>3 DEF WriteLine, JTypeOK, Running, Appending
<1>5. Safe' = Safe /\ Held' = Held \union {line}
  <2>1. buf' = buf
    BY DEF WriteLine
  <2> HIDE DEF e, line
  <2>2. \A x : x \in Safe' <=> x \in Safe
    BY <1>1, <1>2, <1>3, <2>1, FilesAround
  <2>3. \A x : x \in Stored' <=> x \in Stored \/ x = line
    BY <1>1, <1>2, <1>3, FilesAround
  <2> QED
    BY <2>1, <2>2, <2>3 DEF Held
<1>6. damaged \subseteq damaged' /\ skipped \subseteq skipped' /\ acked' = acked
  BY DEF WriteLine
<1>7. CASE disk[e].tail
  <2>1. HasCut
    BY <1>1, <1>7 DEF WriteLine, Running
  <2>2. HasCut' /\ rec \in damaged' /\ damaged' # {}
    BY <1>6, <1>7, <2>1 DEF WriteLine, HasCut
  <2> QED
    BY <1>4, <1>5, <1>6, <2>2 DEF WriteLine, Sound, Running
<1>8. CASE ~disk[e].tail
  <2>1. rec # Garbled
    BY <1>1, GarbledDay
  <2>2. rec \in Range(disk'[e].lines)
    BY <1>3, <1>8
  <2>3. HasCut' = HasCut /\ damaged' = damaged
    BY <1>8 DEF WriteLine, HasCut
  <2> QED
    BY <1>1, <1>2, <1>3, <1>4, <1>5, <1>6, <1>8, <2>1, <2>2, <2>3 DEF WriteLine, Sound, Running
<1> QED
  BY <1>7, <1>8

LEMMA WriteShortStep ==
  ASSUME DurableInv, WriteShort
  PROVE  DurableInv'
<1> DEFINE e == rec.day
           g == [disk[e] EXCEPT !.tail = TRUE]
<1> USE DEF DurableInv
<1>1. JTypeOK /\ e \in Days /\ FileType(disk[e])
  BY DEF WriteShort, JTypeOK, Appending
<1>2. /\ DOMAIN disk' = Days /\ disk' = [d \in Days |-> disk'[d]]
      /\ disk'[e] = g /\ \A d \in Days \ {e} : disk'[d] = disk[d]
  <2>1. disk' = [disk EXCEPT ![e] = g]
    BY DEF WriteShort
  <2> QED
    BY <1>1, <2>1, OneFile
<1>3. FileType(disk'[e]) /\ Kept(disk'[e]) = Kept(disk[e])
  BY <1>1, <1>2, FileCut
<1> HIDE DEF g
<1>4. JTypeOK'
  BY <1>1, <1>2, <1>3 DEF WriteShort, JTypeOK, Running, Appending
<1>5. Safe' = Safe
  <2>1. buf' = buf
    BY DEF WriteShort
  <2> HIDE DEF e
  <2>2. \A x : x \in Safe' <=> x \in Safe
    BY <1>1, <1>2, <1>3, <2>1, FilesAround
  <2> QED
    BY <2>2
<1>6. Sound' \subseteq Sound /\ rec \in damaged' /\ HasCut'
  BY DEF WriteShort, Sound, HasCut
<1> QED
  BY <1>4, <1>5, <1>6 DEF WriteShort, Running

LEMMA FsyncStep ==
  ASSUME DurableInv, Fsync
  PROVE  DurableInv' /\ Held' = Held
<1> DEFINE e == rec.day
           g == [disk[e] EXCEPT !.synced = Len(disk[e].lines), !.redone = 0]
<1> USE DEF DurableInv
<1>1. JTypeOK /\ e \in Days /\ FileType(disk[e])
  BY DEF Fsync, JTypeOK, Appending
<1>2. /\ DOMAIN disk' = Days /\ disk' = [d \in Days |-> disk'[d]]
      /\ disk'[e] = g /\ \A d \in Days \ {e} : disk'[d] = disk[d]
  <2>1. disk' = [disk EXCEPT ![e] = g]
    BY <1>1 DEF Fsync, JTypeOK
  <2> QED
    BY <1>1, <2>1, OneFile
<1>3. /\ FileType(disk'[e]) /\ disk'[e].tail = disk[e].tail
      /\ disk'[e].lines = disk[e].lines
      /\ Kept(disk'[e]) = Range(disk[e].lines)
  BY <1>1, <1>2, FileSynced
<1> HIDE DEF g
<1>4. JTypeOK'
  BY <1>1, <1>2, <1>3 DEF Fsync, JTypeOK, Running, Appending
<1>5. Safe \subseteq Safe' /\ Held' = Held
  <2>1. Kept(disk[e]) \subseteq Kept(disk'[e])
    BY <1>1, <1>3, KeptStored
  <2>2. buf' = buf
    BY DEF Fsync
  <2> HIDE DEF e
  <2>3. \A x : x \in Safe => x \in Safe'
    BY <1>1, <1>2, <2>1, <2>2, FilesAround
  <2>4. \A x : x \in Stored' <=> x \in Stored
    BY <1>1, <1>2, <1>3, FilesAround
  <2> QED
    BY <2>2, <2>3, <2>4 DEF Held
<1>6. rec \in damaged' \union Safe'
  BY <1>1, <1>3 DEF Fsync, Safe
<1>7. Sound' = Sound /\ HasCut' = HasCut
  BY DEF Fsync, Sound, HasCut
<1>8. \A d \in Days : disk'[d].tail = disk[d].tail
  BY <1>2, <1>3
<1> QED
  BY <1>4, <1>5, <1>6, <1>7, <1>8 DEF Fsync, Running

LEMMA ReturnStep ==
  ASSUME DurableInv, UpsertCommit \/ WriteRaises \/ FsyncOrUpsertRaises \/ CommitRaises
  PROVE  DurableInv' /\ Held' = Held
<1> USE DEF DurableInv
<1>1. /\ UNCHANGED <<disk, buf, today, damaged>> /\ pc \in Appending /\ pc' = "idle"
      /\ skipped \subseteq skipped'
  BY DEF UpsertCommit, WriteRaises, FsyncOrUpsertRaises, CommitRaises, Abandon, Appending
<1>2. Safe' = Safe /\ Held' = Held
  BY <1>1, FilesKept
<1>3. Sound' \subseteq Sound \union ({rec} \intersect (Safe \ damaged))
  BY DEF UpsertCommit, WriteRaises, FsyncOrUpsertRaises, CommitRaises, Abandon, Sound
<1>4. JTypeOK'
  BY <1>1 DEF JTypeOK, Running, Appending
<1>5. HasCut => HasCut'
  BY <1>1 DEF HasCut
<1> QED
  BY <1>1, <1>2, <1>3, <1>4, <1>5 DEF Running, Appending

LEMMA OpenStep ==
  ASSUME DurableInv, Open \/ RebuildFails
  PROVE  DurableInv' /\ Held' = Held
<1> USE DEF DurableInv
<1>1. UNCHANGED <<disk, buf, today, damaged, acked>> /\ pc' \in {"repair", "down"}
      /\ pc \notin {"rewrite"}
  BY DEF Open, RebuildFails
<1>2. Safe' = Safe /\ Held' = Held /\ Sound' = Sound
  BY <1>1, FilesKept DEF Sound
<1>3. JTypeOK'
  BY <1>1 DEF JTypeOK, Running, Appending
<1> QED
  BY <1>1, <1>2, <1>3 DEF Running

LEMMA TruncateStep ==
  ASSUME DurableInv, NEW e \in Days, TruncateTail(e)
  PROVE  DurableInv' /\ Held' = Held
<1> USE DEF DurableInv
<1>1. JTypeOK /\ FileType(disk[e])
  BY DEF JTypeOK
<1>2. /\ DOMAIN disk' = Days /\ disk' = [d \in Days |-> disk'[d]]
      /\ disk'[e] = Empty /\ \A d \in Days \ {e} : disk'[d] = disk[d]
  BY <1>1, OneFile DEF TruncateTail
<1>3. /\ buf'.lines = disk[e].lines /\ buf'.day = e
      /\ Range(buf.lines) = {} /\ buf'.lines \in Seq(Range(buf'.lines))
  BY <1>1 DEF TruncateTail, JTypeOK, FileType, Range
<1>4. JTypeOK'
  BY <1>1, <1>2, <1>3, EmptyFile DEF TruncateTail, JTypeOK, Running, Appending
<1>5. Safe \subseteq Safe'
  <2>1. Kept(disk[e]) \subseteq Range(buf'.lines)
    BY <1>1, <1>3, KeptStored
  <2>2. \A x : x \in Safe => x \in Safe'
    BY <1>2, <1>3, <2>1, FilesAround
  <2> QED
    BY <2>2
<1>6. Held' = Held
  <2>1. \A x : x \in Held' <=> x \in Held
    BY <1>2, <1>3, FilesAround, EmptyFile DEF Held
  <2> QED
    BY <2>1
<1>7. Sound' = Sound
  BY DEF TruncateTail, Sound
<1> QED
  BY <1>4, <1>5, <1>6, <1>7 DEF TruncateTail, Running

LEMMA RewriteStep ==
  ASSUME DurableInv, RewriteFile
  PROVE  DurableInv' /\ Held' = Held
<1> DEFINE e == buf.day
           g == [Empty EXCEPT !.lines = buf.lines, !.redone = Len(buf.lines)]
<1> USE DEF DurableInv
<1>1. JTypeOK /\ e \in Days /\ FileType(disk[e]) /\ buf.lines \in Seq(Range(buf.lines))
  BY DEF RewriteFile, JTypeOK
<1>2. /\ DOMAIN disk' = Days /\ disk' = [d \in Days |-> disk'[d]]
      /\ disk'[e] = g /\ \A d \in Days \ {e} : disk'[d] = disk[d]
  BY <1>1, OneFile DEF RewriteFile
<1>3. FileType(g) /\ g.lines = buf.lines /\ ~g.tail /\ Kept(g) = Range(buf.lines)
  BY <1>1, FileRewritten
<1>4. buf'.lines = <<>> /\ Range(buf'.lines) = {} /\ buf'.lines \in Seq(Range(buf'.lines))
  BY DEF RewriteFile, NoBuf, Range
<1> HIDE DEF g, e
<1>5. JTypeOK'
  BY <1>1, <1>2, <1>3, <1>4 DEF RewriteFile, JTypeOK, Running, Appending
<1>6. disk[e] = Empty /\ buf' = NoBuf
  BY DEF RewriteFile, JTypeOK, e
<1>7. Safe \subseteq Safe'
  <2>1. Kept(disk[e]) = {}
    <3>1. Kept(disk[e]) \subseteq Range(disk[e].lines)
      BY <1>1, KeptStored
    <3> QED
      BY <1>6, <3>1, EmptyFile
  <2>2. \A x : x \in Safe => x \in Safe'
    BY <1>1, <1>2, <1>3, <2>1, FilesAround
  <2> QED
    BY <2>2
<1>8. Held' = Held
  <2>1. Range(disk[e].lines) = {} /\ Range(disk'[e].lines) = Range(buf.lines)
    BY <1>2, <1>3, <1>6, EmptyFile
  <2>2. \A x : x \in Held' <=> x \in Held
    BY <1>1, <1>2, <1>4, <2>1, FilesAround DEF Held
  <2> QED
    BY <2>2
<1>9. Sound' = Sound
  BY DEF RewriteFile, Sound
<1> QED
  BY <1>5, <1>7, <1>8, <1>9 DEF RewriteFile, Running

LEMMA RebuildStep ==
  ASSUME DurableInv, Rebuild
  PROVE  DurableInv' /\ Held' = Held
<1> USE DEF DurableInv
<1>1. UNCHANGED <<disk, buf, today, damaged, acked>> /\ pc = "repair" /\ pc' = "idle"
      /\ ~\E d \in Days : disk'[d].tail
  BY DEF Rebuild
<1>2. Safe' = Safe /\ Held' = Held /\ Sound' = Sound
  BY <1>1, FilesKept DEF Sound
<1>3. JTypeOK'
  BY <1>1 DEF JTypeOK, Running, Appending
<1> QED
  BY <1>1, <1>2, <1>3

LEMMA NewDayStep ==
  ASSUME DurableInv, NewDay
  PROVE  DurableInv' /\ Held' = Held
<1> USE DEF DurableInv
<1>1. UNCHANGED <<disk, buf, skipped, damaged, acked, pc>> /\ pc = "idle"
  BY DEF NewDay
<1>2. Safe' = Safe /\ Held' = Held /\ Sound' = Sound /\ HasCut' = HasCut
  BY <1>1, FilesKept DEF Sound, HasCut
<1>3. today' \in Days
  BY JournalAssumption DEF NewDay, JTypeOK, Days
<1>4. JTypeOK'
  BY <1>1, <1>3 DEF JTypeOK, Running, Appending
<1> QED
  BY <1>1, <1>2, <1>4

LEMMA CrashStep ==
  ASSUME DurableInv, Crash
  PROVE  /\ DurableInv'
         /\ damaged' = {} => Held' = Held
<1> USE DEF DurableInv
<1>1. /\ buf' = NoBuf /\ pc' = "down" /\ today' = today /\ acked' = acked
      /\ damaged' = damaged \union Range(buf.lines)
      /\ Range(buf'.lines) = {} /\ buf'.lines = <<>> /\ buf'.lines \in Seq(Range(buf'.lines))
  BY DEF Crash, Lost, NoBuf, Range
<1>2. /\ DOMAIN disk' = Days /\ disk' = [d \in Days |-> disk'[d]]
      /\ \A d \in Days : /\ FileType(disk'[d])
                         /\ disk'[d].lines = disk[d].lines
                         /\ Kept(disk'[d]) = Kept(disk[d])
  <2>1. CASE disk' = disk
    BY <2>1 DEF JTypeOK
  <2>2. CASE pc = "write" /\ disk' = [disk EXCEPT ![rec.day].tail = TRUE]
    <3> DEFINE e == rec.day
               g == [disk[e] EXCEPT !.tail = TRUE]
    <3>1. JTypeOK /\ e \in Days /\ FileType(disk[e])
      BY <2>2 DEF JTypeOK, Appending
    <3>2. /\ DOMAIN disk' = Days /\ disk' = [d \in Days |-> disk'[d]]
          /\ disk'[e] = g /\ \A d \in Days \ {e} : disk'[d] = disk[d]
      <4>1. disk' = [disk EXCEPT ![e] = g]
        BY <2>2
      <4> QED
        BY <3>1, <4>1, OneFile
    <3>3. FileType(g) /\ g.lines = disk[e].lines /\ Kept(g) = Kept(disk[e])
      BY <3>1, FileCut
    <3> HIDE DEF g, e
    <3> QED
      BY <3>1, <3>2, <3>3 DEF JTypeOK
  <2> QED
    BY <2>1, <2>2 DEF Crash
<1>3. JTypeOK'
  BY <1>1, <1>2 DEF JTypeOK, Running, Appending
<1>4. Safe \subseteq Safe' \union Range(buf.lines) /\ Stored' = Stored
  BY <1>2 DEF Safe, Stored
<1>5. Sound' \subseteq Safe'
  BY <1>1, <1>4 DEF Sound
<1>6. damaged' = {} => Garbled \notin Held'
  BY <1>1, <1>4 DEF Held
<1>7. damaged' = {} => Held' = Held
  BY <1>1, <1>4 DEF Held
<1> QED
  BY <1>1, <1>3, <1>5, <1>6, <1>7 DEF Running

LEMMA PowerLossStep ==
  ASSUME DurableInv, PowerLoss
  PROVE  DurableInv' /\ Held' \subseteq Held
<1> USE DEF DurableInv
<1>1. PICK keep \in [Days -> 0 .. MaxAppends + 1], part \in [Days -> BOOLEAN] :
       /\ \A d \in Days :
            /\ keep[d] \in disk[d].synced .. Len(disk[d].lines)
            /\ part[d] => keep[d] < Len(disk[d].lines) \/ disk[d].tail
       /\ disk' = [d \in Days |->
                     [Empty EXCEPT !.lines = SubSeq(disk[d].lines, 1, keep[d]),
                                   !.tail = part[d], !.synced = keep[d]]]
       /\ damaged' = damaged \union Range(buf.lines) \union
            UNION {{disk[d].lines[i] : i \in keep[d] + 1 .. disk[d].redone} : d \in Days}
  BY DEF PowerLoss
<1> DEFINE Taken(d) == {disk[d].lines[i] : i \in keep[d] + 1 .. disk[d].redone}
<1>2. \A d \in Days : /\ FileType(disk'[d])
                      /\ Range(disk'[d].lines) \subseteq Range(disk[d].lines)
                      /\ Kept(disk[d]) \subseteq Kept(disk'[d]) \union Taken(d)
  <2> SUFFICES ASSUME NEW d \in Days
               PROVE  /\ FileType(disk'[d])
                      /\ Range(disk'[d].lines) \subseteq Range(disk[d].lines)
                      /\ Kept(disk[d]) \subseteq Kept(disk'[d]) \union Taken(d)
    OBVIOUS
  <2>1. FileType(disk[d]) /\ keep[d] \in disk[d].synced .. Len(disk[d].lines)
        /\ part[d] \in BOOLEAN
    BY <1>1 DEF JTypeOK
  <2>2. disk'[d] = [Empty EXCEPT !.lines = SubSeq(disk[d].lines, 1, keep[d]),
                                 !.tail = part[d], !.synced = keep[d]]
    BY <1>1
  <2>3. disk'[d] \in [lines : {SubSeq(disk[d].lines, 1, keep[d])}, tail : BOOLEAN,
                      synced : {keep[d]}, redone : {0}]
    BY <2>1, <2>2 DEF Empty
  <2> QED
    BY <2>1, <2>3, FileLost
<1>3. /\ buf' = NoBuf /\ pc' = "down" /\ today' = today /\ acked' = acked
      /\ Range(buf'.lines) = {} /\ buf'.lines = <<>> /\ buf'.lines \in Seq(Range(buf'.lines))
  <2>1. Lost
    BY DEF PowerLoss
  <2> QED
    BY <2>1 DEF Lost, NoBuf, Range
<1>4. JTypeOK'
  BY <1>1, <1>2, <1>3 DEF JTypeOK, Running, Appending
<1>5. damaged \union Range(buf.lines) \subseteq damaged'
      /\ \A d \in Days : Taken(d) \subseteq damaged'
  <2>1. damaged' = (damaged \union Range(buf.lines)) \union UNION {Taken(d) : d \in Days}
    BY <1>1
  <2> HIDE DEF Taken
  <2> QED
    BY <2>1
<1> HIDE DEF Taken
<1>6. Sound' \subseteq Safe'
  BY <1>2, <1>3, <1>5 DEF Sound, Safe
<1>7. Held' \subseteq Held
  BY <1>2, <1>3 DEF Held, Stored
<1>8. damaged' = {} => Garbled \notin Held'
  BY <1>5, <1>7
<1> QED
  BY <1>3, <1>4, <1>6, <1>7, <1>8 DEF Running

\* Every step of Next, or none, keeps the invariant.
LEMMA DurableStep ==
  ASSUME DurableInv, [Next]_vars
  PROVE  DurableInv'
<1>1. CASE UNCHANGED vars
  <2>1. Safe' = Safe /\ Held' = Held
    BY <1>1, FilesKept DEF vars
  <2> QED
    BY <1>1, <2>1 DEF vars, DurableInv, JTypeOK, Sound, HasCut
<1>2. CASE Next
  BY <1>2, AppendStep, WriteLineStep, WriteShortStep, FsyncStep, ReturnStep, OpenStep,
     TruncateStep, RewriteStep, RebuildStep, NewDayStep, CrashStep, PowerLossStep DEF Next
<1> QED
  BY <1>1, <1>2

\* The inductive invariant of the files: what was acknowledged and not hit by one of
\* the two faults is in the part of the files that no crash takes.
THEOREM DurableInvariant == Spec => []DurableInv
  BY DurableInit, DurableStep, PTL DEF Spec

\* What is safe is in a file or in the repair's copy of one.
LEMMA SafeHeld == DurableInv => AckedDurable /\ Safe \subseteq Held
<1> SUFFICES ASSUME DurableInv PROVE AckedDurable /\ Safe \subseteq Held
  OBVIOUS
<1>1. \A d \in Days : Kept(disk[d]) \subseteq Range(disk[d].lines)
  BY KeptStored DEF DurableInv, JTypeOK
<1>2. Safe \subseteq Held
  BY <1>1 DEF Safe, Held, Stored
<1> QED
  BY <1>2 DEF DurableInv, AckedDurable

\* A record whose append has returned is in the files for good, unless a short
\* write or a repair that did not end took it; without those faults every line
\* parses.  append writes, syncs and only then touches the database and returns.
THEOREM AckedStaysDurable == Spec => []AckedDurable
  BY SafeHeld, DurableInvariant, PTL

-----------------------------------------------------------------------------
(* The journal implements DurableLog.                                      *)

LEMMA LogInit == Init => Log!Init
<1> SUFFICES ASSUME Init PROVE Log!Init
  OBVIOUS
<1>1. Held = {OldTrade}
  <2>1. 1 \in Days
    BY JournalAssumption DEF Days
  <2>2. Range(<<OldTrade>>) = {OldTrade} /\ Range(Empty.lines) = {} /\ Range(buf.lines) = {}
    <3>1. Range(<<OldTrade>>) = {OldTrade} /\ Range(<<>>) = {}
      BY DEF Range
    <3>2. buf.lines = <<>>
      BY DEF Init, NoBuf
    <3> QED
      BY <3>1, <3>2, EmptyFile
  <2>3. \A d \in Days : Range(disk[d].lines) = IF d = 1 THEN {OldTrade} ELSE {}
    BY <2>2 DEF Init, Empty
  <2> QED
    BY <2>1, <2>2, <2>3 DEF Held, Stored
<1>2. acked = {OldTrade}
  BY DEF Init
<1>3. IsFiniteSet({OldTrade})
  BY FS_Singleton
<1> QED
  BY <1>1, <1>2, <1>3 DEF Log!Init, IsFiniteSet, Log!IsFiniteSet

\* Until a fault strikes, writing the line stores the record, the commit
\* acknowledges it, a power loss is a crash of the log, and all else is invisible.
LEMMA LogStep ==
  ASSUME DurableInv, [Next]_vars, damaged' = {}
  PROVE  [Log!Next]_<<Held, acked>>
<1>1. CASE WriteLine
  <2>1. Held' = Held \union {rec} /\ acked' = acked
    BY <1>1, WriteLineStep DEF WriteLine
  <2> QED
    BY <2>1 DEF Log!Next, Log!Store
<1>2. CASE UpsertCommit
  <2>1. rec \in Held
    BY <1>2, SafeHeld DEF UpsertCommit, DurableInv
  <2>2. Held' = Held /\ acked' = acked \union {rec}
    BY <1>2, ReturnStep DEF UpsertCommit
  <2> QED
    BY <2>1, <2>2 DEF Log!Next, Log!Acknowledge
<1>3. CASE PowerLoss
  <2>1. DurableInv' /\ Held' \subseteq Held /\ acked' = acked
    BY <1>3, PowerLossStep DEF PowerLoss, Lost
  <2>2. acked' \subseteq Held'
    <3>1. AckedDurable'
      BY <2>1, SafeHeld, PTL
    <3> QED
      BY <3>1 DEF AckedDurable, Sound
  <2> QED
    BY <2>1, <2>2 DEF Log!Next, Log!Crash
<1>4. CASE Crash
  BY <1>4, CrashStep DEF Crash, Lost
<1>5. CASE AppendRecord \/ UpdateTrade
  BY <1>5, AppendStep DEF AppendRecord, UpdateTrade, Begin
<1>6. CASE WriteShort
  BY <1>6 DEF WriteShort
<1>7. CASE Fsync
  BY <1>7, FsyncStep DEF Fsync
<1>8. CASE WriteRaises \/ FsyncOrUpsertRaises \/ CommitRaises
  BY <1>8, ReturnStep DEF WriteRaises, FsyncOrUpsertRaises, CommitRaises, Abandon
<1>9. CASE Open \/ RebuildFails
  BY <1>9, OpenStep DEF Open, RebuildFails
<1>10. CASE \E d \in Days : TruncateTail(d)
  BY <1>10, TruncateStep DEF TruncateTail
<1>11. CASE RewriteFile
  BY <1>11, RewriteStep DEF RewriteFile
<1>12. CASE Rebuild
  BY <1>12, RebuildStep DEF Rebuild
<1>13. CASE NewDay
  BY <1>13, NewDayStep DEF NewDay
<1>14. CASE UNCHANGED vars
  BY <1>14, FilesKept DEF vars
<1> QED
  BY <1>1, <1>2, <1>3, <1>4, <1>5, <1>6, <1>7, <1>8, <1>9, <1>10, <1>11, <1>12, <1>13,
     <1>14 DEF Next

\* The journal implements the log its docstring promises, as long as no write is
\* short and no repair is cut off: what append has acknowledged is never lost, and
\* nothing enters the log but the record being appended.
THEOREM JournalImplementsLog == Spec => LogImplemented
<1>1. DurableInv /\ [Next]_vars => [damaged' = {} => [Log!Next]_<<Held, acked>>]_vars
  BY LogStep
<1> QED
  BY <1>1, LogInit, DurableInvariant, PTL DEF Spec, LogImplemented

-----------------------------------------------------------------------------
(* Rows.  The number of a record is the value of all its fields, and a row *)
(* shows a set of records when each of its fields has the highest number   *)
(* of those records of its key that set the field.                         *)

Num(r) == r.patch[CHOOSE f \in DOMAIN r.patch : TRUE]

\* What a record sets once it is migrated.
Fields(r) ==
  IF r.version = 2 THEN DOMAIN r.patch \union {"model_vs_real"} ELSE DOMAIN r.patch

IsKey(k) ==
  /\ k = Key(k.type, k.id[1], k.id[2]) /\ k.type \in Types
  /\ k.id[1] \in Nat \ {0} /\ k.id[2] \in Nat

\* The records that are appended, and the one of the earlier release.
IsRecord(r) ==
  /\ r = Record(r.key, r.day, r.patch, r.version)
  /\ IsKey(r.key) /\ r.day \in Days
  /\ DOMAIN r.patch # {} /\ Num(r) \in Nat
  /\ r.patch = [f \in DOMAIN r.patch |-> Num(r)]
  /\ r.version = 3 \/ r = OldTrade
  /\ r.key.type # "trade" => DOMAIN r.patch = {"body"}
  /\ r.key.type = "trade" =>
       \/ DOMAIN r.patch = {"entry"} /\ r.key.id[2] = r.day
       \/ DOMAIN r.patch = {"outcome", "model_vs_real"}
  /\ r.key.type \in {"day_state", "reject"} => r.key.id[1] = r.day

\* x may be replayed before y.
Before(x, y) ==
  x.key = y.key /\ Fields(x) \intersect Fields(y) # {} => Num(x) <= Num(y)

Shows(rows, k, S) ==
  /\ k \in DOMAIN rows <=> \E r \in S : r.key = k
  /\ k \in DOMAIN rows =>
       /\ rows[k] = [f \in DOMAIN rows[k] |-> rows[k][f]]
       /\ \A r \in S : r.key = k =>
            \A f \in Fields(r) : f \in DOMAIN rows[k] /\ Num(r) <= rows[k][f]
       /\ \A f \in DOMAIN rows[k] :
            \E r \in S : r.key = k /\ f \in Fields(r) /\ rows[k][f] = Num(r)

\* The trade of the earlier release, and what migrating it gives.
LEMMA OldTradeFacts ==
  /\ OldTrade.key = Key("trade", 1, 1) /\ OldTrade.day = 1
  /\ OldTrade.version = 2 /\ OldTrade.patch = [f \in {"entry"} |-> 0]
  /\ Num(OldTrade) = 0 /\ Fields(OldTrade) = {"entry", "model_vs_real"}
<1>1. /\ OldTrade.key = Key("trade", 1, 1) /\ OldTrade.day = 1
      /\ OldTrade.version = 2 /\ OldTrade.patch = [f \in {"entry"} |-> 0]
  BY DEF OldTrade, Record
<1>2. DOMAIN OldTrade.patch = {"entry"}
  BY <1>1
<1>3. (CHOOSE f \in DOMAIN OldTrade.patch : TRUE) = "entry"
  BY <1>2
<1> QED
  BY <1>1, <1>2, <1>3 DEF Num, Fields

LEMMA OldTradeIsRecord == IsRecord(OldTrade)
<1>1. 1 \in Days
  BY JournalAssumption DEF Days
<1>2. /\ OldTrade.key = [type |-> "trade", id |-> <<1, 1>>]
      /\ OldTrade = Record(OldTrade.key, OldTrade.day, OldTrade.patch, OldTrade.version)
  BY OldTradeFacts DEF OldTrade, Record, Key
<1>3. IsKey(OldTrade.key)
  BY <1>2 DEF IsKey, Key, Types
<1> QED
  BY <1>1, <1>2, <1>3, OldTradeFacts DEF IsRecord

\* A record is told from a garbled line by its key, and its type says what it sets.
LEMMA RecordFacts ==
  ASSUME NEW r, IsRecord(r)
  PROVE  /\ r # Garbled /\ r.key # Garbled.key /\ Fields(r) # {}
         /\ r.key.type # "trade" => Fields(r) = {"body"}
         /\ "entry" \in Fields(r) => r.key.type = "trade" /\ r.key.id[2] = r.day
         /\ DOMAIN r.patch \subseteq Fields(r)
         /\ \A f \in DOMAIN r.patch : r.patch[f] = Num(r)
<1>1. r.key.id[1] # 0
  BY DEF IsRecord, IsKey
<1>2. Garbled.key.id[1] = 0
  BY DEF Garbled, Record, Key
<1>3. CASE r = OldTrade
  BY <1>1, <1>2, <1>3, OldTradeFacts DEF IsRecord, Key
<1>4. CASE r.version = 3
  <2>1. Fields(r) = DOMAIN r.patch
    BY <1>4 DEF Fields
  <2> QED
    BY <1>1, <1>2, <2>1 DEF IsRecord
<1> QED
  BY <1>3, <1>4 DEF IsRecord

\* Migration keeps the key, and sets every field to the record's number.
LEMMA MigratedFacts ==
  ASSUME NEW r, IsRecord(r)
  PROVE  Migrated(r).key = r.key /\ Migrated(r).patch = [f \in Fields(r) |-> Num(r)]
<1>1. CASE r = OldTrade
  <2>1. r.version = 2 /\ r.key.type = "trade" /\ "model_vs_real" \notin DOMAIN r.patch
    BY <1>1, OldTradeFacts DEF Key
  <2>2. Migrated(r) = [r EXCEPT !.version = 3,
                                !.patch = Overlay(@, [f \in {"model_vs_real"} |-> 0])]
    BY <2>1 DEF Migrated
  <2> DEFINE p == Overlay(r.patch, [f \in {"model_vs_real"} |-> 0])
  <2>3. Migrated(r).key = r.key /\ Migrated(r).patch = p
    BY <2>2 DEF IsRecord, Record
  <2>4. p = [f \in {"entry", "model_vs_real"} |-> 0]
    BY <1>1, OldTradeFacts DEF Overlay
  <2> HIDE DEF p
  <2> QED
    BY <1>1, <2>3, <2>4, OldTradeFacts
<1>2. CASE r.version = 3
  <2>1. Migrated(r).key = r.key /\ Migrated(r).patch = r.patch
    BY <1>2 DEF Migrated, IsRecord, Record
  <2> QED
    BY <1>2, <2>1 DEF Fields, IsRecord
<1> QED
  BY <1>1, <1>2 DEF IsRecord

LEMMA GarbledMigrated == Migrated(Garbled).key = Garbled.key
  BY DEF Migrated, Garbled, Record, Key

\* An upsert writes one row, and merges trades.
LEMMA UpsertedRows ==
  ASSUME NEW rows, NEW r, IsRecord(r) \/ r = Garbled
  PROVE  /\ Upserted(rows, r) = [k \in DOMAIN Upserted(rows, r) |-> Upserted(rows, r)[k]]
         /\ DOMAIN Upserted(rows, r) = DOMAIN rows \union {r.key}
         /\ \A k \in DOMAIN rows \ {r.key} : Upserted(rows, r)[k] = rows[k]
<1>1. Migrated(r).key = r.key
  BY MigratedFacts, GarbledMigrated
<1> DEFINE new == Overlay(Migrated(r).patch,
                          IF Migrated(r).key.type = "trade" /\ Migrated(r).key \in DOMAIN rows
                          THEN rows[Migrated(r).key] ELSE <<>>)
<1>2. Upserted(rows, r) = Overlay([k \in {r.key} |-> new], rows)
  BY <1>1 DEF Upserted
<1> HIDE DEF new
<1>3. Upserted(rows, r) =
        [k \in {r.key} \union DOMAIN rows |-> IF k \in {r.key} THEN new ELSE rows[k]]
  BY <1>2 DEF Overlay
<1> QED
  BY <1>3

\* The row an upsert writes: its own fields, and of a known trade the others, too.
LEMMA UpsertedRow ==
  ASSUME NEW rows, NEW r, IsRecord(r)
  PROVE  LET row == Upserted(rows, r)[r.key] IN
         /\ row = [f \in DOMAIN row |-> row[f]]
         /\ \A f \in Fields(r) : f \in DOMAIN row /\ row[f] = Num(r)
         /\ r.key.type = "trade" /\ r.key \in DOMAIN rows =>
              /\ DOMAIN row = Fields(r) \union DOMAIN rows[r.key]
              /\ \A f \in DOMAIN rows[r.key] \ Fields(r) : row[f] = rows[r.key][f]
         /\ ~(r.key.type = "trade" /\ r.key \in DOMAIN rows) => DOMAIN row = Fields(r)
<1> DEFINE prev == IF r.key.type = "trade" /\ r.key \in DOMAIN rows
                   THEN rows[r.key] ELSE <<>>
           new == Overlay([f \in Fields(r) |-> Num(r)], prev)
<1>2. Upserted(rows, r) = Overlay([k \in {r.key} |-> new], rows)
  BY MigratedFacts DEF Upserted
<1>3. new = [f \in Fields(r) \union DOMAIN prev |-> IF f \in Fields(r) THEN Num(r) ELSE prev[f]]
  BY DEF Overlay
<1> HIDE DEF new
<1>4. Upserted(rows, r)[r.key] = new
  BY <1>2 DEF Overlay
<1>5. DOMAIN <<>> = {}
  OBVIOUS
<1> QED
  BY <1>3, <1>4, <1>5

\* What an upsert makes of a row that shows a set of records of which none is newer.
LEMMA UpsertShows ==
  ASSUME NEW rows, NEW S, NEW r, IsRecord(r), Shows(rows, r.key, S),
         \A x \in S : x.key = r.key => IsRecord(x) /\ Before(x, r)
  PROVE  Shows(Upserted(rows, r), r.key, S \union {r})
<1> DEFINE up == Upserted(rows, r)
           row == Upserted(rows, r)[r.key]
           old == rows[r.key]
<1>1. r.key \in DOMAIN up
  <2>1. DOMAIN Upserted(rows, r) = DOMAIN rows \union {r.key}
    BY UpsertedRows, Zenon
  <2> QED
    BY <2>1
<1>2. /\ row = [f \in DOMAIN row |-> row[f]]
      /\ \A f \in Fields(r) : f \in DOMAIN row /\ row[f] = Num(r)
      /\ r.key.type = "trade" /\ r.key \in DOMAIN rows =>
           /\ DOMAIN row = Fields(r) \union DOMAIN old
           /\ \A f \in DOMAIN old \ Fields(r) : row[f] = old[f]
      /\ ~(r.key.type = "trade" /\ r.key \in DOMAIN rows) => DOMAIN row = Fields(r)
  BY UpsertedRow
<1> HIDE DEF row, up
<1>3. up[r.key] = row
  BY DEF up, row
<1>4. /\ r.key \in DOMAIN rows <=> \E x \in S : x.key = r.key
      /\ r.key \in DOMAIN rows =>
           /\ \A x \in S : x.key = r.key =>
                \A f \in Fields(x) : f \in DOMAIN old /\ Num(x) <= old[f]
           /\ \A f \in DOMAIN old :
                \E x \in S : x.key = r.key /\ f \in Fields(x) /\ old[f] = Num(x)
  BY DEF Shows
<1> HIDE DEF old
<1>5. Num(r) \in Nat
  BY DEF IsRecord
<1>6. ASSUME NEW x \in S \union {r}, x.key = r.key, NEW f \in Fields(x)
      PROVE  f \in DOMAIN row /\ Num(x) <= row[f]
  <2>1. CASE f \in Fields(r)
    <3>1. f \in DOMAIN row /\ row[f] = Num(r)
      BY <1>2, <2>1
    <3>2. CASE x = r
      BY <1>5, <3>1, <3>2
    <3>3. CASE x \in S
      <4>1. Before(x, r)
        BY <1>6, <3>3
      <4>2. Num(x) <= Num(r)
        BY <1>6, <2>1, <4>1 DEF Before
      <4> QED
        BY <3>1, <4>2
    <3> QED
      BY <3>2, <3>3
  <2>2. CASE f \notin Fields(r)
    <3>1. x \in S /\ IsRecord(x)
      BY <1>6, <2>2
    <3>2. r.key.type = "trade"
      BY <1>6, <2>2, <3>1, RecordFacts
    <3>3. r.key \in DOMAIN rows /\ f \in DOMAIN old /\ Num(x) <= old[f]
      BY <1>4, <1>6, <3>1
    <3> QED
      BY <1>2, <2>2, <3>2, <3>3
  <2> QED
    BY <2>1, <2>2
<1>7. ASSUME NEW f \in DOMAIN row
      PROVE  \E x \in S \union {r} : x.key = r.key /\ f \in Fields(x) /\ row[f] = Num(x)
  <2>1. CASE f \in Fields(r)
    BY <1>2, <2>1
  <2>2. CASE f \notin Fields(r)
    <3>1. r.key.type = "trade" /\ r.key \in DOMAIN rows
      BY <1>2, <1>7, <2>2
    <3>2. f \in DOMAIN old /\ row[f] = old[f]
      BY <1>2, <1>7, <2>2, <3>1
    <3> QED
      BY <1>4, <3>1, <3>2
  <2> QED
    BY <2>1, <2>2
<1>8. \E x \in S \union {r} : x.key = r.key
  OBVIOUS
<1>9. Shows(up, r.key, S \union {r})
  BY <1>1, <1>2, <1>3, <1>6, <1>7, <1>8 DEF Shows
<1> QED
  BY <1>9 DEF up

\* Only the row and the records of the key count.
LEMMA ShowsLocal ==
  ASSUME NEW k, NEW rows, NEW S, NEW T, Shows(rows, k, S),
         \A r : r.key = k => (r \in S <=> r \in T)
  PROVE  Shows(rows, k, T)
  BY DEF Shows

\* A row that is not touched shows what it showed.
LEMMA ShowsSameRow ==
  ASSUME NEW k, NEW rows, NEW more, NEW S, Shows(rows, k, S),
         k \in DOMAIN more <=> k \in DOMAIN rows,
         k \in DOMAIN rows => more[k] = rows[k]
  PROVE  Shows(more, k, S)
  BY DEF Shows

\* Two tables that show the same records have the same row.
LEMMA ShowsUnique ==
  ASSUME NEW k, NEW rows, NEW more, NEW S, Shows(rows, k, S), Shows(more, k, S),
         \A r \in S : r.key = k => Num(r) \in Nat
  PROVE  /\ k \in DOMAIN rows <=> k \in DOMAIN more
         /\ k \in DOMAIN rows => rows[k] = more[k]
<1>1. k \in DOMAIN rows <=> k \in DOMAIN more
  BY DEF Shows
<1> SUFFICES ASSUME k \in DOMAIN rows PROVE rows[k] = more[k]
  BY <1>1
<1> DEFINE a == rows[k]  b == more[k]
<1>2. /\ a = [f \in DOMAIN a |-> a[f]]
      /\ \A r \in S : r.key = k => \A f \in Fields(r) : f \in DOMAIN a /\ Num(r) <= a[f]
      /\ \A f \in DOMAIN a : \E r \in S : r.key = k /\ f \in Fields(r) /\ a[f] = Num(r)
  BY DEF Shows
<1>3. /\ b = [f \in DOMAIN b |-> b[f]]
      /\ \A r \in S : r.key = k => \A f \in Fields(r) : f \in DOMAIN b /\ Num(r) <= b[f]
      /\ \A f \in DOMAIN b : \E r \in S : r.key = k /\ f \in Fields(r) /\ b[f] = Num(r)
  BY <1>1 DEF Shows
<1> HIDE DEF a, b
<1>4. DOMAIN a = DOMAIN b
  BY <1>2, <1>3
<1>5. ASSUME NEW f \in DOMAIN a PROVE a[f] = b[f]
  <2>1. PICK r \in S : r.key = k /\ f \in Fields(r) /\ a[f] = Num(r)
    BY <1>2
  <2>2. PICK s \in S : s.key = k /\ f \in Fields(s) /\ b[f] = Num(s)
    BY <1>3, <1>4
  <2>3. Num(r) <= b[f] /\ Num(s) <= a[f] /\ Num(r) \in Nat /\ Num(s) \in Nat
    BY <1>2, <1>3, <2>1, <2>2
  <2> QED
    BY <2>1, <2>2, <2>3
<1>6. a = b
  BY <1>2, <1>3, <1>4, <1>5
<1> QED
  BY <1>6 DEF a, b

-----------------------------------------------------------------------------
(* Replaying lines.                                                        *)

\* A set of numbers has a least one.
LEMMA LeastOf ==
  ASSUME NEW S, S \subseteq Nat, S # {}
  PROVE  \E x \in S : \A y \in S : x <= y
<1> DEFINE R == {ss \in Nat \X Nat : ss[1] < ss[2]}
<1>1. IsWellFoundedOn(R, Nat)
  BY NatLessThanWellFounded DEF OpToRel
<1>2. \A x, y \in Nat : <<y, x>> \in R <=> y < x
  OBVIOUS
<1> HIDE DEF R
<1>3. PICK x \in S : \A y \in S : ~(<<y, x>> \in R)
  BY <1>1, WFMin
<1>4. ASSUME NEW y \in S PROVE x <= y
  <2>1. x \in Nat /\ y \in Nat /\ ~(y < x)
    BY <1>2, <1>3
  <2> QED
    BY <2>1
<1> QED
  BY <1>4

\* Induction, as membership in a set.
LEMMA UpFromZero ==
  ASSUME NEW S, 0 \in S, \A n \in Nat : n \in S => n + 1 \in S
  PROVE  Nat \subseteq S
<1> SUFFICES ASSUME Nat \ S # {} PROVE FALSE
  OBVIOUS
<1>1. PICK x \in Nat \ S : \A y \in Nat \ S : x <= y
  BY LeastOf
<1>2. x # 0 /\ x - 1 \in Nat /\ x - 1 \in S
  BY <1>1
<1> QED
  BY <1>1, <1>2

AfterLine(s, W, n, rows) == IF s[n] \in W THEN rows ELSE Upserted(rows, s[n])

\* h is the tables after each of the first len lines.
Replays(s, W, h, len) ==
  h = [n \in 0 .. len |-> IF n = 0 THEN <<>> ELSE AfterLine(s, W, n, h[n - 1])]

\* The recursive definition of the tables after each line has a solution.
LEMMA ReplaysExist ==
  ASSUME NEW s, NEW W
  PROVE  \A len \in Nat : \E h : Replays(s, W, h, len)
<1> DEFINE S == {len \in Nat : \E h : Replays(s, W, h, len)}
<1>1. 0 \in S
  <2>1. Replays(s, W, [n \in 0 .. 0 |-> <<>>], 0)
    BY DEF Replays
  <2> QED
    BY <2>1
<1>2. ASSUME NEW len \in Nat, len \in S PROVE len + 1 \in S
  <2>1. PICK h : Replays(s, W, h, len)
    BY <1>2
  <2> DEFINE g == [n \in 0 .. len + 1 |->
                     IF n = len + 1 THEN AfterLine(s, W, n, h[len]) ELSE h[n]]
  <2>2. \A n \in 0 .. len : g[n] = h[n]
    OBVIOUS
  <2>3. \A n \in 0 .. len : h[n] = IF n = 0 THEN <<>> ELSE AfterLine(s, W, n, h[n - 1])
    BY <2>1 DEF Replays
  <2>4. g[len + 1] = AfterLine(s, W, len + 1, g[len])
    BY <2>2
  <2>5. ASSUME NEW n \in 0 .. len + 1
        PROVE  g[n] = IF n = 0 THEN <<>> ELSE AfterLine(s, W, n, g[n - 1])
    <3>1. CASE n = len + 1
      BY <2>4, <3>1
    <3>2. CASE n = 0
      BY <2>2, <2>3, <3>2
    <3>3. CASE n \in 1 .. len
      <4>1. n - 1 \in 0 .. len /\ n \in 0 .. len /\ n # 0
        BY <3>3
      <4>2. g[n] = h[n] /\ g[n - 1] = h[n - 1]
        BY <2>2, <4>1
      <4> HIDE DEF g
      <4> QED
        BY <2>3, <4>1, <4>2
    <3> QED
      BY <3>1, <3>2, <3>3
  <2>6. g = [n \in 0 .. len + 1 |-> g[n]]
    OBVIOUS
  <2> HIDE DEF g
  <2>7. Replays(s, W, g, len + 1)
    BY <2>5, <2>6, Zenon DEF Replays
  <2> QED
    BY <2>7
<1> HIDE DEF S
<1>3. Nat \subseteq S
  BY <1>1, <1>2, UpFromZero
<1> QED
  BY <1>3 DEF S

\* The recursive function is what it says.
LEMMA RowsAfterEach ==
  ASSUME NEW s, Len(s) \in Nat, NEW W, NEW rows, rows = RowsAfter(s, W)
  PROVE  /\ DOMAIN rows = 0 .. Len(s) /\ rows[0] = <<>>
         /\ \A n \in 1 .. Len(s) : rows[n] = AfterLine(s, W, n, rows[n - 1])
<1>1. \E h : Replays(s, W, h, Len(s))
  BY ReplaysExist
<1>2. rows = CHOOSE h : Replays(s, W, h, Len(s))
  BY Zenon DEF RowsAfter, Replays, AfterLine
<1>3. Replays(s, W, rows, Len(s))
  BY <1>1, <1>2, Zenon
<1> QED
  BY <1>3 DEF Replays

\* Lines that may be replayed in their order.
Replayable(s) ==
  /\ s \in Seq(Range(s))
  /\ \A i \in 1 .. Len(s) : s[i] = Garbled \/ IsRecord(s[i])
  /\ \A i, j \in 1 .. Len(s) :
       i < j /\ s[i] # Garbled /\ s[j] # Garbled => Before(s[i], s[j])

FirstOf(s, n) == {s[i] : i \in 1 .. n}

IsTable(rows) == rows = [k \in DOMAIN rows |-> rows[k]]

\* Whole tables that show a set of lines, the records of W left out.
TableShows(rows, S, W) ==
  /\ IsTable(rows)
  /\ \A k \in DOMAIN rows : \E r \in S : r.key = k
  /\ \A k : k # Garbled.key => Shows(rows, k, S \ W)

\* After so many lines the tables show those lines.
LEMMA RowsShow ==
  ASSUME NEW s, Replayable(s), NEW W, NEW rows, rows = RowsAfter(s, W)
  PROVE  \A n \in 0 .. Len(s) : TableShows(rows[n], FirstOf(s, n), W)
<1> DEFINE Good(n) == TableShows(rows[n], FirstOf(s, n), W)
           S == {n \in Nat : n <= Len(s) => Good(n)}
<1>1. Len(s) \in Nat
  BY DEF Replayable
<1>2. /\ rows[0] = <<>>
      /\ \A n \in 1 .. Len(s) : rows[n] = AfterLine(s, W, n, rows[n - 1])
  BY <1>1, RowsAfterEach
<1>3. 0 \in S
  <2>1. DOMAIN <<>> = {} /\ FirstOf(s, 0) = {}
    BY DEF FirstOf
  <2>2. IsTable(rows[0])
    BY <1>2, <2>1 DEF IsTable
  <2> QED
    BY <1>2, <2>1, <2>2 DEF Shows, TableShows
<1> HIDE DEF Good
<1>4. ASSUME NEW n \in Nat, n \in S PROVE n + 1 \in S
  <2> SUFFICES ASSUME n + 1 <= Len(s) PROVE Good(n + 1)
    OBVIOUS
  <2> DEFINE r == s[n + 1]
  <2>1. Good(n) /\ n + 1 \in 1 .. Len(s)
    BY <1>1, <1>4
  <2> USE DEF Good, TableShows
  <2>2. rows[n + 1] = IF r \in W THEN rows[n] ELSE Upserted(rows[n], r)
    BY <1>2, <2>1 DEF AfterLine
  <2>3. FirstOf(s, n + 1) = FirstOf(s, n) \union {r}
    BY DEF FirstOf
  <2>4. r = Garbled \/ IsRecord(r)
    BY <2>1 DEF Replayable
  <2>5. ASSUME NEW x \in FirstOf(s, n), x # Garbled, r # Garbled
        PROVE  IsRecord(x) /\ Before(x, r)
    <3>1. PICK i \in 1 .. n : x = s[i]
      BY DEF FirstOf
    <3>2. i \in 1 .. Len(s) /\ i < n + 1
      BY <1>1, <2>1, <3>1
    <3> QED
      BY <2>1, <2>5, <3>1, <3>2 DEF Replayable
  <2> HIDE DEF r
  <2>6. CASE r \in W
    <3>1. FirstOf(s, n + 1) \ W = FirstOf(s, n) \ W /\ rows[n + 1] = rows[n]
      BY <2>2, <2>3, <2>6
    <3> QED
      BY <2>1, <2>3, <3>1
  <2>7. CASE r \notin W
    <3> DEFINE up == Upserted(rows[n], r)
               T == FirstOf(s, n) \ W
    <3>1. rows[n + 1] = up /\ FirstOf(s, n + 1) \ W = T \union {r}
      BY <2>2, <2>3, <2>7
    <3>2. /\ IsTable(up)
          /\ DOMAIN up = DOMAIN rows[n] \union {r.key}
          /\ \A k \in DOMAIN rows[n] \ {r.key} : up[k] = rows[n][k]
      BY <2>4, UpsertedRows DEF IsTable
    <3>3. ASSUME NEW k, k # Garbled.key PROVE Shows(up, k, T \union {r})
      <4>1. Shows(rows[n], k, T)
        BY <2>1, <3>3
      <4>2. CASE k # r.key
        <5>1. Shows(up, k, T)
          <6> HIDE DEF up, T
          <6> QED
            BY <3>2, <4>1, <4>2, ShowsSameRow
        <5> HIDE DEF up, T
        <5> QED
          BY <4>2, <5>1, ShowsLocal
      <4>3. CASE k = r.key
        <5>1. IsRecord(r)
          BY <2>4, <3>3, <4>3
        <5>2. \A x \in T : x.key = r.key => IsRecord(x) /\ Before(x, r)
          BY <2>5, <3>3, <4>3
        <5> HIDE DEF T
        <5> QED
          BY <4>1, <4>3, <5>1, <5>2, UpsertShows
      <4> QED
        BY <4>2, <4>3
    <3>4. ASSUME NEW k \in DOMAIN up PROVE \E x \in FirstOf(s, n + 1) : x.key = k
      BY <2>1, <2>3, <3>2, <3>4
    <3> HIDE DEF up, T
    <3> QED
      BY <3>1, <3>2, <3>3, <3>4
  <2> QED
    BY <2>6, <2>7
<1> HIDE DEF S
<1>5. Nat \subseteq S
  BY <1>3, <1>4, UpFromZero
<1>6. ASSUME NEW n \in 0 .. Len(s) PROVE Good(n)
  BY <1>1, <1>5 DEF S
<1> QED
  BY <1>6 DEF Good

-----------------------------------------------------------------------------
(* The files one after the other.                                          *)

AllBefore(S, T) == \A x \in S \ {Garbled}, y \in T \ {Garbled} : Before(x, y)

\* Two runs of lines one after the other, the later of which brings nothing old back.
LEMMA Appended ==
  ASSUME NEW s, NEW t, Replayable(s), Replayable(t), AllBefore(Range(s), Range(t))
  PROVE  /\ Replayable(s \o t) /\ Len(s \o t) = Len(s) + Len(t)
         /\ Range(s \o t) = Range(s) \union Range(t)
         /\ \A n \in 0 .. Len(s) : FirstOf(s \o t, n) = FirstOf(s, n)
         /\ \A n \in 0 .. Len(t) : FirstOf(s \o t, Len(s) + n) = Range(s) \union FirstOf(t, n)
<1> DEFINE st == s \o t  S == Range(s) \union Range(t)
<1>1. s \in Seq(S) /\ t \in Seq(S) /\ Len(s) \in Nat /\ Len(t) \in Nat
  BY DEF Replayable
<1>2. /\ st \in Seq(S) /\ Len(st) = Len(s) + Len(t)
      /\ \A i \in 1 .. Len(st) : st[i] = IF i <= Len(s) THEN s[i] ELSE t[i - Len(s)]
  BY <1>1
<1>3. /\ DOMAIN s = 1 .. Len(s) /\ DOMAIN t = 1 .. Len(t) /\ DOMAIN st = 1 .. Len(st)
  BY <1>1, <1>2
<1> HIDE DEF st
<1>4. \A n \in 0 .. Len(s) : FirstOf(st, n) = FirstOf(s, n)
  <2> SUFFICES ASSUME NEW n \in 0 .. Len(s) PROVE FirstOf(st, n) = FirstOf(s, n)
    OBVIOUS
  <2>1. \A i \in 1 .. n : st[i] = s[i]
    BY <1>1, <1>2
  <2> QED
    BY <2>1 DEF FirstOf
<1>5. Range(s) = FirstOf(s, Len(s)) /\ Range(t) = FirstOf(t, Len(t))
      /\ Range(st) = FirstOf(st, Len(st))
  BY <1>3 DEF Range, FirstOf
<1>6. \A n \in 0 .. Len(t) : FirstOf(st, Len(s) + n) = Range(s) \union FirstOf(t, n)
  <2> SUFFICES ASSUME NEW n \in 0 .. Len(t)
               PROVE  FirstOf(st, Len(s) + n) = Range(s) \union FirstOf(t, n)
    OBVIOUS
  <2>1. ASSUME NEW x \in FirstOf(st, Len(s) + n)
        PROVE  x \in Range(s) \union FirstOf(t, n)
    <3>1. PICK i \in 1 .. Len(s) + n : x = st[i]
      BY DEF FirstOf
    <3>2. CASE i <= Len(s)
      <4>1. i \in 1 .. Len(s) /\ x = s[i]
        BY <1>1, <1>2, <3>1, <3>2
      <4> QED
        BY <4>1, <1>5 DEF FirstOf
    <3>3. CASE i > Len(s)
      <4>1. i - Len(s) \in 1 .. n /\ x = t[i - Len(s)]
        BY <1>1, <1>2, <3>1, <3>3
      <4> QED
        BY <4>1 DEF FirstOf
    <3> QED
      BY <1>1, <3>2, <3>3
  <2>2. ASSUME NEW x \in Range(s) PROVE x \in FirstOf(st, Len(s) + n)
    <3>1. PICK i \in 1 .. Len(s) : x = s[i]
      BY <1>5 DEF FirstOf
    <3>2. i \in 1 .. Len(s) + n /\ st[i] = x
      BY <1>1, <1>2, <3>1
    <3> QED
      BY <3>2 DEF FirstOf
  <2>3. ASSUME NEW x \in FirstOf(t, n) PROVE x \in FirstOf(st, Len(s) + n)
    <3>1. PICK i \in 1 .. n : x = t[i]
      BY DEF FirstOf
    <3>2. Len(s) + i \in 1 .. Len(s) + n /\ st[Len(s) + i] = x
      <4>1. /\ Len(s) + i \in 1 .. Len(st) /\ Len(s) + i \in 1 .. Len(s) + n
            /\ ~(Len(s) + i <= Len(s)) /\ Len(s) + i - Len(s) = i
        BY <1>1, <1>2
      <4> QED
        BY <1>2, <3>1, <4>1
    <3> QED
      BY <3>2 DEF FirstOf
  <2> QED
    BY <2>1, <2>2, <2>3
<1>7. Range(st) = Range(s) \union Range(t)
  BY <1>1, <1>2, <1>5, <1>6
<1>8. \A i \in 1 .. Len(st) : st[i] = Garbled \/ IsRecord(st[i])
  <2> SUFFICES ASSUME NEW i \in 1 .. Len(st) PROVE st[i] = Garbled \/ IsRecord(st[i])
    OBVIOUS
  <2>1. CASE i <= Len(s)
    BY <1>1, <1>2, <2>1 DEF Replayable
  <2>2. CASE i > Len(s)
    <3>1. i - Len(s) \in 1 .. Len(t) /\ st[i] = t[i - Len(s)]
      BY <1>1, <1>2, <2>2
    <3> QED
      BY <3>1 DEF Replayable
  <2> QED
    BY <1>1, <2>1, <2>2
<1>9. \A i, j \in 1 .. Len(st) :
       i < j /\ st[i] # Garbled /\ st[j] # Garbled => Before(st[i], st[j])
  <2> SUFFICES ASSUME NEW i \in 1 .. Len(st), NEW j \in 1 .. Len(st),
                      i < j, st[i] # Garbled, st[j] # Garbled
               PROVE  Before(st[i], st[j])
    OBVIOUS
  <2>1. CASE j <= Len(s)
    <3>1. i \in 1 .. Len(s) /\ j \in 1 .. Len(s) /\ st[i] = s[i] /\ st[j] = s[j]
      BY <1>1, <1>2, <2>1
    <3> QED
      BY <3>1 DEF Replayable
  <2>2. CASE i > Len(s)
    <3>1. /\ i - Len(s) \in 1 .. Len(t) /\ st[i] = t[i - Len(s)]
          /\ j - Len(s) \in 1 .. Len(t) /\ st[j] = t[j - Len(s)]
          /\ i - Len(s) < j - Len(s)
      BY <1>1, <1>2, <2>2
    <3> QED
      BY <3>1 DEF Replayable
  <2>3. CASE i <= Len(s) /\ j > Len(s)
    <3>1. i \in 1 .. Len(s) /\ st[i] = s[i]
      BY <1>1, <1>2, <2>3
    <3>2. j - Len(s) \in 1 .. Len(t) /\ st[j] = t[j - Len(s)]
      BY <1>1, <1>2, <2>3
    <3>3. st[i] \in Range(s) /\ st[j] \in Range(t)
      BY <1>3, <3>1, <3>2 DEF Range
    <3> QED
      BY <3>3 DEF AllBefore
  <2> QED
    BY <1>1, <2>1, <2>2, <2>3
<1>10. st \in Seq(Range(st))
  BY <1>2, <1>7
<1> QED
  BY <1>2, <1>4, <1>6, <1>7, <1>8, <1>9, <1>10 DEF st, Replayable

\* The first n lines of file d, and all of the files before it.
UpToOf(files, d, n) ==
  (UNION {Range(files[e].lines) : e \in 1 .. d - 1}) \union FirstOf(files[d].lines, n)

\* h is the lines of the first files, one after the other.
Joins(files, h, len) ==
  h = [d \in 0 .. len |-> IF d = 0 THEN <<>> ELSE h[d - 1] \o files[d].lines]

\* So has that of the files' lines.
LEMMA JoinsExist ==
  ASSUME NEW files
  PROVE  \A len \in Nat : \E h : Joins(files, h, len)
<1> DEFINE S == {len \in Nat : \E h : Joins(files, h, len)}
<1>1. 0 \in S
  <2>1. Joins(files, [n \in 0 .. 0 |-> <<>>], 0)
    BY DEF Joins
  <2> QED
    BY <2>1
<1>2. ASSUME NEW len \in Nat, len \in S PROVE len + 1 \in S
  <2>1. PICK h : Joins(files, h, len)
    BY <1>2
  <2> DEFINE g == [n \in 0 .. len + 1 |->
                     IF n = len + 1 THEN h[len] \o files[n].lines ELSE h[n]]
  <2>2. \A n \in 0 .. len : g[n] = h[n]
    OBVIOUS
  <2>3. \A n \in 0 .. len : h[n] = IF n = 0 THEN <<>> ELSE h[n - 1] \o files[n].lines
    BY <2>1 DEF Joins
  <2>4. g[len + 1] = g[len] \o files[len + 1].lines
    BY <2>2
  <2>5. ASSUME NEW n \in 0 .. len + 1
        PROVE  g[n] = IF n = 0 THEN <<>> ELSE g[n - 1] \o files[n].lines
    <3>1. CASE n = len + 1
      <4>1. n # 0 /\ n - 1 = len
        BY <3>1
      <4> HIDE DEF g
      <4> QED
        BY <2>4, <3>1, <4>1
    <3>2. CASE n = 0
      BY <2>2, <2>3, <3>2
    <3>3. CASE n \in 1 .. len
      <4>1. n - 1 \in 0 .. len /\ n \in 0 .. len /\ n # 0
        BY <3>3
      <4>2. g[n] = h[n] /\ g[n - 1] = h[n - 1]
        BY <2>2, <4>1
      <4> HIDE DEF g
      <4> QED
        BY <2>3, <4>1, <4>2
    <3> QED
      BY <3>1, <3>2, <3>3
  <2>6. g = [n \in 0 .. len + 1 |-> g[n]]
    OBVIOUS
  <2> HIDE DEF g
  <2>7. Joins(files, g, len + 1)
    BY <2>5, <2>6, Zenon DEF Joins
  <2> QED
    BY <2>7
<1> HIDE DEF S
<1>3. Nat \subseteq S
  BY <1>1, <1>2, UpFromZero
<1> QED
  BY <1>3 DEF S

\* What the lines of the files, joined, are.
LEMMA JoinedLines ==
  ASSUME NEW files, NEW len \in Nat, NEW h, Joins(files, h, len),
         \A d \in 1 .. len : Replayable(files[d].lines),
         \A d, e \in 1 .. len :
           d < e => AllBefore(Range(files[d].lines), Range(files[e].lines))
  PROVE  /\ Replayable(h[len])
         /\ Range(h[len]) = UNION {Range(files[e].lines) : e \in 1 .. len}
         /\ \A e \in 1 .. len : \A n \in 0 .. Len(files[e].lines) :
              \E m \in 0 .. Len(h[len]) : FirstOf(h[len], m) = UpToOf(files, e, n)
<1> DEFINE Good(d) ==
             /\ Replayable(h[d])
             /\ Range(h[d]) = UNION {Range(files[e].lines) : e \in 1 .. d}
             /\ \A e \in 1 .. d : \A n \in 0 .. Len(files[e].lines) :
                  \E m \in 0 .. Len(h[d]) : FirstOf(h[d], m) = UpToOf(files, e, n)
           S == {d \in Nat : d <= len => Good(d)}
<1>1. h[0] = <<>> /\ \A d \in 1 .. len : h[d] = h[d - 1] \o files[d].lines
  BY DEF Joins
<1>2. 0 \in S
  <2>1. h[0] = <<>> /\ Len(h[0]) = 0 /\ Range(h[0]) = {} /\ h[0] \in Seq({})
    BY <1>1 DEF Range
  <2>2. Replayable(h[0])
    BY <2>1 DEF Replayable
  <2>3. UNION {Range(files[e].lines) : e \in 1 .. 0} = {}
    OBVIOUS
  <2> QED
    BY <2>1, <2>2, <2>3
<1> HIDE DEF Good
<1>3. ASSUME NEW d \in Nat, d \in S PROVE d + 1 \in S
  <2> SUFFICES ASSUME d + 1 <= len PROVE Good(d + 1)
    OBVIOUS
  <2>1. Good(d) /\ d + 1 \in 1 .. len
    BY <1>3
  <2> DEFINE s == h[d]  t == files[d + 1].lines
  <2>2. h[d + 1] = s \o t
    <3> HIDE DEF s, t
    <3>1. PICK x \in 1 .. len : x = d + 1
      BY <2>1
    <3>2. h[x] = h[x - 1] \o files[x].lines
      BY <1>1
    <3>3. x - 1 = d
      BY <3>1
    <3> QED
      BY <3>1, <3>2, <3>3 DEF s, t
  <2>3. Replayable(s) /\ Replayable(t)
    BY <2>1 DEF Good
  <2>4. Range(s) = UNION {Range(files[e].lines) : e \in 1 .. d}
    BY <2>1 DEF Good
  <2>5. AllBefore(Range(s), Range(t))
    <3>1. ASSUME NEW x \in Range(s) \ {Garbled}, NEW y \in Range(t) \ {Garbled}
          PROVE  Before(x, y)
      <4>1. PICK e \in 1 .. d : x \in Range(files[e].lines)
        BY <2>4
      <4>2. AllBefore(Range(files[e].lines), Range(t))
        BY <2>1, <4>1
      <4> QED
        BY <4>1, <4>2 DEF AllBefore
    <3> QED
      BY <3>1 DEF AllBefore
  <2> HIDE DEF s, t
  <2>6. /\ Replayable(s \o t) /\ Len(s \o t) = Len(s) + Len(t)
        /\ Range(s \o t) = Range(s) \union Range(t)
        /\ \A n \in 0 .. Len(s) : FirstOf(s \o t, n) = FirstOf(s, n)
        /\ \A n \in 0 .. Len(t) : FirstOf(s \o t, Len(s) + n) = Range(s) \union FirstOf(t, n)
    BY <2>3, <2>5, Appended
  <2>7. Len(s) \in Nat /\ Len(t) \in Nat
    BY <2>3 DEF Replayable
  <2>8. UNION {Range(files[e].lines) : e \in 1 .. d + 1} = Range(s) \union Range(t)
    <3>1. \A e : e \in 1 .. d + 1 <=> e \in 1 .. d \/ e = d + 1
      OBVIOUS
    <3> QED
      BY <2>4, <3>1 DEF t
  <2>9. ASSUME NEW e \in 1 .. d + 1, NEW n \in 0 .. Len(files[e].lines)
        PROVE  \E m \in 0 .. Len(s \o t) : FirstOf(s \o t, m) = UpToOf(files, e, n)
    <3>1. CASE e \in 1 .. d
      <4>1. PICK m \in 0 .. Len(s) : FirstOf(s, m) = UpToOf(files, e, n)
        BY <2>1, <3>1 DEF Good, s
      <4>2. m \in 0 .. Len(s \o t) /\ FirstOf(s \o t, m) = UpToOf(files, e, n)
        BY <2>6, <2>7, <4>1
      <4> QED
        BY <4>2
    <3>2. CASE e = d + 1
      <4>1. n \in 0 .. Len(t) /\ e - 1 = d /\ files[e].lines = t
        BY <3>2 DEF t
      <4>2. UpToOf(files, e, n) = Range(s) \union FirstOf(t, n)
        <5> DEFINE earlier == UNION {Range(files[f].lines) : f \in 1 .. e - 1}
        <5>1. UpToOf(files, e, n) = earlier \union FirstOf(t, n)
          BY <4>1 DEF UpToOf
        <5>2. \A f : f \in 1 .. e - 1 <=> f \in 1 .. d
          BY <4>1
        <5>3. earlier = Range(s)
          BY <2>4, <5>2
        <5> HIDE DEF earlier
        <5> QED
          BY <5>1, <5>3
      <4>3. Len(s) + n \in 0 .. Len(s \o t)
        BY <2>6, <2>7, <4>1
      <4> QED
        BY <2>6, <4>1, <4>2, <4>3
    <3> QED
      BY <3>1, <3>2
  <2> QED
    BY <2>2, <2>6, <2>8, <2>9 DEF Good
<1> HIDE DEF S
<1>4. Nat \subseteq S
  BY <1>2, <1>3, UpFromZero
<1>5. Good(len)
  BY <1>4 DEF S
<1> QED
  BY <1>5 DEF Good

-----------------------------------------------------------------------------
(* The inductive invariant of the tables.                                  *)

\* The lines of a file, also while a repair rewrites it.
Lines(d) == IF pc = "rewrite" /\ buf.day = d THEN buf.lines ELSE disk[d].lines

\* Rejects are numbered without a gap, unless a line before is garbled.
NumberedOn(s, d) ==
  \A i \in 1 .. Len(s) : s[i].key.type = "reject" /\ s[i].key.id[2] > 0 =>
    \/ Garbled \in FirstOf(s, i - 1)
    \/ \E x \in FirstOf(s, i - 1) : x.key = Key("reject", d, s[i].key.id[2] - 1)

\* The lines of the file of day d, when it is `day' and `top' was the last number.
GoodFile(s, d, day, top) ==
  /\ Replayable(s) /\ NumberedOn(s, d)
  /\ \A x \in Range(s) \ {Garbled} : x.day = d /\ Num(x) <= top
  /\ d > day => Range(s) = {}

\* The last number that a line or a history may have.
Top == IF pc = "write" THEN appends - 1 ELSE appends

FilesInv ==
  /\ \A d \in Days : GoodFile(Lines(d), d, today, Top)
  /\ \A d, e \in Days : d < e => AllBefore(Range(Lines(d)), Range(Lines(e)))

HistInv ==
  /\ appends \in Nat /\ (pc = "write" => appends > 0)
  /\ \A r \in skipped \union acked : IsRecord(r) /\ Num(r) <= Top
  /\ skipped \intersect acked \subseteq damaged

\* No line brings back what a sound reject's key held before.
RejectsLast ==
  \A a \in Sound : a.key.type = "reject" =>
    \A d \in Days : \A x \in Range(Lines(d)) \ {Garbled} : x.key = a.key => Num(x) <= Num(a)

Written == {"sync", "upsert"}

\* The record being appended, and what was written before in its key's row.
RecInv ==
  /\ IsRecord(rec) /\ rec.version = 3 /\ Num(rec) = appends /\ rec.day <= today
  /\ rec \notin acked /\ (rec \in skipped => rec \in damaged)
  /\ rec.key.type = "intent" \/ "outcome" \in DOMAIN rec.patch => rec.day = today
  /\ rec.key.type = "reject" => rec.key = Key("reject", rec.day, NextSeq(rec.day))
  /\ "entry" \in DOMAIN rec.patch /\ rec.key \in DOMAIN conn =>
       "outcome" \notin DOMAIN conn[rec.key]

\* Written, it is the last line of its file and the last of its key that counts,
\* unless a cut line took it.
WrittenInv ==
  /\ \/ rec \in skipped \intersect damaged
     \/ /\ Len(disk[rec.day].lines) > 0
        /\ disk[rec.day].lines[Len(disk[rec.day].lines)] = rec
        /\ \A i \in 1 .. Len(disk[rec.day].lines) - 1 : disk[rec.day].lines[i] # rec
        /\ \A d \in Days : d > rec.day => \A x \in Range(disk[d].lines) :
             x.key = rec.key => x \in skipped \/ rec.key \in CutKeys
  /\ \/ disk[rec.day].tail \/ rec \in Range(disk[rec.day].lines)
     \/ Garbled \in Range(disk[rec.day].lines)

\* Stored, but not in the tables.
Outside == IF pc \in Written THEN skipped \union {rec} ELSE skipped

RejectKeys(d) == {k \in DOMAIN conn : k.type = "reject" /\ k.id[1] = d}

ConnInv ==
  /\ conn = [k \in DOMAIN conn |-> conn[k]]
  /\ \A k \in DOMAIN conn : IsKey(k)
  /\ \A k : k # Garbled.key /\ k \notin CutKeys => Shows(conn, k, Stored \ Outside)
  /\ \A d \in Days : \E m \in Nat : RejectKeys(d) = {Key("reject", d, i) : i \in 0 .. m - 1}
  /\ \A d \in Days : \A k \in RejectKeys(d) :
       \/ disk[d].tail \/ Garbled \in Range(disk[d].lines)
       \/ \E x \in Range(disk[d].lines) : x.key = k

DbInv ==
  \A k \in DOMAIN db \ CutKeys :
    /\ k # Garbled.key
    /\ \E d \in Days : \E n \in 0 .. Len(disk[d].lines) :
         Shows(db, k, UpToOf(disk, d, n) \ Outside)

\* What a table holds of an acknowledged record.
Holds(rows, a) ==
  /\ a.key \in DOMAIN rows
  /\ \A f \in DOMAIN a.patch : f \in DOMAIN rows[a.key] /\ rows[a.key][f] >= a.patch[f]
  /\ a.key.type = "reject" => rows[a.key] = a.patch

ViewInv ==
  /\ FilesInv /\ HistInv /\ RejectsLast
  /\ pc \in Running =>
       /\ Garbled \in Stored => HasCut
       /\ ConnInv /\ DbInv
       /\ \A a \in Sound : Holds(conn, a)
  /\ pc \in Appending => RecInv
  /\ pc \in Written => WrittenInv

-----------------------------------------------------------------------------
(* One file, and all of them.                                              *)

\* A line at the end of a file.
LEMMA LineAppended ==
  ASSUME NEW s, s \in Seq(Range(s)), NEW r
  PROVE  LET t == Append(s, r) IN
         /\ t \in Seq(Range(t)) /\ Len(t) = Len(s) + 1 /\ Len(s) \in Nat
         /\ t[Len(t)] = r /\ \A i \in 1 .. Len(s) : t[i] = s[i]
         /\ Range(t) = Range(s) \union {r}
         /\ \A n \in 0 .. Len(s) : FirstOf(t, n) = FirstOf(s, n)
         /\ FirstOf(s, Len(s)) = Range(s)
<1> DEFINE t == Append(s, r)  S == Range(s) \union {r}
<1>1. s \in Seq(S) /\ Len(s) \in Nat /\ DOMAIN s = 1 .. Len(s)
  OBVIOUS
<1>2. /\ t \in Seq(S) /\ Len(t) = Len(s) + 1 /\ t[Len(s) + 1] = r
      /\ \A i \in 1 .. Len(s) : t[i] = s[i]
      /\ DOMAIN t = 1 .. Len(s) + 1
  BY <1>1
<1> HIDE DEF t
<1>3. Range(t) = S
  <2>1. \A x \in Range(s) : \E i \in 1 .. Len(s) : x = s[i]
    BY <1>1 DEF Range
  <2>2. \A x \in S : \E i \in DOMAIN t : t[i] = x
    BY <1>1, <1>2, <2>1
  <2>3. \A i \in DOMAIN t : t[i] \in S
    BY <1>2
  <2> QED
    BY <2>2, <2>3 DEF Range
<1>4. \A n \in 0 .. Len(s) : FirstOf(t, n) = FirstOf(s, n)
  <2> SUFFICES ASSUME NEW n \in 0 .. Len(s) PROVE FirstOf(t, n) = FirstOf(s, n)
    OBVIOUS
  <2>1. \A i \in 1 .. n : t[i] = s[i]
    BY <1>1, <1>2
  <2> QED
    BY <2>1 DEF FirstOf
<1>5. FirstOf(s, Len(s)) = Range(s)
  BY <1>1 DEF FirstOf, Range
<1> QED
  BY <1>1, <1>2, <1>3, <1>4, <1>5 DEF t

\* The line of an append at the end of its file.
LEMMA GoodAppend ==
  ASSUME NEW s, NEW d, NEW day \in Int, NEW top \in Int, NEW r,
         GoodFile(s, d, day, top), d \in Int, d <= day,
         r = Garbled \/ (IsRecord(r) /\ r.day = d /\ Num(r) = top + 1),
         r # Garbled /\ r.key.type = "reject" /\ r.key.id[2] > 0 =>
           \/ Garbled \in Range(s)
           \/ \E x \in Range(s) : x.key = Key("reject", d, r.key.id[2] - 1)
  PROVE  GoodFile(Append(s, r), d, day, top + 1)
<1> DEFINE t == Append(s, r)
<1>1. s \in Seq(Range(s))
  BY DEF GoodFile, Replayable
<1>2. /\ t \in Seq(Range(t)) /\ Len(t) = Len(s) + 1 /\ Len(s) \in Nat
      /\ t[Len(t)] = r /\ \A i \in 1 .. Len(s) : t[i] = s[i]
      /\ Range(t) = Range(s) \union {r}
      /\ \A n \in 0 .. Len(s) : FirstOf(t, n) = FirstOf(s, n)
      /\ FirstOf(s, Len(s)) = Range(s)
  BY <1>1, LineAppended
<1> HIDE DEF t
<1>3. \A i \in 1 .. Len(s) : s[i] \in Range(s)
  BY <1>1 DEF Range
<1>4. \A x \in Range(s) : x = Garbled \/ (IsRecord(x) /\ x.day = d /\ Num(x) <= top)
  <2>1. \A x \in Range(s) : \E i \in 1 .. Len(s) : x = s[i]
    BY <1>1 DEF Range
  <2> QED
    BY <2>1 DEF GoodFile, Replayable
<1>5. Replayable(t)
  <2>1. \A i \in 1 .. Len(t) : t[i] = Garbled \/ IsRecord(t[i])
    BY <1>2, <1>3, <1>4
  <2>2. ASSUME NEW i \in 1 .. Len(t), NEW j \in 1 .. Len(t), i < j,
               t[i] # Garbled, t[j] # Garbled
        PROVE  Before(t[i], t[j])
    <3>1. i \in 1 .. Len(s) /\ t[i] = s[i] /\ s[i] \in Range(s)
      BY <1>2, <1>3, <2>2
    <3>2. CASE j <= Len(s)
      <4>1. j \in 1 .. Len(s) /\ t[j] = s[j]
        BY <1>2, <3>2
      <4> QED
        BY <2>2, <3>1, <4>1 DEF GoodFile, Replayable
    <3>3. CASE j = Len(s) + 1
      <4>1. IsRecord(t[i]) /\ Num(t[i]) <= top /\ Num(t[j]) = top + 1
        BY <1>2, <1>4, <2>2, <3>1, <3>3
      <4>2. Num(t[i]) \in Nat
        BY <4>1 DEF IsRecord
      <4> QED
        BY <4>1, <4>2 DEF Before
    <3> QED
      BY <1>2, <3>2, <3>3
  <2> QED
    BY <1>2, <2>1, <2>2 DEF Replayable
<1>6. NumberedOn(t, d)
  <2> SUFFICES ASSUME NEW i \in 1 .. Len(t), t[i].key.type = "reject", t[i].key.id[2] > 0
               PROVE  \/ Garbled \in FirstOf(t, i - 1)
                      \/ \E x \in FirstOf(t, i - 1) :
                           x.key = Key("reject", d, t[i].key.id[2] - 1)
    BY DEF NumberedOn
  <2>1. i - 1 \in 0 .. Len(s) /\ FirstOf(t, i - 1) = FirstOf(s, i - 1)
    BY <1>2
  <2>2. CASE i <= Len(s)
    <3>1. i \in 1 .. Len(s) /\ t[i] = s[i]
      BY <1>2, <2>2
    <3> QED
      BY <2>1, <3>1 DEF GoodFile, NumberedOn
  <2>3. CASE i = Len(s) + 1
    <3>1. t[i] = r /\ FirstOf(t, i - 1) = Range(s)
      BY <1>2, <2>1, <2>3
    <3>2. r # Garbled
      BY <3>1 DEF Garbled, Record, Key
    <3> QED
      BY <3>1, <3>2
  <2> QED
    BY <1>2, <2>2, <2>3
<1>7. \A x \in Range(t) \ {Garbled} : x.day = d /\ Num(x) <= top + 1
  <2> SUFFICES ASSUME NEW x \in Range(t) \ {Garbled} PROVE x.day = d /\ Num(x) <= top + 1
    OBVIOUS
  <2>1. IsRecord(x) /\ x.day = d /\ (Num(x) <= top \/ Num(x) = top + 1)
    BY <1>2, <1>4
  <2>2. Num(x) \in Nat
    BY <2>1 DEF IsRecord
  <2> QED
    BY <2>1, <2>2
<1>8. GoodFile(t, d, day, top + 1)
  BY <1>5, <1>6, <1>7 DEF GoodFile
<1> QED
  BY <1>8 DEF t

\* What a power loss leaves of a file.
LEMMA GoodPrefix ==
  ASSUME NEW s, NEW d, NEW day, NEW top, GoodFile(s, d, day, top), NEW n \in 0 .. Len(s)
  PROVE  /\ GoodFile(SubSeq(s, 1, n), d, day, top)
         /\ Range(SubSeq(s, 1, n)) \subseteq Range(s)
<1> DEFINE t == SubSeq(s, 1, n)
<1>1. s \in Seq(Range(s)) /\ Len(s) \in Nat /\ DOMAIN s = 1 .. Len(s)
  BY DEF GoodFile, Replayable
<1>2. /\ t \in Seq(Range(s)) /\ Len(t) = n /\ DOMAIN t = 1 .. n
      /\ \A i \in 1 .. n : t[i] = s[i]
  BY <1>1
<1> HIDE DEF t
<1>3. t \in Seq(Range(t)) /\ Range(t) \subseteq Range(s)
  <2>1. \A i \in 1 .. n : t[i] \in Range(s)
    BY <1>1, <1>2 DEF Range
  <2>2. t \in Seq(Range(t))
    BY <1>2, SeqOfRange
  <2> QED
    BY <1>2, <2>1, <2>2 DEF Range
<1>4. Replayable(t)
  BY <1>1, <1>2, <1>3 DEF GoodFile, Replayable
<1>5. NumberedOn(t, d)
  <2> SUFFICES ASSUME NEW i \in 1 .. n, t[i].key.type = "reject", t[i].key.id[2] > 0
               PROVE  \/ Garbled \in FirstOf(t, i - 1)
                      \/ \E x \in FirstOf(t, i - 1) :
                           x.key = Key("reject", d, t[i].key.id[2] - 1)
    BY <1>2 DEF NumberedOn
  <2>1. \A j \in 1 .. i - 1 : t[j] = s[j]
    BY <1>1, <1>2
  <2>2. FirstOf(t, i - 1) = FirstOf(s, i - 1) /\ i \in 1 .. Len(s) /\ t[i] = s[i]
    BY <1>1, <1>2, <2>1 DEF FirstOf
  <2> QED
    BY <2>2 DEF GoodFile, NumberedOn
<1>6. GoodFile(t, d, day, top)
  BY <1>3, <1>4, <1>5 DEF GoodFile
<1> QED
  BY <1>3, <1>6 DEF t

\* Days and appends that come do no harm to a file.
LEMMA GoodLater ==
  ASSUME NEW s, NEW d, NEW day, NEW top, GoodFile(s, d, day, top),
         NEW later, NEW more, day \in Int, later \in Int, day <= later, d \in Int,
         top \in Int, more \in Int, top <= more
  PROVE  GoodFile(s, d, later, more)
<1>1. \A x \in Range(s) \ {Garbled} : x.day = d /\ Num(x) <= more
  <2> SUFFICES ASSUME NEW x \in Range(s) \ {Garbled} PROVE x.day = d /\ Num(x) <= more
    OBVIOUS
  <2>1. s \in Seq(Range(s)) /\ \A i \in 1 .. Len(s) : s[i] = Garbled \/ IsRecord(s[i])
    BY DEF GoodFile, Replayable
  <2>2. PICK i \in 1 .. Len(s) : x = s[i]
    BY <2>1 DEF Range
  <2>3. Num(x) \in Nat /\ x.day = d /\ Num(x) <= top
    BY <2>1, <2>2 DEF GoodFile, IsRecord
  <2> QED
    BY <2>3
<1> QED
  BY <1>1 DEF GoodFile

\* What a line of such a file is.
LEMMA GoodLines ==
  ASSUME NEW s, NEW d, NEW day, NEW top, GoodFile(s, d, day, top), NEW x \in Range(s)
  PROVE  x = Garbled \/ (IsRecord(x) /\ x.day = d /\ Num(x) <= top /\ Num(x) \in Nat)
<1>1. s \in Seq(Range(s)) /\ \A i \in 1 .. Len(s) : s[i] = Garbled \/ IsRecord(s[i])
  BY DEF GoodFile, Replayable
<1>2. PICK i \in 1 .. Len(s) : x = s[i]
  BY <1>1 DEF Range
<1> QED
  BY <1>1, <1>2 DEF GoodFile, IsRecord

LEMMA GoodEmpty ==
  ASSUME NEW d, NEW day, NEW top PROVE GoodFile(<<>>, d, day, top)
<1>1. <<>> \in Seq({}) /\ Len(<<>>) = 0 /\ Range(<<>>) = {}
  BY DEF Range
<1> QED
  BY <1>1 DEF GoodFile, Replayable, NumberedOn

\* What all files together say, when none is being rewritten.
LEMMA AllLinesAre ==
  ASSUME FilesInv, pc # "rewrite"
  PROVE  /\ Replayable(AllLines) /\ Range(AllLines) = Stored
         /\ \A d \in Days : \A n \in 0 .. Len(disk[d].lines) :
              \E m \in 0 .. Len(AllLines) : FirstOf(AllLines, m) = UpToOf(disk, d, n)
<1>1. MaxDay \in Nat
  BY JournalAssumption
<1>2. PICK files : files = disk
  OBVIOUS
<1>3. \E h : Joins(files, h, MaxDay)
  BY <1>1, JoinsExist
<1> DEFINE h == CHOOSE h : Joins(files, h, MaxDay)
<1>4. Joins(files, h, MaxDay)
  BY <1>3
<1>5. AllLines = h[MaxDay]
  BY <1>2, Zenon DEF AllLines, Joins
<1> HIDE DEF h
<1>6. \A d \in 1 .. MaxDay : Replayable(files[d].lines)
  BY <1>2 DEF FilesInv, GoodFile, Lines, Days
<1>7. \A d, e \in 1 .. MaxDay :
        d < e => AllBefore(Range(files[d].lines), Range(files[e].lines))
  BY <1>2 DEF FilesInv, Lines, Days
<1>8. /\ Replayable(h[MaxDay])
      /\ Range(h[MaxDay]) = UNION {Range(files[e].lines) : e \in 1 .. MaxDay}
      /\ \A e \in 1 .. MaxDay : \A n \in 0 .. Len(files[e].lines) :
           \E m \in 0 .. Len(h[MaxDay]) : FirstOf(h[MaxDay], m) = UpToOf(files, e, n)
  BY <1>1, <1>4, <1>6, <1>7, JoinedLines
<1> QED
  BY <1>2, <1>5, <1>8 DEF Stored, Days

\* What a line of any file is, and in which file.
LEMMA StoredLines ==
  ASSUME FilesInv, pc # "rewrite", NEW x \in Stored
  PROVE  x = Garbled \/ (IsRecord(x) /\ Num(x) <= Top /\ Num(x) \in Nat
                         /\ x \in Range(disk[x.day].lines))
<1>1. PICK d \in Days : x \in Range(disk[d].lines)
  BY DEF Stored
<1>2. GoodFile(disk[d].lines, d, today, Top)
  BY DEF FilesInv, Lines
<1> QED
  BY <1>1, <1>2, GoodLines

-----------------------------------------------------------------------------
(* The numbers of rejects.                                                 *)

RejectRow(d, m) == {Key("reject", d, i) : i \in 0 .. m - 1}

\* The first m numbers of rejects are m keys.
LEMMA RejectRowSize ==
  ASSUME NEW d
  PROVE  \A m \in Nat : IsFiniteSet(RejectRow(d, m)) /\ Cardinality(RejectRow(d, m)) = m
<1> DEFINE S == {m \in Nat : IsFiniteSet(RejectRow(d, m)) /\ Cardinality(RejectRow(d, m)) = m}
<1>1. 0 \in S
  <2>1. RejectRow(d, 0) = {}
    BY DEF RejectRow
  <2> QED
    BY <2>1, FS_EmptySet
<1>2. ASSUME NEW m \in Nat, m \in S PROVE m + 1 \in S
  <2>1. RejectRow(d, m + 1) = RejectRow(d, m) \union {Key("reject", d, m)}
    BY DEF RejectRow
  <2>2. Key("reject", d, m) \notin RejectRow(d, m)
    <3>1. \A i : Key("reject", d, i).id[2] = i
      BY DEF Key
    <3>2. ASSUME NEW i \in 0 .. m - 1, Key("reject", d, m) = Key("reject", d, i) PROVE FALSE
      <4>1. i = m
        BY <3>1, <3>2
      <4> QED
        BY <4>1
    <3> QED
      BY <3>2 DEF RejectRow
  <2>3. IsFiniteSet(RejectRow(d, m)) /\ Cardinality(RejectRow(d, m)) = m
    BY <1>2
  <2>4. /\ IsFiniteSet(RejectRow(d, m) \union {Key("reject", d, m)})
        /\ Cardinality(RejectRow(d, m) \union {Key("reject", d, m)}) = m + 1
    BY <2>2, <2>3, FS_AddElement
  <2> QED
    BY <2>1, <2>4
<1> HIDE DEF S
<1>3. Nat \subseteq S
  BY <1>1, <1>2, UpFromZero
<1> QED
  BY <1>3 DEF S

\* The number counted for the next reject is free.
LEMMA NextSeqFree ==
  ASSUME ConnInv, NEW d \in Days
  PROVE  /\ NextSeq(d) \in Nat /\ RejectKeys(d) = RejectRow(d, NextSeq(d))
         /\ Key("reject", d, NextSeq(d)) \notin DOMAIN conn
<1>1. PICK m \in Nat : RejectKeys(d) = RejectRow(d, m)
  BY DEF ConnInv, RejectRow
<1>2. NextSeq(d) = m
  <2>1. NextSeq(d) = Cardinality(RejectKeys(d))
    BY DEF NextSeq, RejectKeys
  <2> QED
    BY <1>1, <2>1, RejectRowSize
<1>3. Key("reject", d, m) \notin RejectRow(d, m)
  <2>1. \A i : Key("reject", d, i).id[2] = i
    BY DEF Key
  <2>2. ASSUME NEW i \in 0 .. m - 1, Key("reject", d, m) = Key("reject", d, i) PROVE FALSE
    <3>1. i = m
      BY <2>1, <2>2
    <3> QED
      BY <3>1
  <2> QED
    BY <2>2 DEF RejectRow
<1>4. Key("reject", d, m).type = "reject" /\ Key("reject", d, m).id[1] = d
  BY DEF Key
<1> QED
  BY <1>1, <1>2, <1>3, <1>4 DEF RejectKeys

-----------------------------------------------------------------------------
(* Steps that leave the files as they are, or shorten them.                *)

LEMMA TopInt == HistInv => Top \in Nat /\ Top <= appends /\ appends \in Nat
  BY DEF HistInv, Top

LEMMA DaysInt == \A d \in Days : d \in Int
  BY DEF Days

\* Files of which only a prefix is left.
LEMMA FilesShorter ==
  ASSUME FilesInv, HistInv, today \in Days, today' \in Days, today <= today',
         Top' \in Int, Top <= Top',
         \A d \in Days : \E n \in 0 .. Len(Lines(d)) : Lines(d)' = SubSeq(Lines(d), 1, n)
  PROVE  FilesInv' /\ \A d \in Days : Range(Lines(d)') \subseteq Range(Lines(d))
<1>1. \A d \in Days : GoodFile(Lines(d)', d, today', Top')
                     /\ Range(Lines(d)') \subseteq Range(Lines(d))
  <2> SUFFICES ASSUME NEW d \in Days
               PROVE  /\ GoodFile(Lines(d)', d, today', Top')
                      /\ Range(Lines(d)') \subseteq Range(Lines(d))
    OBVIOUS
  <2>1. PICK n \in 0 .. Len(Lines(d)) : Lines(d)' = SubSeq(Lines(d), 1, n)
    OBVIOUS
  <2>2. GoodFile(Lines(d), d, today, Top)
    BY DEF FilesInv
  <2>3. /\ GoodFile(SubSeq(Lines(d), 1, n), d, today, Top)
        /\ Range(SubSeq(Lines(d), 1, n)) \subseteq Range(Lines(d))
    BY <2>2, GoodPrefix
  <2>4. GoodFile(SubSeq(Lines(d), 1, n), d, today', Top')
    BY <2>3, TopInt, DaysInt, GoodLater
  <2> QED
    BY <2>1, <2>3, <2>4
<1>2. ASSUME NEW d \in Days, NEW e \in Days, d < e
      PROVE  AllBefore(Range(Lines(d)'), Range(Lines(e)'))
  <2>1. AllBefore(Range(Lines(d)), Range(Lines(e)))
    BY <1>2 DEF FilesInv
  <2> QED
    BY <1>1, <2>1 DEF AllBefore
<1> QED
  BY <1>1, <1>2 DEF FilesInv

\* Files that stay as they are.
LEMMA FilesSame ==
  ASSUME FilesInv, HistInv, today \in Days, today' \in Days, today <= today',
         Top' \in Int, Top <= Top', \A d \in Days : Lines(d)' = Lines(d)
  PROVE  FilesInv'
<1>1. \A d \in Days : GoodFile(Lines(d)', d, today', Top')
  <2> SUFFICES ASSUME NEW d \in Days PROVE GoodFile(Lines(d)', d, today', Top')
    OBVIOUS
  <2>1. GoodFile(Lines(d), d, today, Top)
    BY DEF FilesInv
  <2> QED
    BY <2>1, TopInt, DaysInt, GoodLater
<1>2. \A d, e \in Days : d < e => AllBefore(Range(Lines(d)'), Range(Lines(e)'))
  BY DEF FilesInv
<1> QED
  BY <1>1, <1>2 DEF FilesInv

\* Nothing acknowledged becomes sound, and no line comes.
LEMMA RejectsKept ==
  ASSUME RejectsLast, Sound' \subseteq Sound,
         \A d \in Days : Range(Lines(d)') \subseteq Range(Lines(d))
  PROVE  RejectsLast'
  BY DEF RejectsLast

-----------------------------------------------------------------------------
(* Beginning an append.                                                    *)

\* What a caller appends is a record.
LEMMA NewIsRecord ==
  ASSUME NEW k, NEW d \in Days, NEW p, NEW n \in Nat, NEW r, IsKey(k), DOMAIN p # {},
         r = NewRecord(k, d, p), p = [f \in DOMAIN p |-> n],
         k.type # "trade" => DOMAIN p = {"body"},
         k.type = "trade" => \/ DOMAIN p = {"entry"} /\ k.id[2] = d
                             \/ DOMAIN p = {"outcome", "model_vs_real"},
         k.type \in {"day_state", "reject"} => k.id[1] = d
  PROVE  /\ IsRecord(r) /\ Num(r) = n /\ r.version = 3
         /\ r.key = k /\ r.day = d /\ r.patch = p
<1>1. /\ r.key = k /\ r.day = d /\ r.version = 3 /\ r.patch = p
      /\ r = Record(r.key, r.day, r.patch, r.version)
  BY DEF NewRecord, Record
<1>2. Num(r) = n
  BY <1>1 DEF Num
<1> QED
  BY <1>1, <1>2 DEF IsRecord

\* What may be appended, and what of it depends on the tables.
LEMMA BeginRecord ==
  ASSUME DurableInv, ViewInv, pc = "idle", NEW r \in Requests \union TradeUpdates
  PROVE  /\ IsRecord(r) /\ r.version = 3 /\ Num(r) = appends + 1 /\ r.day <= today
         /\ r.key.type = "intent" \/ "outcome" \in DOMAIN r.patch => r.day = today
         /\ r.key.type = "reject" => r.key = Key("reject", r.day, NextSeq(r.day))
         /\ "entry" \in DOMAIN r.patch /\ r.key \in DOMAIN conn =>
              "outcome" \notin DOMAIN conn[r.key]
<1> DEFINE n == appends + 1
<1>1. n \in Nat /\ today \in Days /\ today \in Int /\ \A d \in Days : d \in Nat \ {0}
  BY DEF ViewInv, HistInv, DurableInv, JTypeOK, Days
<1>2. \A d \in Recent : d \in Days /\ d <= today
  BY <1>1 DEF Recent
<1>3. ConnInv
  BY DEF ViewInv, Running
<1> DEFINE entry == [f \in {"entry"} |-> n]
           body == [f \in {"body"} |-> n]
           outcome == [f \in {"outcome", "model_vs_real"} |-> n]
<1>9. /\ DOMAIN entry = {"entry"} /\ entry = [f \in DOMAIN entry |-> n]
      /\ DOMAIN body = {"body"} /\ body = [f \in DOMAIN body |-> n]
      /\ DOMAIN outcome = {"outcome", "model_vs_real"}
      /\ outcome = [f \in DOMAIN outcome |-> n]
  OBVIOUS
<1> HIDE DEF n, entry, body, outcome
<1>4. CASE r \in {NewRecord(Key("trade", 2, d), d, entry) : d \in Unmanaged}
  <2>1. PICK d \in Unmanaged : r = NewRecord(Key("trade", 2, d), d, entry)
    BY <1>4
  <2>2. /\ d \in Days /\ d <= today
        /\ Key("trade", 2, d) \in DOMAIN conn => DOMAIN conn[Key("trade", 2, d)] = {"entry"}
    BY <1>2 DEF Unmanaged
  <2>3. IsKey(Key("trade", 2, d)) /\ Key("trade", 2, d).type = "trade"
        /\ Key("trade", 2, d).id[2] = d
    BY <1>1, <2>2 DEF IsKey, Key, Types
  <2>4. /\ IsRecord(r) /\ Num(r) = n /\ r.version = 3
        /\ r.key = Key("trade", 2, d) /\ r.day = d /\ r.patch = entry
    BY <1>1, <2>1, <2>2, <2>3, <1>9, NewIsRecord
  <2> QED
    BY <1>9, <2>2, <2>3, <2>4 DEF n
<1>5. CASE r \in {NewRecord(Key("day_state", d, 0), d, body) : d \in Recent}
  <2>1. PICK d \in Recent : r = NewRecord(Key("day_state", d, 0), d, body)
    BY <1>5
  <2>2. d \in Days /\ d <= today
    BY <1>2
  <2>3. IsKey(Key("day_state", d, 0)) /\ Key("day_state", d, 0).type = "day_state"
        /\ Key("day_state", d, 0).id[1] = d
    BY <1>1, <2>2 DEF IsKey, Key, Types
  <2>4. /\ IsRecord(r) /\ Num(r) = n /\ r.version = 3
        /\ r.key = Key("day_state", d, 0) /\ r.day = d /\ r.patch = body
    BY <1>1, <2>1, <2>2, <2>3, <1>9, NewIsRecord
  <2> QED
    BY <1>9, <2>2, <2>3, <2>4 DEF n
<1>6. CASE r = NewRecord(Key("intent", 1, 0), today, body)
  <2>1. IsKey(Key("intent", 1, 0)) /\ Key("intent", 1, 0).type = "intent"
    BY DEF IsKey, Key, Types
  <2>2. /\ IsRecord(r) /\ Num(r) = n /\ r.version = 3
        /\ r.key = Key("intent", 1, 0) /\ r.day = today /\ r.patch = body
    BY <1>1, <1>6, <2>1, <1>9, NewIsRecord
  <2> QED
    BY <1>9, <1>1, <2>1, <2>2 DEF n
<1>7. CASE r = NewRecord(Key("reject", today, NextSeq(today)), today, body)
  <2>1. NextSeq(today) \in Nat
    BY <1>1, <1>3, NextSeqFree
  <2> DEFINE k == Key("reject", today, NextSeq(today))
  <2>2. IsKey(k) /\ k.type = "reject" /\ k.id[1] = today
    BY <1>1, <2>1 DEF IsKey, Key, Types
  <2> HIDE DEF k
  <2>3. /\ IsRecord(r) /\ Num(r) = n /\ r.version = 3
        /\ r.key = k /\ r.day = today /\ r.patch = body
    BY <1>1, <1>7, <2>2, <1>9, NewIsRecord DEF k
  <2> QED
    BY <1>9, <1>1, <2>2, <2>3 DEF n, k
<1>8. CASE r \in TradeUpdates
  <2>1. PICK k \in DOMAIN conn :
          /\ k.type = "trade"
          /\ r = NewRecord(k, today, outcome)
    BY <1>8 DEF TradeUpdates, n, outcome
  <2>2. IsKey(k)
    BY <1>3 DEF ConnInv
  <2>3. /\ IsRecord(r) /\ Num(r) = n /\ r.version = 3
        /\ r.key = k /\ r.day = today /\ r.patch = outcome
    BY <1>1, <2>1, <2>2, <1>9, NewIsRecord
  <2> QED
    BY <1>9, <1>1, <2>1, <2>3 DEF n
<1> QED
  BY <1>4, <1>5, <1>6, <1>7, <1>8 DEF Requests, n, entry, body

\* Beginning an append changes nothing yet.
LEMMA BeginView ==
  ASSUME DurableInv, ViewInv, AppendRecord \/ UpdateTrade
  PROVE  ViewInv'
<1>1. PICK r \in Requests \union TradeUpdates : Begin(r)
  BY DEF AppendRecord, UpdateTrade
<1>2. /\ UNCHANGED <<disk, db, conn, buf, today, opens, acked, skipped, damaged>>
      /\ pc = "idle" /\ pc' = "write" /\ appends' = appends + 1 /\ rec' = r
  BY <1>1 DEF Begin
<1>3. FilesInv /\ HistInv /\ RejectsLast /\ today \in Days /\ appends \in Nat
  BY DEF ViewInv, HistInv, DurableInv, JTypeOK
<1>4. Top' = Top /\ Top = appends /\ \A d \in Days : Lines(d)' = Lines(d)
  BY <1>2, <1>3 DEF Top, Lines
<1>5. FilesInv'
  BY <1>2, <1>3, <1>4, FilesSame, DaysInt
<1>6. HistInv'
  BY <1>2, <1>3, <1>4 DEF HistInv
<1>7. RejectsLast'
  BY <1>2, <1>3, <1>4, RejectsKept DEF Sound
<1>8. /\ Garbled \in Stored => HasCut
      /\ ConnInv /\ DbInv /\ \A a \in Sound : Holds(conn, a)
  BY <1>2 DEF ViewInv, Running
<1>9. /\ Stored' = Stored /\ Outside' = Outside /\ CutKeys' = CutKeys /\ HasCut' = HasCut
      /\ Sound' = Sound /\ \A d : RejectKeys(d)' = RejectKeys(d)
  BY <1>2 DEF Stored, Outside, CutKeys, HasCut, Sound, RejectKeys, Written
<1>10. ConnInv' /\ DbInv' /\ (\A a \in Sound : Holds(conn, a))'
  BY <1>2, <1>8, <1>9 DEF ConnInv, DbInv
<1>11. RecInv'
  <2>1. /\ IsRecord(r) /\ r.version = 3 /\ Num(r) = appends + 1 /\ r.day <= today
        /\ r.key.type = "intent" \/ "outcome" \in DOMAIN r.patch => r.day = today
        /\ r.key.type = "reject" => r.key = Key("reject", r.day, NextSeq(r.day))
        /\ "entry" \in DOMAIN r.patch /\ r.key \in DOMAIN conn =>
             "outcome" \notin DOMAIN conn[r.key]
    BY <1>2, BeginRecord
  <2>2. r \notin skipped \union acked
    <3>1. \A x \in skipped \union acked : Num(x) <= appends
      BY <1>3, <1>4 DEF HistInv
    <3> QED
      BY <1>3, <2>1, <3>1
  <2>3. NextSeq(r.day)' = NextSeq(r.day)
    BY <1>2 DEF NextSeq
  <2> QED
    BY <1>2, <2>1, <2>2, <2>3 DEF RecInv
<1> QED
  BY <1>2, <1>5, <1>6, <1>7, <1>8, <1>9, <1>10, <1>11 DEF ViewInv, Written

-----------------------------------------------------------------------------
(* Writing a line.                                                         *)

\* What may follow in a later file under the key of the record being appended:
\* the updates of a trade that is entered.
LEMMA LaterLine ==
  ASSUME RecInv, NEW x, IsRecord(x), x.key = rec.key, rec.day < x.day, x.day <= today,
         today \in Days
  PROVE  /\ "entry" \in DOMAIN rec.patch /\ "outcome" \in Fields(x)
         /\ Fields(rec) \intersect Fields(x) = {}
<1>1. IsRecord(rec) /\ rec.version = 3 /\ rec.day \in Int /\ x.day \in Int /\ today \in Int
  BY DEF RecInv, IsRecord, Days
<1>2. rec.key.type \notin {"day_state", "reject"}
  BY <1>1 DEF IsRecord
<1>3. ~(rec.key.type = "intent" \/ "outcome" \in DOMAIN rec.patch)
  BY <1>1 DEF RecInv
<1>4. rec.key.type \in Types
  BY <1>1 DEF IsRecord, IsKey
<1>5. rec.key.type = "trade"
  BY <1>2, <1>3, <1>4 DEF Types
<1>6. DOMAIN rec.patch = {"entry"} /\ rec.key.id[2] = rec.day
  BY <1>1, <1>3, <1>5 DEF IsRecord
<1>7. DOMAIN x.patch = {"outcome", "model_vs_real"}
  BY <1>1, <1>5, <1>6 DEF IsRecord
<1>8. x.version = 3
  BY <1>7, OldTradeFacts DEF IsRecord
<1> QED
  BY <1>1, <1>6, <1>7, <1>8 DEF Fields

\* The files after a line was written to that of day e.
Grown(files, more, e, line) ==
  /\ \A d \in Days \ {e} : more[d] = files[d]
  /\ Range(more[e].lines) = Range(files[e].lines) \union {line}
  /\ \A n \in 0 .. Len(files[e].lines) :
       FirstOf(more[e].lines, n) = FirstOf(files[e].lines, n)

\* A line at the end of one file changes the positions after it only.
LEMMA UpToGrown ==
  ASSUME NEW files, NEW more, NEW e \in Days, NEW line, Grown(files, more, e, line),
         NEW d \in Days, NEW n \in 0 .. Len(files[d].lines)
  PROVE  /\ UpToOf(files, d, n) \subseteq UpToOf(more, d, n)
         /\ UpToOf(more, d, n) \subseteq UpToOf(files, d, n) \union {line}
<1> USE DEF Grown
<1>1. \A f \in 1 .. d - 1 : f \in Days
  BY JournalAssumption DEF Days
<1>2. FirstOf(more[d].lines, n) = FirstOf(files[d].lines, n)
  <2>1. CASE d = e
    BY <2>1
  <2>2. CASE d # e
    BY <2>2
  <2> QED
    BY <2>1, <2>2
<1>3. \A f \in 1 .. d - 1 : /\ Range(files[f].lines) \subseteq Range(more[f].lines)
                            /\ Range(more[f].lines) \subseteq Range(files[f].lines) \union {line}
  BY <1>1
<1> DEFINE old == UNION {Range(files[f].lines) : f \in 1 .. d - 1}
           new == UNION {Range(more[f].lines) : f \in 1 .. d - 1}
<1>4. old \subseteq new /\ new \subseteq old \union {line}
  BY <1>3
<1>5. /\ UpToOf(files, d, n) = old \union FirstOf(files[d].lines, n)
      /\ UpToOf(more, d, n) = new \union FirstOf(more[d].lines, n)
  BY DEF UpToOf
<1> HIDE DEF old, new
<1> QED
  BY <1>2, <1>4, <1>5

\* A place in the files has stored lines before it.
LEMMA UpToStored ==
  ASSUME JTypeOK, NEW d \in Days, NEW n \in 0 .. Len(disk[d].lines)
  PROVE  UpToOf(disk, d, n) \subseteq Stored
<1>1. \A f \in 1 .. d - 1 : f \in Days
  BY JournalAssumption DEF Days
<1>2. FirstOf(disk[d].lines, n) \subseteq Range(disk[d].lines)
  <2>1. disk[d].lines \in Seq(Range(disk[d].lines))
    BY DEF JTypeOK, FileType
  <2> QED
    BY <2>1 DEF FirstOf, Range
<1> QED
  BY <1>1, <1>2 DEF UpToOf, Stored

\* The record being written is not yet in a file.
LEMMA NotYetStored ==
  ASSUME ViewInv, pc = "write"
  PROVE  rec \notin Stored /\ IsRecord(rec) /\ rec # Garbled
<1>1. FilesInv /\ HistInv /\ RecInv
  BY DEF ViewInv, Appending
<1>2. IsRecord(rec) /\ Num(rec) = appends /\ Top = appends - 1 /\ appends \in Nat
  BY <1>1 DEF RecInv, HistInv, Top
<1>3. rec # Garbled
  BY <1>2, RecordFacts
<1>4. ASSUME rec \in Stored PROVE FALSE
  <2>1. Num(rec) <= Top
    BY <1>1, <1>3, <1>4, StoredLines
  <2> QED
    BY <1>2, <2>1
<1> QED
  BY <1>2, <1>3, <1>4

\* The file gets its line: what holds of all files afterwards.
LEMMA LineFiles ==
  ASSUME DurableInv, ViewInv, pc = "write", pc' = "sync", UNCHANGED <<today, appends>>,
         NEW line, line = IF disk[rec.day].tail THEN Garbled ELSE rec,
         disk'[rec.day].lines = Append(disk[rec.day].lines, line),
         \A d \in Days \ {rec.day} : disk'[d] = disk[d]
  PROVE  FilesInv'
<1> DEFINE e == rec.day
<1>1. FilesInv /\ HistInv /\ RecInv /\ ConnInv /\ e \in Days /\ today \in Days
  BY DEF ViewInv, Running, Appending, DurableInv, JTypeOK
<1>2. /\ IsRecord(rec) /\ rec.version = 3 /\ Num(rec) = appends /\ e <= today
      /\ Top = appends - 1 /\ Top' = appends /\ appends \in Nat
      /\ \A d \in Days : d \in Int
  BY <1>1, DaysInt DEF RecInv, HistInv, Top
<1>3. \A d \in Days : Lines(d) = disk[d].lines /\ Lines(d)' = disk'[d].lines
  BY DEF Lines
<1>4. \A d \in Days : GoodFile(disk[d].lines, d, today, Top)
  BY <1>1, <1>3 DEF FilesInv
<1> HIDE DEF e
<1>5. line = Garbled \/ line = rec
  OBVIOUS
<1>6. Range(disk'[e].lines) = Range(disk[e].lines) \union {line}
  <2>1. disk[e].lines \in Seq(Range(disk[e].lines))
    BY <1>1, <1>4 DEF GoodFile, Replayable
  <2>2. disk'[e].lines = Append(disk[e].lines, line)
    BY DEF e
  <2> QED
    BY <2>1, <2>2, LineAppended
<1>7. GoodFile(disk'[e].lines, e, today, appends)
  <2>1. line # Garbled /\ line.key.type = "reject" /\ line.key.id[2] > 0 =>
           \/ Garbled \in Range(disk[e].lines)
           \/ \E x \in Range(disk[e].lines) : x.key = Key("reject", e, line.key.id[2] - 1)
    <3> SUFFICES ASSUME line # Garbled, line.key.type = "reject", line.key.id[2] > 0,
                        Garbled \notin Range(disk[e].lines)
                 PROVE  \E x \in Range(disk[e].lines) :
                          x.key = Key("reject", e, line.key.id[2] - 1)
      OBVIOUS
    <3>1. line = rec /\ ~disk[e].tail
      BY DEF e
    <3>2. rec.key = Key("reject", e, NextSeq(e))
      BY <1>1, <3>1 DEF RecInv, e
    <3>3. rec.key.id[2] = NextSeq(e) /\ NextSeq(e) \in Nat
          /\ RejectKeys(e) = RejectRow(e, NextSeq(e))
      BY <1>1, <3>2, NextSeqFree DEF Key
    <3>4. Key("reject", e, NextSeq(e) - 1) \in RejectKeys(e)
      BY <3>1, <3>3 DEF RejectRow
    <3> QED
      BY <1>1, <3>1, <3>3, <3>4 DEF ConnInv
  <2>2. line = Garbled \/ (IsRecord(line) /\ line.day = e /\ Num(line) = Top + 1)
    BY <1>2, <1>5 DEF e
  <2>3. GoodFile(Append(disk[e].lines, line), e, today, Top + 1)
    <3>1. today \in Int /\ Top \in Int /\ e \in Int /\ e <= today
      BY <1>1, <1>2 DEF e
    <3>2. GoodFile(disk[e].lines, e, today, Top)
      BY <1>1, <1>4
    <3> QED
      BY <2>1, <2>2, <3>1, <3>2, GoodAppend
  <2> QED
    BY <1>2, <2>3 DEF e
<1>8. \A d \in Days : GoodFile(Lines(d)', d, today', Top')
  <2> SUFFICES ASSUME NEW d \in Days PROVE GoodFile(disk'[d].lines, d, today, appends)
    BY <1>2, <1>3
  <2>1. CASE d = e
    BY <1>7, <2>1
  <2>2. CASE d # e
    <3>1. GoodFile(disk[d].lines, d, today, Top)
      BY <1>4
    <3>2. GoodFile(disk[d].lines, d, today, appends)
      BY <1>1, <1>2, <3>1, GoodLater
    <3> QED
      BY <2>2, <3>2 DEF e
  <2> QED
    BY <2>1, <2>2
<1>9. ASSUME NEW d \in Days, NEW f \in Days, d < f
      PROVE  AllBefore(Range(disk'[d].lines), Range(disk'[f].lines))
  <2>1. AllBefore(Range(disk[d].lines), Range(disk[f].lines))
    BY <1>1, <1>3, <1>9 DEF FilesInv
  <2>2. CASE d = e
    <3>1. f # e /\ disk'[f] = disk[f]
      BY <1>2, <1>9, <2>2 DEF e
    <3>2. ASSUME NEW y \in Range(disk[f].lines), y # Garbled PROVE Before(rec, y)
      <4>1. IsRecord(y) /\ y.day = f /\ f <= today
        <5>1. GoodFile(disk[f].lines, f, today, Top)
          BY <1>4
        <5>2. IsRecord(y) /\ y.day = f
          BY <3>2, <5>1, GoodLines
        <5>3. ~(f > today)
          BY <5>1 DEF GoodFile
        <5> QED
          BY <1>1, <1>2, <5>2, <5>3
      <4>2. y.key = rec.key => Fields(rec) \intersect Fields(y) = {}
        BY <1>1, <1>9, <2>2, <4>1, LaterLine DEF e
      <4> QED
        BY <4>2 DEF Before
    <3> QED
      BY <1>5, <1>6, <2>1, <2>2, <3>1, <3>2 DEF AllBefore
  <2>3. CASE f = e
    <3>1. d # e /\ disk'[d] = disk[d]
      BY <1>2, <1>9, <2>3 DEF e
    <3>2. ASSUME NEW x \in Range(disk[d].lines), x # Garbled PROVE Before(x, rec)
      <4>1. GoodFile(disk[d].lines, d, today, Top)
        BY <1>4
      <4>2. Num(x) \in Nat /\ Num(x) <= Top
        BY <3>2, <4>1, GoodLines
      <4> QED
        BY <1>2, <4>2 DEF Before
    <3> QED
      BY <1>5, <1>6, <2>1, <2>3, <3>1, <3>2 DEF AllBefore
  <2>4. CASE d # e /\ f # e
    BY <2>1, <2>4 DEF e
  <2> QED
    BY <2>2, <2>3, <2>4
<1> QED
  BY <1>3, <1>8, <1>9 DEF FilesInv

\* A line is written: its record is outside the tables until it is upserted.
LEMMA WriteLineView ==
  ASSUME DurableInv, ViewInv, WriteLine
  PROVE  ViewInv'
<1> DEFINE e == rec.day
           line == IF disk[e].tail THEN Garbled ELSE rec
<1>1. /\ pc = "write" /\ pc' = "sync"
      /\ UNCHANGED <<db, conn, rec, buf, today, appends, opens, acked>>
      /\ skipped' = IF disk[e].tail THEN skipped \union {rec} ELSE skipped
      /\ damaged' = IF disk[e].tail /\ HasCut THEN damaged \union {rec} ELSE damaged
  BY DEF WriteLine
<1>2. /\ FilesInv /\ HistInv /\ RejectsLast /\ RecInv /\ ConnInv /\ DbInv
      /\ Garbled \in Stored => HasCut
      /\ \A a \in Sound : Holds(conn, a)
      /\ JTypeOK /\ e \in Days /\ today \in Days
      /\ disk[e].tail => HasCut
  BY <1>1 DEF ViewInv, DurableInv, JTypeOK, Running, Appending
<1>3. rec \notin Stored /\ IsRecord(rec) /\ rec # Garbled
  BY <1>1, NotYetStored
<1>4. Num(rec) = appends /\ appends \in Nat /\ Top = appends - 1 /\ Top' = appends
  BY <1>1, <1>2 DEF RecInv, HistInv, Top
<1>5. /\ disk'[e].lines = Append(disk[e].lines, line) /\ ~disk'[e].tail
      /\ \A d \in Days \ {e} : disk'[d] = disk[d]
      /\ DOMAIN disk' = Days
  BY <1>2 DEF WriteLine, JTypeOK, FileType
<1>6. /\ Range(disk'[e].lines) = Range(disk[e].lines) \union {line}
      /\ Len(disk'[e].lines) = Len(disk[e].lines) + 1 /\ Len(disk[e].lines) \in Nat
      /\ disk'[e].lines[Len(disk'[e].lines)] = line
      /\ \A n \in 0 .. Len(disk[e].lines) :
           FirstOf(disk'[e].lines, n) = FirstOf(disk[e].lines, n)
  <2>1. disk[e].lines \in Seq(Range(disk[e].lines))
    BY <1>2 DEF JTypeOK, FileType
  <2> HIDE DEF line
  <2> QED
    BY <1>5, <2>1, LineAppended
<1>7. line = Garbled \/ line = rec
  OBVIOUS
<1>8. \A d \in Days : Lines(d) = disk[d].lines /\ Lines(d)' = disk'[d].lines
  BY <1>1 DEF Lines
<1>9. FilesInv'
  BY <1>1, <1>5, LineFiles
<1>10. (disk[e].tail <=> line = Garbled) /\ (~disk[e].tail <=> line = rec)
  BY <1>3
<1> HIDE DEF e, line
<1>11. /\ skipped \subseteq skipped' /\ skipped' \subseteq skipped \union {rec}
       /\ damaged \subseteq damaged' /\ damaged' \subseteq damaged \union {rec}
       /\ line = Garbled => rec \in skipped' \intersect damaged'
       /\ line = rec => skipped' = skipped /\ damaged' = damaged
  BY <1>1, <1>2, <1>3, <1>10
<1>12. /\ HasCut => HasCut'
       /\ CutKeys \subseteq CutKeys' /\ CutKeys' \subseteq CutKeys \union {rec.key}
       /\ line = rec => CutKeys' = CutKeys
       /\ Sound' \subseteq Sound
  BY <1>1, <1>11 DEF HasCut, CutKeys, Sound
<1>13. Stored' = Stored \union {line}
  <2>1. \A x : x \in Stored' <=> x \in Stored \/ x = line
    BY <1>2, <1>5, <1>6, FilesAround
  <2> QED
    BY <2>1
<1>14. Outside = skipped /\ Outside' = skipped \union {rec}
  BY <1>1, <1>11 DEF Outside, Written
<1>15. HistInv'
  <2>1. \A r \in skipped' \union acked : IsRecord(r) /\ Num(r) <= appends
    <3> SUFFICES ASSUME NEW r \in skipped \union acked
                 PROVE  IsRecord(r) /\ Num(r) <= appends
      BY <1>3, <1>4, <1>11
    <3>1. IsRecord(r) /\ Num(r) <= appends - 1
      BY <1>2, <1>4 DEF HistInv
    <3>2. Num(r) \in Nat
      BY <3>1 DEF IsRecord
    <3> QED
      BY <1>4, <3>1, <3>2
  <2>2. rec \notin acked
    BY <1>2 DEF RecInv
  <2>3. skipped' \intersect acked \subseteq damaged'
    BY <1>2, <1>11, <2>2 DEF HistInv
  <2> QED
    BY <1>1, <1>4, <2>1, <2>3 DEF HistInv
<1>16. RejectsLast'
  <2> SUFFICES ASSUME NEW a \in Sound, a.key.type = "reject", NEW d \in Days,
                      NEW x \in Range(disk'[d].lines) \ {Garbled}, x.key = a.key
               PROVE  Num(x) <= Num(a)
    BY <1>8, <1>12 DEF RejectsLast
  <2>1. CASE x \in Range(disk[d].lines)
    BY <1>2, <1>8, <2>1 DEF RejectsLast
  <2>2. CASE x = rec
    <3>1. rec.key = Key("reject", e, NextSeq(e))
      BY <1>2, <2>2 DEF RecInv, e
    <3>2. rec.key \notin DOMAIN conn
      BY <1>2, <3>1, NextSeqFree
    <3>3. a.key \in DOMAIN conn
      BY <1>2 DEF Holds
    <3> QED
      BY <2>2, <3>2, <3>3
  <2> QED
    BY <1>5, <1>6, <1>7, <2>1, <2>2
<1>17. Garbled \in Stored' => HasCut'
  BY <1>2, <1>10, <1>12, <1>13
<1>18. \A r : r # Garbled => (r \in Stored \ Outside <=> r \in Stored' \ Outside')
  BY <1>3, <1>7, <1>13, <1>14
<1>19. ConnInv'
  <2>1. \A d : RejectKeys(d)' = RejectKeys(d)
    BY <1>1 DEF RejectKeys
  <2>2. ASSUME NEW k, k # Garbled.key, k \notin CutKeys'
        PROVE  Shows(conn, k, Stored' \ Outside')
    <3>1. Shows(conn, k, Stored \ Outside)
      BY <1>2, <1>12, <2>2 DEF ConnInv
    <3>2. \A r : r.key = k => (r \in Stored \ Outside <=> r \in Stored' \ Outside')
      BY <1>18, <2>2
    <3> QED
      BY <3>1, <3>2, ShowsLocal
  <2>3. ASSUME NEW d \in Days, NEW k \in RejectKeys(d)
        PROVE  \/ disk'[d].tail \/ Garbled \in Range(disk'[d].lines)
               \/ \E x \in Range(disk'[d].lines) : x.key = k
    <3>1. \/ disk[d].tail \/ Garbled \in Range(disk[d].lines)
          \/ \E x \in Range(disk[d].lines) : x.key = k
      BY <1>2 DEF ConnInv
    <3>2. CASE d = e
      BY <1>6, <1>10, <3>1, <3>2
    <3>3. CASE d # e
      BY <1>5, <3>1, <3>3
    <3> QED
      BY <3>2, <3>3
  <2>4. /\ conn = [k \in DOMAIN conn |-> conn[k]]
        /\ \A k \in DOMAIN conn : IsKey(k)
        /\ \A d \in Days : \E m \in Nat :
             RejectKeys(d) = {Key("reject", d, i) : i \in 0 .. m - 1}
    BY <1>2 DEF ConnInv
  <2> QED
    BY <1>1, <2>1, <2>2, <2>3, <2>4 DEF ConnInv
<1>20. DbInv'
  <2> SUFFICES ASSUME NEW k \in DOMAIN db \ CutKeys'
               PROVE  /\ k # Garbled.key
                      /\ \E d \in Days : \E n \in 0 .. Len(disk'[d].lines) :
                           Shows(db, k, UpToOf(disk', d, n) \ Outside')
    BY <1>1 DEF DbInv
  <2>1. k # Garbled.key
    BY <1>2, <1>12 DEF DbInv
  <2>10. PICK d \in Days : \E n \in 0 .. Len(disk[d].lines) :
           Shows(db, k, UpToOf(disk, d, n) \ Outside)
    BY <1>2, <1>12 DEF DbInv
  <2>2. PICK n \in 0 .. Len(disk[d].lines) : Shows(db, k, UpToOf(disk, d, n) \ Outside)
    BY <2>10
  <2>3. PICK files : files = disk
    OBVIOUS
  <2>4. PICK more : more = disk'
    OBVIOUS
  <2>5. /\ UpToOf(files, d, n) \subseteq UpToOf(more, d, n)
        /\ UpToOf(more, d, n) \subseteq UpToOf(files, d, n) \union {line}
    <3>1. Grown(files, more, e, line)
      BY <1>5, <1>6, <2>3, <2>4 DEF Grown
    <3>2. e \in Days /\ n \in 0 .. Len(files[d].lines)
      BY <1>2, <2>3
    <3> QED
      BY <3>1, <3>2, UpToGrown
  <2>6. UpToOf(files, d, n) \subseteq Stored
    BY <1>2, <2>3, UpToStored
  <2>7. \A r : r.key = k => (r \in UpToOf(disk, d, n) \ Outside
                               <=> r \in UpToOf(disk', d, n) \ Outside')
    BY <1>3, <1>7, <1>14, <2>1, <2>3, <2>4, <2>5, <2>6
  <2>8. Shows(db, k, UpToOf(disk', d, n) \ Outside')
    BY <2>2, <2>7, ShowsLocal
  <2>9. n \in 0 .. Len(disk'[d].lines)
    <3>1. CASE d = e
      BY <1>6, <3>1
    <3>2. CASE d # e
      BY <1>5, <3>2
    <3> QED
      BY <3>1, <3>2
  <2> QED
    BY <2>1, <2>8, <2>9
<1>21. RecInv'
  <2>1. rec \in skipped' => rec \in damaged'
    BY <1>2, <1>7, <1>11 DEF RecInv
  <2>2. NextSeq(rec.day)' = NextSeq(rec.day)
    BY <1>1 DEF NextSeq
  <2> QED
    BY <1>1, <1>2, <2>1, <2>2 DEF RecInv
<1>22. WrittenInv'
  <2>1. CASE line = Garbled
    BY <1>1, <1>2, <1>6, <1>11, <2>1 DEF WrittenInv, e
  <2>2. CASE line = rec
    <3>1. ASSUME NEW d \in Days, d > e, NEW x \in Range(disk'[d].lines), x.key = rec.key,
                 x \notin skipped, rec.key \notin CutKeys
          PROVE  FALSE
      <4>1. d # e /\ x \in Range(disk[d].lines) /\ d \in Int /\ e \in Int
        BY <1>2, <1>5, <3>1, DaysInt
      <4>2. GoodFile(disk[d].lines, d, today, Top)
        BY <1>2, <1>8 DEF FilesInv
      <4>3. x # Garbled
        BY <1>3, <3>1, RecordFacts
      <4>4. IsRecord(x) /\ x.day = d /\ d <= today
        <5>1. IsRecord(x) /\ x.day = d
          BY <4>1, <4>2, <4>3, GoodLines
        <5>2. ~(d > today) /\ today \in Int
          BY <1>2, <4>1, <4>2, DaysInt DEF GoodFile
        <5> QED
          BY <4>1, <5>1, <5>2
      <4>5. "entry" \in DOMAIN rec.patch /\ "outcome" \in Fields(x)
        BY <1>2, <3>1, <4>1, <4>4, LaterLine DEF e
      <4>6. x \in Stored \ Outside
        BY <1>14, <3>1, <4>1 DEF Stored
      <4>7. Shows(conn, rec.key, Stored \ Outside)
        BY <1>2, <1>3, <3>1, RecordFacts DEF ConnInv
      <4>8. rec.key \in DOMAIN conn /\ "outcome" \in DOMAIN conn[rec.key]
        BY <3>1, <4>5, <4>6, <4>7 DEF Shows
      <4> QED
        BY <1>2, <4>5, <4>8 DEF RecInv
    <3>2. \A d \in Days : d > e => \A x \in Range(disk'[d].lines) :
             x.key = rec.key => x \in skipped' \/ rec.key \in CutKeys'
      BY <1>11, <1>12, <2>2, <3>1
    <3>3. Len(disk'[e].lines) > 0 /\ rec \in Range(disk'[e].lines)
      BY <1>6, <2>2
    <3>4. ASSUME NEW i \in 1 .. Len(disk'[e].lines) - 1 PROVE disk'[e].lines[i] # rec
      <4>1. disk[e].lines \in Seq(Range(disk[e].lines)) /\ i \in 1 .. Len(disk[e].lines)
        BY <1>2, <1>6 DEF JTypeOK, FileType
      <4>2. disk[e].lines[i] \in Stored
        BY <1>2, <4>1 DEF Stored, Range
      <4>3. disk'[e].lines[i] = disk[e].lines[i]
        BY <1>5, <4>1
      <4> QED
        BY <1>3, <4>2, <4>3
    <3> QED
      BY <1>1, <1>6, <2>2, <3>2, <3>3, <3>4 DEF WrittenInv, e
  <2> QED
    BY <1>7, <2>1, <2>2
<1>23. (\A a \in Sound : Holds(conn, a))'
  BY <1>1, <1>2, <1>12
<1> QED
  BY <1>1, <1>9, <1>15, <1>16, <1>17, <1>19, <1>20, <1>21, <1>22, <1>23 DEF ViewInv, Written

-----------------------------------------------------------------------------
(* Steps of a running process that leave the lines and the tables.         *)

\* The tables say the same of the same lines.
LEMMA StillTables ==
  ASSUME DurableInv, ViewInv, pc \in Running, UNCHANGED <<db, conn>>, DOMAIN disk' = Days,
         \A d \in Days : disk'[d].lines = disk[d].lines /\ (disk[d].tail => disk'[d].tail),
         \A r \in Stored : r \in Outside <=> r \in Outside',
         CutKeys \subseteq CutKeys', HasCut => HasCut', Sound' \subseteq Sound
  PROVE  /\ Stored' = Stored
         /\ Garbled \in Stored' => HasCut'
         /\ ConnInv' /\ DbInv' /\ (\A a \in Sound : Holds(conn, a))'
<1>1. /\ Garbled \in Stored => HasCut
      /\ ConnInv /\ DbInv /\ \A a \in Sound : Holds(conn, a)
      /\ JTypeOK
  BY DEF ViewInv, DurableInv
<1>2. Stored' = Stored
  BY DEF Stored
<1>3. ConnInv'
  <2>1. \A d : RejectKeys(d)' = RejectKeys(d)
    BY DEF RejectKeys
  <2>2. ASSUME NEW k, k # Garbled.key, k \notin CutKeys'
        PROVE  Shows(conn, k, Stored' \ Outside')
    <3>1. Shows(conn, k, Stored \ Outside)
      BY <1>1, <2>2 DEF ConnInv
    <3>2. Stored \ Outside = Stored' \ Outside'
      BY <1>2
    <3> QED
      BY <3>1, <3>2
  <2>3. ASSUME NEW d \in Days, NEW k \in RejectKeys(d)
        PROVE  \/ disk'[d].tail \/ Garbled \in Range(disk'[d].lines)
               \/ \E x \in Range(disk'[d].lines) : x.key = k
    BY <1>1 DEF ConnInv
  <2>4. /\ conn = [k \in DOMAIN conn |-> conn[k]]
        /\ \A k \in DOMAIN conn : IsKey(k)
        /\ \A d \in Days : \E m \in Nat :
             RejectKeys(d) = {Key("reject", d, i) : i \in 0 .. m - 1}
    BY <1>1 DEF ConnInv
  <2> QED
    BY <2>1, <2>2, <2>3, <2>4 DEF ConnInv
<1>4. DbInv'
  <2> SUFFICES ASSUME NEW k \in DOMAIN db \ CutKeys'
               PROVE  /\ k # Garbled.key
                      /\ \E d \in Days : \E n \in 0 .. Len(disk'[d].lines) :
                           Shows(db, k, UpToOf(disk', d, n) \ Outside')
    BY DEF DbInv
  <2>1. k # Garbled.key
    BY <1>1 DEF DbInv
  <2>2. PICK d \in Days : \E n \in 0 .. Len(disk[d].lines) :
          Shows(db, k, UpToOf(disk, d, n) \ Outside)
    BY <1>1 DEF DbInv
  <2>3. PICK n \in 0 .. Len(disk[d].lines) : Shows(db, k, UpToOf(disk, d, n) \ Outside)
    BY <2>2
  <2>4. UpToOf(disk', d, n) = UpToOf(disk, d, n)
    <3>1. \A f \in 1 .. d - 1 : f \in Days
      BY JournalAssumption DEF Days
    <3> DEFINE old == UNION {Range(disk[f].lines) : f \in 1 .. d - 1}
               new == UNION {Range(disk'[f].lines) : f \in 1 .. d - 1}
    <3>2. old = new
      BY <3>1
    <3>3. /\ UpToOf(disk, d, n) = old \union FirstOf(disk[d].lines, n)
          /\ UpToOf(disk', d, n) = new \union FirstOf(disk'[d].lines, n)
      BY DEF UpToOf
    <3> HIDE DEF old, new
    <3> QED
      BY <3>2, <3>3
  <2>5. UpToOf(disk, d, n) \ Outside = UpToOf(disk', d, n) \ Outside'
    <3>1. UpToOf(disk, d, n) \subseteq Stored
      BY <1>1, UpToStored
    <3> QED
      BY <2>4, <3>1
  <2> QED
    BY <2>1, <2>3, <2>5
<1> QED
  BY <1>1, <1>2, <1>3, <1>4

\* The files, too, stay as they are.
LEMMA StillFiles ==
  ASSUME DurableInv, ViewInv, UNCHANGED appends, pc # "rewrite", pc' # "rewrite",
         today' \in Days, today <= today',
         pc' = "write" => pc = "write", Sound' \subseteq Sound,
         \A d \in Days : disk'[d].lines = disk[d].lines
  PROVE  FilesInv' /\ RejectsLast' /\ Top <= Top' /\ Top' \in Int
         /\ (pc' # "write" => Top' = appends)
<1>1. FilesInv /\ HistInv /\ RejectsLast /\ today \in Days
  BY DEF ViewInv, DurableInv, JTypeOK
<1>2. Top <= Top' /\ Top' \in Int /\ (pc' # "write" => Top' = appends)
  BY <1>1 DEF HistInv, Top
<1>3. \A d \in Days : Lines(d)' = Lines(d)
  BY DEF Lines
<1> QED
  BY <1>1, <1>2, <1>3, FilesSame, RejectsKept

\* What was numbered stays below the last number.
LEMMA NumsGrow ==
  ASSUME HistInv, Top' \in Int, Top <= Top', NEW r \in skipped \union acked
  PROVE  IsRecord(r) /\ Num(r) <= Top'
<1>1. IsRecord(r) /\ Num(r) <= Top /\ Num(r) \in Nat /\ Top \in Nat
  BY TopInt DEF HistInv, IsRecord
<1> QED
  BY <1>1

\* A short write: the tables of this process leave its key.
LEMMA WriteShortView ==
  ASSUME DurableInv, ViewInv, WriteShort
  PROVE  ViewInv'
<1>1. /\ pc = "write" /\ pc' = "sync"
      /\ UNCHANGED <<db, conn, rec, buf, today, appends, opens, acked>>
      /\ skipped' = skipped \union {rec} /\ damaged' = damaged \union {rec}
      /\ disk' = [disk EXCEPT ![rec.day].tail = TRUE]
  BY DEF WriteShort
<1>2. JTypeOK /\ rec.day \in Days /\ today \in Days /\ today <= today
      /\ HistInv /\ RecInv
  BY <1>1, DaysInt DEF DurableInv, JTypeOK, Appending, ViewInv
<1>3. /\ DOMAIN disk' = Days /\ disk'[rec.day].tail
      /\ \A d \in Days : disk'[d].lines = disk[d].lines /\ (disk[d].tail => disk'[d].tail)
  <2> SUFFICES ASSUME NEW d \in Days
               PROVE  /\ DOMAIN disk' = Days /\ disk'[rec.day].tail
                      /\ disk'[d].lines = disk[d].lines /\ (disk[d].tail => disk'[d].tail)
    BY <1>2
  <2>1. FileType(disk[d]) /\ FileType(disk[rec.day]) /\ DOMAIN disk = Days
    BY <1>2 DEF JTypeOK
  <2> QED
    BY <1>1, <1>2, <2>1 DEF FileType
<1>4. rec \notin Stored /\ IsRecord(rec)
  BY <1>1, NotYetStored
<1>5. /\ rec \in skipped' \intersect damaged' /\ rec.key \in CutKeys'
      /\ HasCut' /\ CutKeys \subseteq CutKeys' /\ Sound' \subseteq Sound
  BY <1>1 DEF HasCut, CutKeys, Sound
<1>6. \A r \in Stored : r \in Outside <=> r \in Outside'
  BY <1>1, <1>4 DEF Outside, Written
<1>7. /\ Garbled \in Stored' => HasCut'
      /\ ConnInv' /\ DbInv' /\ (\A a \in Sound : Holds(conn, a))'
  BY <1>1, <1>3, <1>5, <1>6, StillTables DEF Running
<1>8. FilesInv' /\ RejectsLast' /\ Top <= Top' /\ Top' \in Int /\ Top' = appends
  BY <1>1, <1>2, <1>3, <1>5, StillFiles
<1>9. HistInv'
  <2>1. rec \notin acked /\ Num(rec) = appends
    BY <1>2 DEF RecInv
  <2>2. \A r \in skipped \union acked : IsRecord(r) /\ Num(r) <= Top'
    BY <1>2, <1>8, NumsGrow
  <2>3. \A r \in skipped' \union acked' : IsRecord(r) /\ Num(r) <= Top'
    BY <1>1, <1>4, <1>8, <2>1, <2>2 DEF IsRecord
  <2>4. skipped' \intersect acked' \subseteq damaged'
    BY <1>1, <1>2, <2>1 DEF HistInv
  <2> QED
    BY <1>1, <1>2, <2>3, <2>4 DEF HistInv
<1>10. RecInv'
  <2>1. NextSeq(rec.day)' = NextSeq(rec.day)
    BY <1>1 DEF NextSeq
  <2> QED
    BY <1>1, <1>2, <1>5, <2>1 DEF RecInv
<1>11. WrittenInv'
  BY <1>1, <1>3, <1>5 DEF WrittenInv
<1> QED
  BY <1>1, <1>7, <1>8, <1>9, <1>10, <1>11 DEF ViewInv

\* An fsync is invisible.
LEMMA FsyncView ==
  ASSUME DurableInv, ViewInv, Fsync
  PROVE  ViewInv'
<1>1. /\ pc = "sync" /\ pc' = "upsert"
      /\ UNCHANGED <<db, conn, rec, buf, today, appends, opens, acked, skipped, damaged>>
  BY DEF Fsync
<1>2. JTypeOK /\ rec.day \in Days /\ today \in Days /\ today <= today
      /\ HistInv /\ RecInv /\ WrittenInv
  BY <1>1, DaysInt DEF DurableInv, JTypeOK, Appending, ViewInv, Written
<1>3. /\ DOMAIN disk' = Days
      /\ \A d \in Days : disk'[d].lines = disk[d].lines /\ disk[d].tail = disk'[d].tail
  <2> SUFFICES ASSUME NEW d \in Days
               PROVE  /\ DOMAIN disk' = Days
                      /\ disk'[d].lines = disk[d].lines /\ disk[d].tail = disk'[d].tail
    BY <1>2
  <2>1. FileType(disk[d]) /\ DOMAIN disk = Days
    BY <1>2 DEF JTypeOK
  <2> QED
    BY <1>1, <1>2, <2>1 DEF FileType, Fsync
<1>5. HasCut' = HasCut /\ CutKeys' = CutKeys /\ Sound' = Sound /\ Outside' = Outside
  BY <1>1 DEF HasCut, CutKeys, Sound, Outside, Written
<1>7. /\ Garbled \in Stored' => HasCut'
      /\ ConnInv' /\ DbInv' /\ (\A a \in Sound : Holds(conn, a))'
  BY <1>1, <1>3, <1>5, StillTables DEF Running
<1>8. FilesInv' /\ RejectsLast' /\ Top <= Top' /\ Top' \in Int /\ Top' = appends
  BY <1>1, <1>2, <1>3, <1>5, StillFiles
<1>9. HistInv'
  BY <1>1, <1>2, <1>8, NumsGrow DEF HistInv
<1>10. RecInv'
  <2>1. NextSeq(rec.day)' = NextSeq(rec.day)
    BY <1>1 DEF NextSeq
  <2> QED
    BY <1>1, <1>2, <2>1 DEF RecInv
<1>11. WrittenInv'
  BY <1>1, <1>2, <1>3, <1>5 DEF WrittenInv
<1> QED
  BY <1>1, <1>7, <1>8, <1>9, <1>10, <1>11 DEF ViewInv

\* An exception before the tables are touched leaves the record outside of them.
LEMMA RaisedView ==
  ASSUME DurableInv, ViewInv, WriteRaises \/ FsyncOrUpsertRaises
  PROVE  ViewInv'
<1>1. /\ pc \in Appending /\ pc' = "idle"
      /\ UNCHANGED <<disk, db, conn, buf, today, appends, opens, acked, damaged>>
      /\ skipped' = IF pc = "write" THEN skipped ELSE skipped \union {rec}
  BY DEF WriteRaises, FsyncOrUpsertRaises, Abandon, Appending
<1>2. JTypeOK /\ today \in Days /\ today <= today
      /\ HistInv /\ RecInv /\ DOMAIN disk = Days
  BY <1>1, DaysInt DEF DurableInv, JTypeOK, ViewInv
<1>5. /\ HasCut => HasCut'
      /\ CutKeys \subseteq CutKeys' /\ Sound' = Sound
  BY <1>1 DEF HasCut, CutKeys, Sound
<1>6. Outside' = Outside
  BY <1>1 DEF Outside, Written, Appending
<1>7. /\ Garbled \in Stored' => HasCut'
      /\ ConnInv' /\ DbInv' /\ (\A a \in Sound : Holds(conn, a))'
  <2>1. pc \in Running
    BY <1>1 DEF Running, Appending
  <2>2. /\ UNCHANGED <<db, conn>> /\ DOMAIN disk' = Days
        /\ \A d \in Days : disk'[d].lines = disk[d].lines /\ (disk[d].tail => disk'[d].tail)
        /\ \A r \in Stored : r \in Outside <=> r \in Outside'
    BY <1>1, <1>2, <1>6
  <2>3. Sound' \subseteq Sound
    BY <1>5
  <2> QED
    BY <1>5, <2>1, <2>2, <2>3, StillTables
<1>8. FilesInv' /\ RejectsLast' /\ Top <= Top' /\ Top' \in Int /\ Top' = appends
  BY <1>1, <1>2, <1>5, StillFiles DEF Appending
<1>9. HistInv'
  <2>1. rec \notin acked /\ Num(rec) = appends /\ IsRecord(rec)
    BY <1>2 DEF RecInv
  <2>2. \A r \in skipped \union acked : IsRecord(r) /\ Num(r) <= Top'
    BY <1>2, <1>8, NumsGrow
  <2>3. \A r \in skipped' \union acked' : IsRecord(r) /\ Num(r) <= Top'
    BY <1>1, <1>8, <2>1, <2>2 DEF IsRecord
  <2>4. skipped' \intersect acked' \subseteq damaged'
    BY <1>1, <1>2, <2>1 DEF HistInv
  <2> QED
    BY <1>1, <1>2, <2>3, <2>4 DEF HistInv
<1> QED
  BY <1>1, <1>7, <1>8, <1>9 DEF ViewInv, Appending, Written

\* A new day.
LEMMA NewDayView ==
  ASSUME DurableInv, ViewInv, NewDay
  PROVE  ViewInv'
<1>1. /\ pc = "idle" /\ pc' = "idle" /\ today' = today + 1 /\ today < MaxDay
      /\ UNCHANGED <<disk, db, conn, buf, appends, opens, acked, skipped, damaged>>
  BY DEF NewDay
<1>2. JTypeOK /\ today \in Days /\ HistInv /\ DOMAIN disk = Days
  BY DEF DurableInv, JTypeOK, ViewInv
<1>3. today' \in Days /\ today <= today'
  BY <1>1, <1>2, JournalAssumption DEF Days
<1>5. HasCut' = HasCut /\ CutKeys' = CutKeys /\ Sound' = Sound /\ Outside' = Outside
  BY <1>1 DEF HasCut, CutKeys, Sound, Outside, Written
<1>7. /\ Garbled \in Stored' => HasCut'
      /\ ConnInv' /\ DbInv' /\ (\A a \in Sound : Holds(conn, a))'
  BY <1>1, <1>2, <1>5, StillTables DEF Running
<1>8. FilesInv' /\ RejectsLast' /\ Top <= Top' /\ Top' \in Int /\ Top' = appends
  BY <1>1, <1>2, <1>3, <1>5, StillFiles
<1>9. HistInv'
  BY <1>1, <1>2, <1>8, NumsGrow DEF HistInv
<1> QED
  BY <1>1, <1>7, <1>8, <1>9 DEF ViewInv, Appending, Written

-----------------------------------------------------------------------------
(* Steps after which no process runs, or one that is opening the journal.  *)

\* Nothing has to be shown of the tables while no process reads them.
LEMMA NotRunning ==
  ASSUME DurableInv, ViewInv, pc' \in {"down", "repair", "rewrite"},
         UNCHANGED <<today, appends, acked>>,
         skipped' \subseteq skipped, damaged \subseteq damaged',
         \A d \in Days : \E n \in 0 .. Len(Lines(d)) : Lines(d)' = SubSeq(Lines(d), 1, n)
  PROVE  ViewInv'
<1>1. FilesInv /\ HistInv /\ RejectsLast /\ today \in Days /\ today' \in Days /\ today <= today'
  BY DaysInt DEF ViewInv, DurableInv, JTypeOK
<1>2. Top <= Top' /\ Top' \in Int
  BY <1>1 DEF HistInv, Top
<1>3. FilesInv' /\ \A d \in Days : Range(Lines(d)') \subseteq Range(Lines(d))
  BY <1>1, <1>2, FilesShorter
<1>4. RejectsLast'
  <2>1. Sound' \subseteq Sound
    BY DEF Sound
  <2> QED
    BY <1>1, <1>3, <2>1, RejectsKept
<1>5. HistInv'
  <2>1. \A r \in skipped \union acked : IsRecord(r) /\ Num(r) <= Top'
    BY <1>1, <1>2, NumsGrow
  <2> QED
    BY <1>1, <2>1 DEF HistInv
<1> QED
  BY <1>3, <1>4, <1>5 DEF ViewInv, Running, Appending, Written

\* All of a file is one of its prefixes.
LEMMA WholeLines ==
  ASSUME DurableInv, NEW d \in Days
  PROVE  /\ Lines(d) \in Seq(Range(Lines(d)))
         /\ \E n \in 0 .. Len(Lines(d)) : Lines(d) = SubSeq(Lines(d), 1, n)
<1>1. Lines(d) \in Seq(Range(Lines(d)))
  BY DEF Lines, DurableInv, JTypeOK, FileType
<1>2. Len(Lines(d)) \in 0 .. Len(Lines(d)) /\ Lines(d) = SubSeq(Lines(d), 1, Len(Lines(d)))
  BY <1>1
<1> QED
  BY <1>1, <1>2

\* Opening the journal and repairing a file, up to the rebuild.
LEMMA OpeningView ==
  ASSUME DurableInv, ViewInv,
         Open \/ RebuildFails \/ (\E d \in Days : TruncateTail(d)) \/ RewriteFile
  PROVE  ViewInv'
<1>1. /\ pc' \in {"down", "repair", "rewrite"}
      /\ UNCHANGED <<today, appends, acked, skipped, damaged>>
  BY DEF Open, RebuildFails, TruncateTail, RewriteFile
<1>2. JTypeOK /\ DOMAIN disk = Days /\ \A d \in Days : DOMAIN disk[d] =
                  {"lines", "tail", "synced", "redone"}
  BY DEF DurableInv, JTypeOK, FileType
<1>3. \A d \in Days : Lines(d)' = Lines(d)
  <2>1. CASE Open \/ RebuildFails
    BY <2>1 DEF Open, RebuildFails, Lines
  <2>2. CASE \E d \in Days : TruncateTail(d)
    <3>1. PICK e \in Days : TruncateTail(e)
      BY <2>2
    <3> QED
      BY <1>2, <3>1 DEF TruncateTail, Lines
  <2>3. CASE RewriteFile
    <3>1. buf.day \in Days /\ pc = "rewrite" /\ pc' = "repair"
      BY <1>2, <2>3 DEF RewriteFile, JTypeOK
    <3>2. /\ disk'[buf.day].lines = buf.lines
          /\ \A d \in Days \ {buf.day} : disk'[d] = disk[d]
      BY <1>2, <2>3, <3>1 DEF RewriteFile, Empty
    <3> QED
      BY <3>1, <3>2 DEF Lines
  <2> QED
    BY <2>1, <2>2, <2>3
<1>4. \A d \in Days : \E n \in 0 .. Len(Lines(d)) : Lines(d)' = SubSeq(Lines(d), 1, n)
  BY <1>3, WholeLines
<1> QED
  BY <1>1, <1>4, NotRunning

\* A crash and a power loss leave prefixes of the files.
LEMMA StopView ==
  ASSUME DurableInv, ViewInv, Crash \/ PowerLoss
  PROVE  ViewInv'
<1>1. /\ pc' = "down" /\ skipped' = {} /\ UNCHANGED <<today, appends, acked>>
      /\ damaged \subseteq damaged'
  <2>1. Lost
    BY DEF Crash, PowerLoss
  <2>2. damaged \subseteq damaged'
    BY DEF Crash, PowerLoss
  <2> QED
    BY <2>1, <2>2 DEF Lost
<1>2. JTypeOK /\ DOMAIN disk = Days
  BY DEF DurableInv, JTypeOK
<1>3. ASSUME NEW d \in Days
      PROVE  \E n \in 0 .. Len(disk[d].lines) : disk'[d].lines = SubSeq(disk[d].lines, 1, n)
  <2>1. FileType(disk[d]) /\ Len(disk[d].lines) \in Nat
    BY <1>2 DEF JTypeOK, FileType
  <2>2. CASE Crash
    <3>1. disk'[d].lines = disk[d].lines
      <4>1. CASE disk' = disk
        BY <4>1
      <4>2. CASE pc = "write" /\ disk' = [disk EXCEPT ![rec.day].tail = TRUE]
        BY <1>2, <2>1, <4>2 DEF FileType
      <4> QED
        BY <2>2, <4>1, <4>2 DEF Crash
    <3>2. disk[d].lines = SubSeq(disk[d].lines, 1, Len(disk[d].lines))
      BY <2>1 DEF FileType
    <3> QED
      BY <2>1, <3>1, <3>2
  <2>3. CASE PowerLoss
    <3>1. PICK keep \in [Days -> 0 .. MaxAppends + 1], part \in [Days -> BOOLEAN] :
            /\ \A f \in Days : keep[f] \in disk[f].synced .. Len(disk[f].lines)
            /\ disk' = [f \in Days |->
                          [Empty EXCEPT !.lines = SubSeq(disk[f].lines, 1, keep[f]),
                                        !.tail = part[f], !.synced = keep[f]]]
      BY <2>3, Zenon DEF PowerLoss
    <3>2. keep[d] \in 0 .. Len(disk[d].lines)
      <4>1. disk[d].synced \in Nat /\ keep[d] \in disk[d].synced .. Len(disk[d].lines)
        BY <2>1, <3>1 DEF FileType
      <4> QED
        BY <2>1, <4>1
    <3>3. disk'[d].lines = SubSeq(disk[d].lines, 1, keep[d])
      BY <3>1 DEF Empty
    <3> QED
      BY <3>2, <3>3
  <2> QED
    BY <2>2, <2>3
<1>4. ASSUME NEW d \in Days
      PROVE  \E n \in 0 .. Len(Lines(d)) : Lines(d)' = SubSeq(Lines(d), 1, n)
  <2>1. PICK n \in 0 .. Len(disk[d].lines) : disk'[d].lines = SubSeq(disk[d].lines, 1, n)
    BY <1>3
  <2>2. Lines(d)' = disk'[d].lines
    BY <1>1 DEF Lines
  <2>3. CASE pc = "rewrite" /\ buf.day = d
    <3>1. disk[d].lines = <<>> /\ Len(disk[d].lines) = 0
      BY <1>2, <2>3 DEF JTypeOK, Empty
    <3>2. disk'[d].lines = <<>>
      BY <2>1, <3>1
    <3>3. SubSeq(Lines(d), 1, 0) = <<>> /\ Len(Lines(d)) \in Nat
      BY WholeLines
    <3> QED
      BY <2>2, <3>2, <3>3
  <2>4. CASE ~(pc = "rewrite" /\ buf.day = d)
    BY <2>1, <2>2, <2>4 DEF Lines
  <2> QED
    BY <2>3, <2>4
<1> QED
  BY <1>1, <1>4, NotRunning

\* The old record alone.
LEMMA ViewInit == Init => ViewInv
<1> SUFFICES ASSUME Init PROVE ViewInv
  OBVIOUS
<1>1. /\ pc = "down" /\ today = 1 /\ appends = 0 /\ Top = 0
      /\ acked = {OldTrade} /\ skipped = {} /\ damaged = {} /\ Sound = {OldTrade}
  BY DEF Init, Top, Sound
<1>2. IsRecord(OldTrade) /\ Num(OldTrade) = 0 /\ OldTrade.day = 1 /\ OldTrade # Garbled
      /\ OldTrade.key.type = "trade"
  BY OldTradeFacts, OldTradeIsRecord, RecordFacts DEF Key
<1>3. 1 \in Days /\ \A d \in Days : d \in Nat \ {0}
  BY JournalAssumption DEF Days
<1>4. \A d \in Days : Lines(d) = IF d = 1 THEN <<OldTrade>> ELSE <<>>
  BY <1>1 DEF Init, Empty, Lines
<1>5. Range(<<OldTrade>>) = {OldTrade} /\ Range(<<>>) = {}
  BY DEF Range
<1>6. GoodFile(<<OldTrade>>, 1, 1, 0)
  <2>1. /\ <<OldTrade>> \in Seq(Range(<<OldTrade>>)) /\ Len(<<OldTrade>>) = 1
        /\ <<OldTrade>>[1] = OldTrade
    BY <1>5
  <2>2. Replayable(<<OldTrade>>)
    BY <1>2, <2>1 DEF Replayable
  <2>3. NumberedOn(<<OldTrade>>, 1)
    BY <1>2, <2>1 DEF NumberedOn
  <2> QED
    BY <1>2, <1>5, <2>2, <2>3 DEF GoodFile
<1>7. FilesInv
  <2>1. \A d \in Days : GoodFile(Lines(d), d, today, Top)
    BY <1>1, <1>4, <1>6, GoodEmpty
  <2>2. \A d, e \in Days : d < e => AllBefore(Range(Lines(d)), Range(Lines(e)))
    <3> SUFFICES ASSUME NEW d \in Days, NEW e \in Days, d < e
                 PROVE  AllBefore(Range(Lines(d)), Range(Lines(e)))
      OBVIOUS
    <3>1. e # 1
      BY <1>3
    <3> QED
      BY <1>4, <1>5, <3>1 DEF AllBefore
  <2> QED
    BY <2>1, <2>2 DEF FilesInv
<1>8. HistInv
  BY <1>1, <1>2 DEF HistInv
<1>9. RejectsLast
  BY <1>1, <1>2 DEF RejectsLast
<1> QED
  BY <1>1, <1>7, <1>8, <1>9 DEF ViewInv, Running, Appending, Written

-----------------------------------------------------------------------------
(* Rebuilding the tables.                                                  *)

\* A table that shows an acknowledged record and, if it is a reject, nothing newer.
LEMMA ShowsHolds ==
  ASSUME NEW rows, NEW a, NEW S, Shows(rows, a.key, S), a \in S,
         \A x \in S : x.key = a.key => IsRecord(x),
         a.key.type = "reject" => \A x \in S : x.key = a.key => Num(x) <= Num(a)
  PROVE  Holds(rows, a)
<1> DEFINE row == rows[a.key]
<1>1. /\ a.key \in DOMAIN rows
      /\ row = [f \in DOMAIN row |-> row[f]]
      /\ \A f \in Fields(a) : f \in DOMAIN row /\ Num(a) <= row[f]
      /\ \A f \in DOMAIN row : \E r \in S : r.key = a.key /\ f \in Fields(r) /\ row[f] = Num(r)
  BY DEF Shows
<1> HIDE DEF row
<1>2. IsRecord(a) /\ DOMAIN a.patch \subseteq Fields(a)
      /\ \A f \in DOMAIN a.patch : a.patch[f] = Num(a)
  BY RecordFacts
<1>3. \A f \in DOMAIN a.patch : f \in DOMAIN row /\ row[f] >= a.patch[f]
  <2> SUFFICES ASSUME NEW f \in DOMAIN a.patch
               PROVE  f \in DOMAIN row /\ row[f] >= a.patch[f]
    OBVIOUS
  <2>1. f \in DOMAIN row /\ Num(a) <= row[f] /\ a.patch[f] = Num(a) /\ Num(a) \in Nat
    BY <1>1, <1>2 DEF IsRecord
  <2>2. row[f] \in Nat
    BY <1>1, <2>1 DEF IsRecord
  <2> QED
    BY <2>1, <2>2
<1>4. ASSUME a.key.type = "reject" PROVE row = a.patch
  <2>1. DOMAIN a.patch = {"body"} /\ a.patch = [f \in DOMAIN a.patch |-> Num(a)]
        /\ Fields(a) = {"body"} /\ Num(a) \in Nat
    BY <1>2, <1>4, RecordFacts DEF IsRecord
  <2>2. ASSUME NEW f \in DOMAIN row PROVE f = "body" /\ row[f] = Num(a)
    <3>1. PICK r \in S : r.key = a.key /\ f \in Fields(r) /\ row[f] = Num(r)
      BY <1>1
    <3>2. IsRecord(r) /\ Num(r) <= Num(a) /\ Num(r) \in Nat
      BY <1>4, <3>1 DEF IsRecord
    <3>3. f = "body"
      BY <1>4, <3>1, <3>2, RecordFacts
    <3>4. Num(a) <= row[f]
      BY <1>1, <2>1, <3>3
    <3> QED
      BY <2>1, <3>1, <3>2, <3>3, <3>4
  <2>3. DOMAIN row = {"body"}
    BY <1>1, <2>1, <2>2
  <2> QED
    BY <1>1, <2>1, <2>2, <2>3
<1> QED
  BY <1>1, <1>3, <1>4 DEF Holds, row

\* The tables as committed are one place in the files: their end.
LEMMA DbIsConn == JTypeOK /\ ConnInv /\ db = conn => DbInv
<1> SUFFICES ASSUME JTypeOK, ConnInv, db = conn, NEW k \in DOMAIN conn \ CutKeys
             PROVE  /\ k # Garbled.key
                    /\ \E d \in Days : \E n \in 0 .. Len(disk[d].lines) :
                         Shows(db, k, UpToOf(disk, d, n) \ Outside)
  BY DEF DbInv
<1>1. k # Garbled.key
  BY DEF ConnInv, IsKey, Garbled, Record, Key
<1>2. Shows(conn, k, Stored \ Outside)
  BY <1>1 DEF ConnInv
<1>3. MaxDay \in Days /\ Days = 1 .. MaxDay
  BY JournalAssumption DEF Days
<1>4. disk[MaxDay].lines \in Seq(Range(disk[MaxDay].lines))
  BY <1>3 DEF JTypeOK, FileType
<1> DEFINE n == Len(disk[MaxDay].lines)
<1>5. n \in 0 .. n /\ FirstOf(disk[MaxDay].lines, n) = Range(disk[MaxDay].lines)
  BY <1>4 DEF FirstOf, Range
<1>6. UpToOf(disk, MaxDay, n) = Stored
  <2> DEFINE earlier == UNION {Range(disk[e].lines) : e \in 1 .. MaxDay - 1}
  <2>1. UpToOf(disk, MaxDay, n) = earlier \union Range(disk[MaxDay].lines)
    BY <1>5 DEF UpToOf
  <2>2. \A e : e \in Days <=> e \in 1 .. MaxDay - 1 \/ e = MaxDay
    BY <1>3, JournalAssumption
  <2>3. \A x : x \in Stored <=> \E e \in Days : x \in Range(disk[e].lines)
    BY DEF Stored
  <2>4. \A x : x \in earlier <=> \E e \in 1 .. MaxDay - 1 : x \in Range(disk[e].lines)
    OBVIOUS
  <2> HIDE DEF earlier
  <2>5. \A x : x \in Stored <=> x \in earlier \union Range(disk[MaxDay].lines)
    BY <2>2, <2>3, <2>4
  <2> HIDE DEF n
  <2> QED
    BY <2>1, <2>5
<1> QED
  BY <1>1, <1>2, <1>3, <1>5, <1>6

\* The rejects of a file that parses have the numbers below some number.
LEMMA RowNumbers ==
  ASSUME NEW s, NEW d, Replayable(s), NumberedOn(s, d), Garbled \notin Range(s)
  PROVE  \E m \in Nat : \A i \in Nat :
           i < m <=> \E x \in Range(s) : x.key = Key("reject", d, i)
<1> DEFINE Has(i) == \E x \in Range(s) : x.key = Key("reject", d, i)
<1>1. s \in Seq(Range(s)) /\ Len(s) \in Nat /\ DOMAIN s = 1 .. Len(s)
  BY DEF Replayable
<1>2. \A i : Key("reject", d, i).type = "reject" /\ Key("reject", d, i).id[2] = i
  BY DEF Key
<1>3. ASSUME NEW i \in Nat, NEW p \in 1 .. Len(s), s[p].key = Key("reject", d, i + 1)
      PROVE  \E q \in 1 .. p - 1 : s[q].key = Key("reject", d, i)
  <2>1. s[p].key.type = "reject" /\ s[p].key.id[2] = i + 1 /\ i + 1 > 0 /\ i + 1 - 1 = i
    BY <1>2, <1>3
  <2>2. Garbled \notin FirstOf(s, p - 1)
    <3>1. \A j \in 1 .. p - 1 : s[j] \in Range(s)
      BY <1>1 DEF Range
    <3> QED
      BY <3>1 DEF FirstOf
  <2>3. \E x \in FirstOf(s, p - 1) : x.key = Key("reject", d, i)
    BY <2>1, <2>2 DEF NumberedOn
  <2> QED
    BY <2>3 DEF FirstOf
<1>4. \A i \in Nat : Has(i + 1) => Has(i)
  <2> SUFFICES ASSUME NEW i \in Nat, NEW x \in Range(s), x.key = Key("reject", d, i + 1)
               PROVE  Has(i)
    OBVIOUS
  <2>1. PICK p \in 1 .. Len(s) : s[p] = x
    BY <1>1 DEF Range
  <2>2. PICK q \in 1 .. p - 1 : s[q].key = Key("reject", d, i)
    BY <1>3, <2>1
  <2>3. s[q] \in Range(s)
    BY <1>1, <2>1, <2>2 DEF Range
  <2> QED
    BY <2>2, <2>3
<1> DEFINE S == {i \in Nat : \A p \in 1 .. Len(s) : s[p].key = Key("reject", d, i) => i < p}
<1>5. Nat \subseteq S
  <2>1. 0 \in S
    OBVIOUS
  <2>2. ASSUME NEW i \in Nat, i \in S PROVE i + 1 \in S
    <3> SUFFICES ASSUME NEW p \in 1 .. Len(s), s[p].key = Key("reject", d, i + 1)
                 PROVE  i + 1 < p
      OBVIOUS
    <3>1. PICK q \in 1 .. p - 1 : s[q].key = Key("reject", d, i)
      BY <1>3
    <3>2. q \in 1 .. Len(s)
      BY <1>1, <3>1
    <3>3. i < q
      BY <2>2, <3>1, <3>2
    <3> QED
      BY <3>1, <3>3
  <2> HIDE DEF S
  <2> QED
    BY <2>1, <2>2, UpFromZero
<1>6. ~Has(Len(s))
  <2> SUFFICES ASSUME NEW x \in Range(s), x.key = Key("reject", d, Len(s)) PROVE FALSE
    OBVIOUS
  <2>1. PICK p \in 1 .. Len(s) : s[p] = x
    BY <1>1 DEF Range
  <2>2. Len(s) < p
    BY <1>1, <1>5, <2>1
  <2> QED
    BY <1>1, <2>1, <2>2
<1> HIDE DEF Has, S
<1> DEFINE Free == {i \in Nat : ~Has(i)}
<1>7. PICK m \in Free : \A j \in Free : m <= j
  <2>1. Free \subseteq Nat /\ Free # {}
    BY <1>1, <1>6
  <2> HIDE DEF Free
  <2> QED
    BY <2>1, LeastOf
<1>8. m \in Nat /\ ~Has(m) /\ \A i \in Nat : i < m => Has(i)
  <2>1. m \in Nat /\ ~Has(m)
    BY <1>7
  <2>2. ASSUME NEW i \in Nat, i < m, ~Has(i) PROVE FALSE
    BY <1>7, <2>1, <2>2
  <2> QED
    BY <2>1, <2>2
<1> DEFINE T == {j \in Nat : ~Has(m + j)}
<1>9. Nat \subseteq T
  <2>1. 0 \in T
    BY <1>8
  <2>2. ASSUME NEW j \in Nat, j \in T PROVE j + 1 \in T
    <3>1. m + j \in Nat /\ ~Has(m + j) /\ m + (j + 1) = (m + j) + 1
      BY <1>8, <2>2
    <3> QED
      BY <1>4, <3>1
  <2> HIDE DEF T
  <2> QED
    BY <2>1, <2>2, UpFromZero
<1>10. ASSUME NEW i \in Nat, Has(i) PROVE i < m
  <2>1. CASE i >= m
    <3>1. i - m \in Nat /\ m + (i - m) = i
      BY <1>8, <2>1
    <3>2. ~Has(m + (i - m))
      BY <1>9, <3>1
    <3> QED
      BY <1>10, <3>1, <3>2
  <2> QED
    BY <1>8, <2>1
<1> QED
  BY <1>8, <1>10 DEF Has

\* The rebuilt tables show every line.
LEMMA RebuildView ==
  ASSUME DurableInv, ViewInv, Rebuild
  PROVE  ViewInv'
<1>1. /\ pc = "repair" /\ pc' = "idle" /\ Garbled \notin Stored
      /\ UNCHANGED <<disk, rec, buf, today, appends, opens, acked, damaged>>
      /\ conn' = Replayed(AllLines) /\ db' = conn' /\ skipped' = {}
  BY DEF Rebuild
<1>2. JTypeOK /\ today \in Days /\ today <= today /\ buf.lines = <<>> /\ DOMAIN disk = Days
      /\ FilesInv /\ HistInv /\ RejectsLast /\ \A d \in Days : d \in Nat \ {0}
  BY <1>1, DaysInt DEF ViewInv, DurableInv, JTypeOK, Days
<1>3. DurableInv' /\ Held = Stored /\ Stored' = Stored
  <2>1. DurableInv'
    BY RebuildStep
  <2>2. Range(<<>>) = {}
    BY DEF Range
  <2> QED
    BY <1>1, <1>2, <2>1, <2>2 DEF Held, Stored
<1>4. FilesInv' /\ RejectsLast' /\ Top <= Top' /\ Top' \in Int /\ Top' = appends
  <2>1. Sound' \subseteq Sound
    BY <1>1 DEF Sound
  <2> QED
    BY <1>1, <1>2, <2>1, StillFiles
<1>5. HistInv'
  BY <1>1, <1>2, <1>4, NumsGrow DEF HistInv
<1>6. CutKeys' = {} /\ Outside' = {}
  BY <1>1 DEF CutKeys, Outside, Written
<1>7. \A x \in Stored : IsRecord(x) /\ x \in Range(disk[x.day].lines)
  BY <1>1, <1>2, StoredLines
<1>8. /\ conn' = [k \in DOMAIN conn' |-> conn'[k]]
      /\ \A k \in DOMAIN conn' : \E r \in Stored : r.key = k
      /\ \A k : k # Garbled.key => Shows(conn', k, Stored)
  <2> DEFINE rows == RowsAfter(AllLines, {})
  <2>1. Replayable(AllLines) /\ Range(AllLines) = Stored
    BY <1>1, <1>2, AllLinesAre
  <2>2. Len(AllLines) \in 0 .. Len(AllLines)
        /\ FirstOf(AllLines, Len(AllLines)) = Stored
    BY <2>1 DEF Replayable, FirstOf, Range
  <2>3. conn' = rows[Len(AllLines)]
    BY <1>1 DEF Replayed
  <2>4. PICK s : s = AllLines
    OBVIOUS
  <2>5. PICK table : table = rows
    OBVIOUS
  <2>8. PICK none : none = {}
    OBVIOUS
  <2>6. TableShows(table[Len(s)], FirstOf(s, Len(s)), none)
    <3>1. Replayable(s) /\ table = RowsAfter(s, none) /\ Len(s) \in 0 .. Len(s)
      BY <2>1, <2>2, <2>4, <2>5, <2>8
    <3> QED
      BY <3>1, RowsShow
  <2> HIDE DEF rows
  <2>7. FirstOf(s, Len(s)) \ none = Stored
    BY <2>2, <2>4, <2>8
  <2> QED
    BY <2>2, <2>3, <2>4, <2>5, <2>6, <2>7 DEF TableShows, IsTable
<1>9. \A k \in DOMAIN conn' : IsKey(k)
  <2> SUFFICES ASSUME NEW k \in DOMAIN conn' PROVE IsKey(k)
    OBVIOUS
  <2>1. PICK r \in Stored : r.key = k
    BY <1>8
  <2> QED
    BY <1>7, <2>1 DEF IsRecord
<1>10. \A k : k \in DOMAIN conn' <=> \E x \in Stored : x.key = k
  <2>1. ASSUME NEW x \in Stored PROVE x.key \in DOMAIN conn'
    <3>1. x.key # Garbled.key
      BY <1>7, RecordFacts
    <3>2. Shows(conn', x.key, Stored)
      BY <1>8, <3>1
    <3> QED
      BY <3>2 DEF Shows
  <2> QED
    BY <1>8, <2>1
<1>11. ASSUME NEW d \in Days
       PROVE  /\ \E m \in Nat : RejectKeys(d)' = {Key("reject", d, i) : i \in 0 .. m - 1}
              /\ \A k \in RejectKeys(d)' : \E x \in Range(disk[d].lines) : x.key = k
  <2>1. RejectKeys(d)' = {k \in DOMAIN conn' : k.type = "reject" /\ k.id[1] = d}
    BY DEF RejectKeys
  <2>2. \A k \in RejectKeys(d)' : \E x \in Range(disk[d].lines) : x.key = k
    <3> SUFFICES ASSUME NEW k \in RejectKeys(d)'
                 PROVE  \E x \in Range(disk[d].lines) : x.key = k
      OBVIOUS
    <3>1. k.type = "reject" /\ k.id[1] = d
      BY <2>1
    <3>2. PICK x \in Stored : x.key = k
      BY <1>8, <2>1
    <3>3. IsRecord(x) /\ x \in Range(disk[x.day].lines)
      BY <1>7
    <3>4. x.day = d
      BY <3>1, <3>2, <3>3 DEF IsRecord
    <3> QED
      BY <3>2, <3>3, <3>4
  <2>3. GoodFile(disk[d].lines, d, today, Top)
    BY <1>1, <1>2 DEF FilesInv, Lines
  <2>4. Range(disk[d].lines) \subseteq Stored
    BY DEF Stored
  <2>5. PICK m \in Nat : \A i \in Nat :
           i < m <=> \E x \in Range(disk[d].lines) : x.key = Key("reject", d, i)
    <3>1. Replayable(disk[d].lines) /\ NumberedOn(disk[d].lines, d)
          /\ Garbled \notin Range(disk[d].lines)
      BY <1>1, <2>3, <2>4 DEF GoodFile
    <3> QED
      BY <3>1, RowNumbers
  <2>6. ASSUME NEW k \in RejectKeys(d)'
        PROVE  \E i \in 0 .. m - 1 : k = Key("reject", d, i)
    <3>1. k \in DOMAIN conn' /\ k.type = "reject" /\ k.id[1] = d
      BY <2>1
    <3>2. IsKey(k)
      BY <1>9, <3>1
    <3>3. k = Key("reject", d, k.id[2]) /\ k.id[2] \in Nat
      BY <3>1, <3>2 DEF IsKey
    <3>4. k.id[2] < m
      BY <2>2, <2>5, <3>3
    <3>5. k.id[2] \in 0 .. m - 1
      BY <3>3, <3>4
    <3> QED
      BY <3>3, <3>5
  <2>7. ASSUME NEW i \in 0 .. m - 1 PROVE Key("reject", d, i) \in RejectKeys(d)'
    <3>1. i \in Nat /\ i < m
      OBVIOUS
    <3>2. PICK x \in Range(disk[d].lines) : x.key = Key("reject", d, i)
      BY <2>5, <3>1
    <3>3. Key("reject", d, i) \in DOMAIN conn'
      BY <1>10, <2>4, <3>2
    <3>4. Key("reject", d, i).type = "reject" /\ Key("reject", d, i).id[1] = d
      BY DEF Key
    <3> QED
      BY <2>1, <3>3, <3>4
  <2>8. RejectKeys(d)' = {Key("reject", d, i) : i \in 0 .. m - 1}
    BY <2>6, <2>7
  <2> QED
    BY <2>2, <2>8
<1>12. ConnInv'
  <2>1. ASSUME NEW k, k # Garbled.key PROVE Shows(conn', k, Stored' \ Outside')
    <3>1. Stored' \ Outside' = Stored
      BY <1>3, <1>6
    <3> QED
      BY <1>8, <2>1, <3>1
  <2> QED
    BY <1>1, <1>8, <1>9, <1>11, <2>1 DEF ConnInv
<1>13. DbInv'
  <2>1. JTypeOK'
    BY <1>3 DEF DurableInv
  <2> QED
    <3>1. (db = conn)'
      BY <1>1
    <3> QED
      BY <1>12, <2>1, <3>1, DbIsConn, PTL
<1>14. ASSUME NEW a \in Sound PROVE Holds(conn', a)
  <2>1. a \in Stored
    BY <1>3, SafeHeld DEF AckedDurable
  <2>2. IsRecord(a)
    BY <1>7, <2>1
  <2>3. Shows(conn', a.key, Stored)
    BY <1>8, <2>2, RecordFacts
  <2>4. ASSUME a.key.type = "reject", NEW x \in Stored, x.key = a.key
        PROVE  Num(x) <= Num(a)
    <3>1. PICK d \in Days : x \in Range(disk[d].lines)
      BY DEF Stored
    <3>2. x \in Range(Lines(d)) \ {Garbled}
      BY <1>1, <3>1 DEF Lines
    <3> QED
      BY <1>2, <2>4, <3>2 DEF RejectsLast
  <2> QED
    BY <1>7, <2>1, <2>3, <2>4, ShowsHolds
<1>15. (\A a \in Sound : Holds(conn, a))'
  BY <1>1, <1>14 DEF Sound
<1> QED
  BY <1>1, <1>3, <1>4, <1>5, <1>12, <1>13, <1>15 DEF ViewInv, Appending, Written

-----------------------------------------------------------------------------
(* Upserting.                                                              *)

\* What the tables hold of an acknowledged record survives an upsert of a newer one.
LEMMA HoldsUpserted ==
  ASSUME NEW rows, NEW r, IsRecord(r), NEW a, IsRecord(a), Holds(rows, a),
         Num(a) <= Num(r), a.key.type = "reject" => a.key # r.key
  PROVE  Holds(Upserted(rows, r), a)
<1> DEFINE up == Upserted(rows, r)
           row == Upserted(rows, r)[r.key]
<1>1. /\ DOMAIN up = DOMAIN rows \union {r.key}
      /\ \A k \in DOMAIN rows \ {r.key} : up[k] = rows[k]
  BY UpsertedRows
<1>2. /\ a.key \in DOMAIN rows
      /\ \A f \in DOMAIN a.patch : f \in DOMAIN rows[a.key] /\ rows[a.key][f] >= a.patch[f]
      /\ a.key.type = "reject" => rows[a.key] = a.patch
  BY DEF Holds
<1>3. CASE a.key # r.key
  <2> HIDE DEF up
  <2>1. a.key \in DOMAIN up /\ up[a.key] = rows[a.key]
    BY <1>1, <1>2, <1>3
  <2>2. Holds(up, a)
    BY <1>2, <2>1 DEF Holds
  <2> QED
    BY <2>2 DEF up
<1>4. CASE a.key = r.key
  <2>1. /\ \A f \in Fields(r) : f \in DOMAIN row /\ row[f] = Num(r)
        /\ r.key.type = "trade" /\ r.key \in DOMAIN rows =>
             /\ DOMAIN row = Fields(r) \union DOMAIN rows[r.key]
             /\ \A f \in DOMAIN rows[r.key] \ Fields(r) : row[f] = rows[r.key][f]
    BY UpsertedRow
  <2>2. /\ \A f \in DOMAIN a.patch : f \in Fields(a) /\ a.patch[f] = Num(a)
        /\ Num(a) \in Nat /\ Num(r) \in Nat
    BY RecordFacts DEF IsRecord
  <2> HIDE DEF row
  <2>3. ASSUME NEW f \in DOMAIN a.patch PROVE f \in DOMAIN row /\ row[f] >= a.patch[f]
    <3>1. CASE f \in Fields(r)
      BY <2>1, <2>2, <3>1
    <3>2. CASE f \notin Fields(r)
      <4>1. r.key.type = "trade"
        <5>1. r.key.type # "trade" => Fields(r) = {"body"} /\ Fields(a) = {"body"}
          BY <1>4, RecordFacts
        <5> QED
          BY <2>2, <3>2, <5>1
      <4>2. f \in DOMAIN row /\ row[f] = rows[r.key][f]
        BY <1>2, <1>4, <2>1, <3>2, <4>1
      <4> QED
        BY <1>2, <1>4, <4>2
    <3> QED
      BY <3>1, <3>2
  <2>4. a.key \in DOMAIN up /\ up[a.key] = row
    BY <1>1, <1>4 DEF row
  <2> HIDE DEF up
  <2>5. Holds(up, a)
    BY <1>4, <2>3, <2>4 DEF Holds
  <2> QED
    BY <2>5 DEF up
<1> QED
  BY <1>3, <1>4

\* The tables with the record being appended in them, however the commit ends.
LEMMA UpsertTables ==
  ASSUME DurableInv, ViewInv, pc = "upsert", pc' = "idle",
         UNCHANGED <<disk, skipped, damaged, today, appends>>,
         conn' = Upserted(conn, rec)
  PROVE  /\ ConnInv' /\ \A a \in Sound : Holds(conn', a)
         /\ rec \in Sound' => Holds(conn', rec)
<1>1. /\ JTypeOK /\ FilesInv /\ HistInv /\ RecInv /\ WrittenInv /\ ConnInv
      /\ \A a \in Sound : Holds(conn, a)
  BY DEF ViewInv, DurableInv, Running, Appending, Written
<1>2. /\ IsRecord(rec) /\ rec # Garbled /\ rec.key # Garbled.key /\ IsKey(rec.key)
      /\ rec.day \in Days /\ Num(rec) = appends /\ appends \in Nat /\ Top = appends
  <2>1. IsRecord(rec) /\ Num(rec) = appends /\ appends \in Nat /\ Top = appends
    BY <1>1 DEF RecInv, HistInv, Top
  <2> QED
    BY <2>1, RecordFacts DEF IsRecord
<1>3. /\ conn' = [k \in DOMAIN conn' |-> conn'[k]]
      /\ DOMAIN conn' = DOMAIN conn \union {rec.key}
      /\ \A k \in DOMAIN conn \ {rec.key} : conn'[k] = conn[k]
  <2>1. IsRecord(rec) \/ rec = Garbled
    BY <1>2
  <2>2. LET up == Upserted(conn, rec) IN
        /\ up = [k \in DOMAIN up |-> up[k]]
        /\ DOMAIN up = DOMAIN conn \union {rec.key}
        /\ \A k \in DOMAIN conn \ {rec.key} : up[k] = conn[k]
    BY <2>1, UpsertedRows
  <2> QED
    BY <2>2
<1>4. /\ Stored' = Stored /\ CutKeys' = CutKeys
      /\ Outside = skipped \union {rec} /\ Outside' = skipped
  BY DEF Stored, CutKeys, Outside, Written
<1>5. rec.key.type = "reject" =>
        rec.key = Key("reject", rec.day, NextSeq(rec.day)) /\ rec.key \notin DOMAIN conn
  BY <1>1, <1>2, NextSeqFree DEF RecInv
<1>6. ASSUME NEW k, k # Garbled.key, k \notin CutKeys
      PROVE  Shows(conn', k, Stored \ skipped)
  <2>1. Shows(conn, k, Stored \ Outside)
    BY <1>1, <1>6 DEF ConnInv
  <2>2. CASE k # rec.key
    <3>1. Shows(conn', k, Stored \ Outside)
      BY <1>3, <2>1, <2>2, ShowsSameRow
    <3>2. \A r : r.key = k => (r \in Stored \ Outside <=> r \in Stored \ skipped)
      BY <1>4, <2>2
    <3> QED
      BY <3>1, <3>2, ShowsLocal
  <2>3. CASE k = rec.key
    <3>1. rec \notin skipped
      BY <1>1, <1>6, <2>3 DEF RecInv, CutKeys
    <3>2. rec \in Stored
      <4>1. Len(disk[rec.day].lines) > 0
            /\ disk[rec.day].lines[Len(disk[rec.day].lines)] = rec
        BY <1>1, <3>1 DEF WrittenInv
      <4>2. disk[rec.day].lines \in Seq(Range(disk[rec.day].lines))
        BY <1>1, <1>2 DEF JTypeOK, FileType
      <4>3. rec \in Range(disk[rec.day].lines)
        BY <4>1, <4>2 DEF Range
      <4> QED
        BY <1>2, <4>3 DEF Stored
    <3>3. ASSUME NEW x \in Stored \ Outside, x.key = rec.key
          PROVE  IsRecord(x) /\ Before(x, rec)
      <4>1. IsRecord(x) /\ Num(x) <= Top
        BY <1>1, <1>2, <3>3, StoredLines
      <4> QED
        BY <1>2, <4>1 DEF Before
    <3>4. Shows(conn', k, (Stored \ Outside) \union {rec})
      BY <1>2, <2>1, <2>3, <3>3, UpsertShows
    <3>5. (Stored \ Outside) \union {rec} = Stored \ skipped
      BY <1>4, <3>1, <3>2
    <3> QED
      BY <3>4, <3>5
  <2> QED
    BY <2>2, <2>3
<1>7. \A d : RejectKeys(d)' = IF rec.key.type = "reject" /\ rec.key.id[1] = d
                              THEN RejectKeys(d) \union {rec.key} ELSE RejectKeys(d)
  BY <1>3 DEF RejectKeys
<1>8. ASSUME NEW d \in Days
      PROVE  \E m \in Nat : RejectKeys(d)' = {Key("reject", d, i) : i \in 0 .. m - 1}
  <2>1. CASE rec.key.type = "reject" /\ rec.key.id[1] = d
    <3>1. rec.day = d
      BY <1>2, <2>1 DEF IsRecord
    <3>2. NextSeq(d) \in Nat /\ RejectKeys(d) = RejectRow(d, NextSeq(d))
      BY <1>1, NextSeqFree
    <3>3. RejectKeys(d)' = RejectRow(d, NextSeq(d)) \union {Key("reject", d, NextSeq(d))}
      BY <1>5, <1>7, <2>1, <3>1, <3>2
    <3>4. PICK m : m = NextSeq(d)
      OBVIOUS
    <3>5. RejectRow(d, m) \union {Key("reject", d, m)} = RejectRow(d, m + 1)
      BY <3>2, <3>4 DEF RejectRow
    <3> QED
      BY <3>2, <3>3, <3>4, <3>5 DEF RejectRow
  <2>2. CASE ~(rec.key.type = "reject" /\ rec.key.id[1] = d)
    BY <1>1, <1>7, <2>2 DEF ConnInv
  <2> QED
    BY <2>1, <2>2
<1>9. ASSUME NEW d \in Days, NEW k \in RejectKeys(d)'
      PROVE  \/ disk[d].tail \/ Garbled \in Range(disk[d].lines)
             \/ \E x \in Range(disk[d].lines) : x.key = k
  <2>1. CASE k \in RejectKeys(d)
    BY <1>1, <2>1 DEF ConnInv
  <2>2. CASE k = rec.key /\ rec.key.type = "reject" /\ rec.key.id[1] = d
    <3>1. rec.day = d
      BY <1>2, <2>2 DEF IsRecord
    <3> QED
      BY <1>1, <2>2, <3>1 DEF WrittenInv
  <2> QED
    BY <1>7, <1>9, <2>1, <2>2
<1>10. ConnInv'
  <2>1. \A k \in DOMAIN conn' : IsKey(k)
    BY <1>1, <1>2, <1>3 DEF ConnInv
  <2> QED
    BY <1>3, <1>4, <1>6, <1>8, <1>9, <2>1 DEF ConnInv
<1>11. ASSUME NEW a \in Sound PROVE Holds(conn', a)
  <2>1. Holds(conn, a) /\ IsRecord(a) /\ Num(a) <= Num(rec)
    BY <1>1, <1>2 DEF HistInv, Sound
  <2>2. a.key.type = "reject" => a.key # rec.key
    BY <1>5, <2>1 DEF Holds
  <2> QED
    BY <1>2, <2>1, <2>2, HoldsUpserted
<1>12. Holds(conn', rec)
  <2> DEFINE row == Upserted(conn, rec)[rec.key]
  <2>1. /\ row = [f \in DOMAIN row |-> row[f]]
        /\ \A f \in Fields(rec) : f \in DOMAIN row /\ row[f] = Num(rec)
        /\ ~(rec.key.type = "trade" /\ rec.key \in DOMAIN conn) => DOMAIN row = Fields(rec)
    BY <1>2, UpsertedRow
  <2>2. /\ DOMAIN rec.patch \subseteq Fields(rec) /\ Num(rec) \in Nat
        /\ \A f \in DOMAIN rec.patch : rec.patch[f] = Num(rec)
        /\ rec.patch = [f \in DOMAIN rec.patch |-> Num(rec)]
        /\ rec.key.type # "trade" => DOMAIN rec.patch = {"body"} /\ Fields(rec) = {"body"}
    BY <1>2, RecordFacts DEF IsRecord
  <2>3. conn'[rec.key] = row /\ rec.key \in DOMAIN conn'
    BY <1>3
  <2> HIDE DEF row
  <2>4. \A f \in DOMAIN rec.patch : f \in DOMAIN row /\ row[f] >= rec.patch[f]
    BY <2>1, <2>2
  <2>5. ASSUME rec.key.type = "reject" PROVE row = rec.patch
    <3>1. DOMAIN row = {"body"} /\ DOMAIN rec.patch = {"body"} /\ row["body"] = Num(rec)
      BY <2>1, <2>2, <2>5
    <3> QED
      BY <2>1, <2>2, <3>1
  <2> QED
    BY <2>3, <2>4, <2>5 DEF Holds
<1> QED
  BY <1>10, <1>11, <1>12

\* While a record is written and not yet in the tables, some place in the files
\* before it says of a key what a place without it said.
LEMMA BeforeRec ==
  ASSUME DurableInv, ViewInv, pc \in Written, NEW k, k \notin CutKeys, k # Garbled.key,
         NEW d \in Days, NEW n \in 0 .. Len(disk[d].lines)
  PROVE  \E e \in Days : \E m \in 0 .. Len(disk[e].lines) :
           \A r : r.key = k => (r \in UpToOf(disk, d, n) \ Outside
                                  <=> r \in UpToOf(disk, e, m) \ skipped)
<1>1. /\ JTypeOK /\ FilesInv /\ RecInv /\ WrittenInv /\ rec.day \in Days
      /\ Outside = skipped \union {rec} /\ pc # "rewrite"
  BY DEF ViewInv, DurableInv, JTypeOK, Appending, Written, Outside
<1>2. \A f \in Days : disk[f].lines \in Seq(Range(disk[f].lines))
                      /\ Len(disk[f].lines) \in Nat /\ f \in Int
  BY <1>1, DaysInt DEF JTypeOK, FileType
<1>3. CASE k # rec.key \/ rec \in skipped \/ rec \notin UpToOf(disk, d, n)
  <2>1. \A r : r.key = k => (r \in UpToOf(disk, d, n) \ Outside
                               <=> r \in UpToOf(disk, d, n) \ skipped)
    BY <1>1, <1>3
  <2> QED
    BY <2>1
<1>4. CASE k = rec.key /\ rec \notin skipped /\ rec \in UpToOf(disk, d, n)
  <2> DEFINE e == rec.day  s == disk[rec.day].lines  m == Len(disk[rec.day].lines) - 1
  <2>1. /\ Len(s) > 0 /\ s[Len(s)] = rec
        /\ \A i \in 1 .. Len(s) - 1 : s[i] # rec
        /\ \A f \in Days : f > e => \A x \in Range(disk[f].lines) :
             x.key = rec.key => x \in skipped
    BY <1>1, <1>4 DEF WrittenInv
  <2>2. IsRecord(rec) /\ rec # Garbled
    BY <1>1, RecordFacts DEF RecInv
  <2>3. \A f \in Days : rec \in Range(disk[f].lines) => f = e
    <3> SUFFICES ASSUME NEW f \in Days, rec \in Range(disk[f].lines) PROVE f = e
      OBVIOUS
    <3>1. GoodFile(disk[f].lines, f, today, Top)
      BY <1>1 DEF FilesInv, Lines
    <3> QED
      BY <2>2, <3>1, GoodLines
  <2>4. s \in Seq(Range(s)) /\ Len(s) \in Nat /\ e \in Days /\ e \in Int /\ d \in Int
        /\ s = disk[e].lines
    BY <1>1, <1>2
  <2> HIDE DEF s
  <2>5. Range(s) = FirstOf(s, Len(s)) /\ FirstOf(s, Len(s)) = FirstOf(s, m) \union {rec}
        /\ rec \notin FirstOf(s, m) /\ m \in 0 .. Len(s) /\ m = Len(s) - 1
    <3>1. m \in 0 .. Len(s) /\ m = Len(s) - 1
      BY <2>1, <2>4 DEF s
    <3> HIDE DEF m
    <3>2. Range(s) = FirstOf(s, Len(s))
      BY <2>4 DEF Range, FirstOf
    <3>3. \A i : i \in 1 .. Len(s) <=> i \in 1 .. m \/ i = Len(s)
      BY <2>1, <2>4, <3>1
    <3>4. FirstOf(s, Len(s)) = FirstOf(s, m) \union {rec}
      BY <2>1, <3>3 DEF FirstOf
    <3>5. rec \notin FirstOf(s, m)
      BY <2>1, <3>1 DEF FirstOf
    <3> QED
      BY <3>1, <3>2, <3>4, <3>5
  <2> HIDE DEF m, e
  <2>6. \A f \in 1 .. d - 1 : f \in Days
    BY JournalAssumption DEF Days
  <2>7. \A f \in 1 .. e - 1 : f \in Days /\ f # e
    BY <2>4, JournalAssumption DEF Days
  <2>8. \A x : x \in UpToOf(disk, d, n) <=> \/ \E f \in 1 .. d - 1 : x \in Range(disk[f].lines)
                                            \/ x \in FirstOf(disk[d].lines, n)
    <3> DEFINE U == UNION {Range(disk[f].lines) : f \in 1 .. d - 1}
    <3>1. \A x : x \in U <=> \E f \in 1 .. d - 1 : x \in Range(disk[f].lines)
      OBVIOUS
    <3>2. UpToOf(disk, d, n) = U \union FirstOf(disk[d].lines, n)
      BY DEF UpToOf
    <3> HIDE DEF U
    <3> QED
      BY <3>1, <3>2
  <2>9. \A x : x \in UpToOf(disk, e, m) <=> \/ \E f \in 1 .. e - 1 : x \in Range(disk[f].lines)
                                            \/ x \in FirstOf(s, m)
    <3> DEFINE U == UNION {Range(disk[f].lines) : f \in 1 .. e - 1}
    <3>1. \A x : x \in U <=> \E f \in 1 .. e - 1 : x \in Range(disk[f].lines)
      OBVIOUS
    <3>2. UpToOf(disk, e, m) = U \union FirstOf(s, m)
      BY <2>4 DEF UpToOf
    <3> HIDE DEF U
    <3> QED
      BY <3>1, <3>2
  <2>10. FirstOf(disk[d].lines, n) \subseteq Range(disk[d].lines)
    <3>1. \A i \in 1 .. n : i \in 1 .. Len(disk[d].lines)
      BY <1>2
    <3>2. \A i \in 1 .. n : disk[d].lines[i] \in Range(disk[d].lines)
      BY <1>2, <3>1 DEF Range
    <3> QED
      BY <3>2 DEF FirstOf
  <2>11. \A x : x \in UpToOf(disk, e, m) => x # rec
    BY <2>3, <2>5, <2>7, <2>9
  <2>12. d >= e
    <3>1. PICK f \in Days : f <= d /\ rec \in Range(disk[f].lines)
      BY <1>4, <2>4, <2>6, <2>8, <2>10
    <3> QED
      BY <2>3, <3>1
  <2>13. CASE d = e
    <3>1. n = Len(s)
      <4>1. rec \in FirstOf(s, n)
        <5>1. ~\E f \in 1 .. d - 1 : rec \in Range(disk[f].lines)
          BY <2>3, <2>7, <2>13
        <5> QED
          BY <1>4, <2>4, <2>8, <2>13, <5>1
      <4>2. PICK i \in 1 .. n : s[i] = rec
        BY <4>1 DEF FirstOf
      <4>3. n \in 0 .. Len(s)
        BY <2>4, <2>13
      <4> QED
        BY <2>1, <2>4, <4>2, <4>3
    <3>2. \A x : x \in UpToOf(disk, d, n) <=> x \in UpToOf(disk, e, m) \/ x = rec
      BY <2>4, <2>5, <2>8, <2>9, <2>13, <3>1
    <3>3. \A r : r \in UpToOf(disk, d, n) \ Outside <=> r \in UpToOf(disk, e, m) \ skipped
      BY <1>1, <2>11, <3>2
    <3> QED
      BY <2>4, <2>5, <3>3
  <2>14. CASE d > e
    <3>1. ASSUME NEW x, x \in UpToOf(disk, e, m) PROVE x \in UpToOf(disk, d, n)
      <4>1. CASE \E f \in 1 .. e - 1 : x \in Range(disk[f].lines)
        <5>1. PICK f \in 1 .. e - 1 : x \in Range(disk[f].lines)
          BY <4>1
        <5>2. f \in 1 .. d - 1
          BY <2>4, <2>14
        <5> QED
          BY <2>8, <5>1, <5>2
      <4>2. CASE x \in FirstOf(s, m)
        <5>1. x \in Range(disk[e].lines)
          BY <2>4, <2>5, <4>2
        <5>2. e \in 1 .. d - 1
          BY <2>4, <2>14 DEF Days
        <5> QED
          BY <2>8, <5>1, <5>2
      <4> QED
        BY <2>9, <3>1, <4>1, <4>2
    <3>2. ASSUME NEW x, x \in UpToOf(disk, d, n), x.key = rec.key, x # rec, x \notin skipped
          PROVE  x \in UpToOf(disk, e, m)
      <4>1. PICK f \in Days : x \in Range(disk[f].lines) /\ 1 <= f
        <5>1. CASE \E f \in 1 .. d - 1 : x \in Range(disk[f].lines)
          BY <2>6, <5>1
        <5>2. CASE x \in FirstOf(disk[d].lines, n)
          BY <2>10, <5>2 DEF Days
        <5> QED
          BY <2>8, <3>2, <5>1, <5>2
      <4>2. ~(f > e) /\ f \in Int
        BY <1>2, <2>1, <3>2, <4>1
      <4>3. CASE f = e
        <5>1. x \in Range(s)
          BY <2>4, <4>1, <4>3
        <5> QED
          BY <2>5, <2>9, <3>2, <5>1
      <4>4. CASE f # e
        <5>1. f \in 1 .. e - 1
          BY <2>4, <4>1, <4>2, <4>4
        <5> QED
          BY <2>9, <4>1, <5>1
      <4> QED
        BY <4>3, <4>4
    <3>3. \A r : r.key = k => (r \in UpToOf(disk, d, n) \ Outside
                                 <=> r \in UpToOf(disk, e, m) \ skipped)
      BY <1>1, <1>4, <2>11, <3>1, <3>2
    <3> QED
      BY <2>4, <2>5, <3>3
  <2> QED
    BY <2>4, <2>12, <2>13, <2>14
<1> QED
  BY <1>3, <1>4

\* The upsert, committed or left in the open transaction.
LEMMA CommitView ==
  ASSUME DurableInv, ViewInv, UpsertCommit \/ CommitRaises
  PROVE  ViewInv'
<1>1. /\ pc = "upsert" /\ pc' = "idle" /\ conn' = Upserted(conn, rec)
      /\ UNCHANGED <<disk, buf, today, appends, opens, skipped, damaged>>
      /\ \/ db' = conn' /\ acked' = acked \union {rec}
         \/ db' = db /\ acked' = acked
  BY DEF UpsertCommit, CommitRaises, Abandon
<1>2. /\ JTypeOK /\ FilesInv /\ HistInv /\ RejectsLast /\ RecInv /\ DbInv
      /\ today \in Days /\ today <= today
      /\ Garbled \in Stored => HasCut
  BY <1>1, DaysInt DEF ViewInv, DurableInv, JTypeOK, Running, Appending
<1>3. /\ ConnInv' /\ \A a \in Sound : Holds(conn', a)
      /\ rec \in Sound' => Holds(conn', rec)
  BY <1>1, UpsertTables
<1>4. /\ IsRecord(rec) /\ rec \notin acked /\ (rec \in skipped => rec \in damaged)
      /\ Num(rec) = appends /\ Top = appends /\ Top' = appends /\ appends \in Nat
  BY <1>1, <1>2 DEF RecInv, HistInv, Top
<1>5. \A d \in Days : Lines(d)' = Lines(d)
  BY <1>1 DEF Lines
<1>6. FilesInv'
  BY <1>1, <1>2, <1>4, <1>5, FilesSame
<1>7. HistInv'
  <2>1. \A r \in skipped' \union acked' : IsRecord(r) /\ Num(r) <= Top'
    BY <1>1, <1>2, <1>4 DEF HistInv
  <2>2. skipped' \intersect acked' \subseteq damaged'
    BY <1>1, <1>2, <1>4 DEF HistInv
  <2> QED
    BY <1>1, <1>4, <2>1, <2>2 DEF HistInv
<1>8. Sound' \subseteq Sound \union {rec}
  BY <1>1 DEF Sound
<1>9. RejectsLast'
  <2> SUFFICES ASSUME NEW a \in Sound', a.key.type = "reject", NEW d \in Days,
                      NEW x \in Range(Lines(d)) \ {Garbled}, x.key = a.key
               PROVE  Num(x) <= Num(a)
    BY <1>5 DEF RejectsLast
  <2>1. CASE a \in Sound
    BY <1>2, <2>1 DEF RejectsLast
  <2>2. CASE a = rec
    <3>1. GoodFile(Lines(d), d, today, Top)
      BY <1>2 DEF FilesInv
    <3> QED
      BY <1>4, <2>2, <3>1 DEF GoodFile
  <2> QED
    BY <1>8, <2>1, <2>2
<1>10. DbInv'
  <2>1. CASE db' = conn'
    <3>1. JTypeOK'
      BY <1>1, <1>2, ReturnStep DEF DurableInv
    <3>2. (db = conn)'
      BY <2>1
    <3> QED
      BY <1>3, <3>1, <3>2, DbIsConn, PTL
  <2>2. CASE db' = db
    <3> SUFFICES ASSUME NEW k \in DOMAIN db \ CutKeys
                 PROVE  /\ k # Garbled.key
                        /\ \E d \in Days : \E n \in 0 .. Len(disk[d].lines) :
                             Shows(db, k, UpToOf(disk, d, n) \ skipped)
      BY <1>1, <2>2 DEF DbInv, CutKeys, Outside, Written
    <3>1. k # Garbled.key
      BY <1>2 DEF DbInv
    <3>2. PICK d \in Days : \E n \in 0 .. Len(disk[d].lines) :
            Shows(db, k, UpToOf(disk, d, n) \ Outside)
      BY <1>2 DEF DbInv
    <3>3. PICK n \in 0 .. Len(disk[d].lines) : Shows(db, k, UpToOf(disk, d, n) \ Outside)
      BY <3>2
    <3>4. PICK e \in Days : \E m \in 0 .. Len(disk[e].lines) :
            \A r : r.key = k => (r \in UpToOf(disk, d, n) \ Outside
                                   <=> r \in UpToOf(disk, e, m) \ skipped)
      BY <1>1, <3>1, BeforeRec DEF Written
    <3>5. PICK m \in 0 .. Len(disk[e].lines) :
            \A r : r.key = k => (r \in UpToOf(disk, d, n) \ Outside
                                   <=> r \in UpToOf(disk, e, m) \ skipped)
      BY <3>4
    <3>6. Shows(db, k, UpToOf(disk, e, m) \ skipped)
      BY <3>3, <3>5, ShowsLocal
    <3> QED
      BY <3>1, <3>6
  <2> QED
    BY <1>1, <2>1, <2>2
<1>11. (\A a \in Sound : Holds(conn, a))'
  BY <1>3, <1>8
<1>12. Garbled \in Stored' => HasCut'
  BY <1>1, <1>2 DEF Stored, HasCut
<1> QED
  BY <1>1, <1>3, <1>6, <1>7, <1>9, <1>10, <1>11, <1>12 DEF ViewInv, Appending, Written

-----------------------------------------------------------------------------
(* What the invariant says of the tables.                                  *)

\* Every step of Next, or none, keeps the invariant.
LEMMA ViewStep ==
  ASSUME DurableInv, ViewInv, [Next]_vars
  PROVE  ViewInv'
<1>1. CASE UNCHANGED vars
  <2>1. UNCHANGED <<disk, db, conn, pc, rec, buf, today, appends, opens, acked, skipped, damaged>>
    BY <1>1 DEF vars
  <2>2. /\ \A d : Lines(d)' = Lines(d) /\ RejectKeys(d)' = RejectKeys(d)
                                       /\ NextSeq(d)' = NextSeq(d)
        /\ Top' = Top /\ Stored' = Stored /\ Outside' = Outside /\ CutKeys' = CutKeys
        /\ HasCut' = HasCut /\ Sound' = Sound
    BY <2>1 DEF Lines, RejectKeys, NextSeq, Top, Stored, Outside, CutKeys, HasCut, Sound
  <2>3. /\ FilesInv' = FilesInv /\ HistInv' = HistInv /\ RejectsLast' = RejectsLast
        /\ (\A a \in Sound : Holds(conn, a))' = \A a \in Sound : Holds(conn, a)
    BY <2>1, <2>2 DEF FilesInv, HistInv, RejectsLast
  <2>4. ConnInv' = ConnInv /\ DbInv' = DbInv
    BY <2>1, <2>2 DEF ConnInv, DbInv
  <2>5. RecInv' = RecInv /\ WrittenInv' = WrittenInv
    BY <2>1, <2>2 DEF RecInv, WrittenInv
  <2> QED
    BY <2>1, <2>2, <2>3, <2>4, <2>5 DEF ViewInv
<1>2. CASE Next
  BY <1>2, BeginView, WriteLineView, WriteShortView, FsyncView, CommitView, RaisedView,
     OpeningView, RebuildView, NewDayView, StopView DEF Next
<1> QED
  BY <1>1, <1>2

\* The invariant of the tables: the files hold, in an order in which they may be
\* replayed, numbered records, and the tables show those that were upserted.
THEOREM ViewInvariant == Spec => [](DurableInv /\ ViewInv)
<1>1. Init => DurableInv /\ ViewInv
  BY DurableInit, ViewInit
<1>2. DurableInv /\ ViewInv /\ [Next]_vars => DurableInv' /\ ViewInv'
  BY DurableStep, ViewStep
<1> QED
  BY <1>1, <1>2, PTL DEF Spec

\* What an append has returned for is what the engine reads, or something newer of
\* the same key, whatever was appended, lost, repaired and replayed in between; and
\* a reject keeps the row that its id was counted for.
THEOREM AckedIsVisible == Spec => []AckedVisible
<1>1. ViewInv => AckedVisible
  BY DEF ViewInv, AckedVisible, Holds, Running
<1> QED
  BY <1>1, ViewInvariant, PTL

\* A row that shows some lines is the row that replaying them gives.
LEMMA RowsSame ==
  ASSUME FilesInv, pc # "rewrite", NEW W, NEW n \in 0 .. Len(AllLines),
         NEW table, table = RowsAfter(AllLines, W)[n],
         NEW S, S = FirstOf(AllLines, n), S \subseteq Stored,
         NEW rows, NEW k \in DOMAIN rows, k # Garbled.key, Shows(rows, k, S \ W)
  PROVE  k \in DOMAIN table /\ rows[k] = table[k]
<1>1. TableShows(table, S, W)
  <2>1. PICK s : s = AllLines
    OBVIOUS
  <2>2. PICK all : all = RowsAfter(s, W)
    OBVIOUS
  <2>3. Replayable(s)
    BY <2>1, AllLinesAre
  <2>4. TableShows(all[n], FirstOf(s, n), W)
    BY <2>1, <2>2, <2>3, RowsShow
  <2> QED
    BY <2>1, <2>2, <2>4
<1>2. Shows(table, k, S \ W)
  BY <1>1 DEF TableShows
<1>3. \A r \in S \ W : r.key = k => Num(r) \in Nat
  BY StoredLines
<1> QED
  BY <1>2, <1>3, ShowsUnique

\* Rows that show the same lines are the same, whoever computed them.
LEMMA ViewReplayed == DurableInv /\ ViewInv => ViewIsReplay
<1> SUFFICES ASSUME DurableInv, ViewInv PROVE ViewIsReplay
  OBVIOUS
<1>1. JTypeOK /\ FilesInv
  BY DEF DurableInv, ViewInv
<1>2. ASSUME pc = "idle", skipped = {} PROVE conn = Replayed(AllLines)
  <2>1. Garbled \notin Stored /\ ConnInv /\ Outside = {} /\ CutKeys = {}
    BY <1>2 DEF ViewInv, Running, HasCut, Outside, CutKeys, Written
  <2>2. Replayable(AllLines) /\ Range(AllLines) = Stored
    BY <1>1, <1>2, AllLinesAre
  <2>3. Len(AllLines) \in 0 .. Len(AllLines) /\ FirstOf(AllLines, Len(AllLines)) = Stored
    BY <2>2 DEF Replayable, FirstOf, Range
  <2> DEFINE table == RowsAfter(AllLines, {})[Len(AllLines)]
  <2>4. TableShows(table, Stored, {})
    <3>1. PICK s : s = AllLines
      OBVIOUS
    <3>2. PICK none : none = {}
      OBVIOUS
    <3>3. PICK all : all = RowsAfter(s, none)
      OBVIOUS
    <3>4. TableShows(all[Len(s)], FirstOf(s, Len(s)), none)
      BY <2>2, <2>3, <3>1, <3>3, RowsShow
    <3> QED
      BY <2>3, <3>1, <3>2, <3>3, <3>4
  <2> HIDE DEF table
  <2>5. ASSUME NEW k, k # Garbled.key
        PROVE  (k \in DOMAIN conn <=> k \in DOMAIN table)
               /\ (k \in DOMAIN conn => conn[k] = table[k])
    <3>1. Shows(conn, k, Stored)
      <4>1. Shows(conn, k, Stored \ Outside)
        BY <2>1, <2>5 DEF ConnInv
      <4>2. Stored \ Outside = Stored
        BY <2>1
      <4> QED
        BY <4>1, <4>2
    <3>2. Shows(table, k, Stored)
      <4>1. Shows(table, k, Stored \ {})
        BY <2>4, <2>5 DEF TableShows
      <4> QED
        BY <4>1
    <3>3. \A r \in Stored : r.key = k => Num(r) \in Nat
      BY <1>1, <1>2, <2>1, StoredLines
    <3> QED
      BY <3>1, <3>2, <3>3, ShowsUnique
  <2>6. Garbled.key \notin DOMAIN conn
    BY <2>1 DEF ConnInv, IsKey, Garbled, Record, Key
  <2>7. Garbled.key \notin DOMAIN table
    <3>1. \A r \in Stored : IsRecord(r)
      BY <1>1, <1>2, <2>1, StoredLines
    <3> QED
      BY <2>4, <3>1, RecordFacts DEF TableShows
  <2>8. DOMAIN conn = DOMAIN table /\ \A k \in DOMAIN conn : conn[k] = table[k]
    BY <2>5, <2>6, <2>7
  <2>9. conn = [k \in DOMAIN conn |-> conn[k]] /\ table = [k \in DOMAIN table |-> table[k]]
    BY <2>1, <2>4 DEF ConnInv, TableShows, IsTable
  <2>10. conn = table
    BY <2>8, <2>9
  <2> QED
    BY <2>10 DEF table, Replayed
<1>3. ASSUME pc \notin {"down", "repair", "rewrite"}, NEW k \in DOMAIN db \ CutKeys
      PROVE  \E n \in DOMAIN RowsAfter(AllLines, skipped) :
               /\ k \in DOMAIN RowsAfter(AllLines, skipped)[n]
               /\ db[k] = RowsAfter(AllLines, skipped)[n][k]
  <2>1. pc \in Running /\ DbInv
    BY <1>1, <1>3 DEF ViewInv, JTypeOK, Running
  <2>2. k # Garbled.key
    BY <1>3, <2>1 DEF DbInv
  <2>3. PICK d \in Days : \E n \in 0 .. Len(disk[d].lines) :
          Shows(db, k, UpToOf(disk, d, n) \ Outside)
    BY <1>3, <2>1 DEF DbInv
  <2>4. PICK n \in 0 .. Len(disk[d].lines) : Shows(db, k, UpToOf(disk, d, n) \ Outside)
    BY <2>3
  <2>5. \E e \in Days : \E m \in 0 .. Len(disk[e].lines) :
          Shows(db, k, UpToOf(disk, e, m) \ skipped)
    <3>1. CASE pc \in Written
      <4>1. PICK e \in Days : \E m \in 0 .. Len(disk[e].lines) :
              \A r : r.key = k => (r \in UpToOf(disk, d, n) \ Outside
                                     <=> r \in UpToOf(disk, e, m) \ skipped)
        BY <1>3, <2>2, <3>1, BeforeRec
      <4>2. PICK m \in 0 .. Len(disk[e].lines) :
              \A r : r.key = k => (r \in UpToOf(disk, d, n) \ Outside
                                     <=> r \in UpToOf(disk, e, m) \ skipped)
        BY <4>1
      <4>3. Shows(db, k, UpToOf(disk, e, m) \ skipped)
        BY <2>4, <4>2, ShowsLocal
      <4> QED
        BY <4>3
    <3>2. CASE pc \notin Written
      <4>1. Outside = skipped
        BY <3>2 DEF Outside
      <4> QED
        BY <2>4, <4>1
    <3> QED
      BY <3>1, <3>2
  <2>6. PICK e \in Days : \E m \in 0 .. Len(disk[e].lines) :
          Shows(db, k, UpToOf(disk, e, m) \ skipped)
    BY <2>5
  <2>7. PICK m \in 0 .. Len(disk[e].lines) : Shows(db, k, UpToOf(disk, e, m) \ skipped)
    BY <2>6
  <2>8. PICK p \in 0 .. Len(AllLines) : FirstOf(AllLines, p) = UpToOf(disk, e, m)
    BY <1>1, <1>3, AllLinesAre
  <2>9. UpToOf(disk, e, m) \subseteq Stored
    BY <1>1, UpToStored
  <2>10. /\ k \in DOMAIN RowsAfter(AllLines, skipped)[p]
         /\ db[k] = RowsAfter(AllLines, skipped)[p][k]
    <3>1. PICK S : S = UpToOf(disk, e, m)
      OBVIOUS
    <3>2. PICK W : W = skipped
      OBVIOUS
    <3>3. PICK rows : rows = db
      OBVIOUS
    <3>4. PICK table : table = RowsAfter(AllLines, W)[p]
      OBVIOUS
    <3>5. S = FirstOf(AllLines, p) /\ S \subseteq Stored /\ Shows(rows, k, S \ W)
          /\ pc # "rewrite" /\ k \in DOMAIN rows
      BY <1>3, <2>7, <2>8, <2>9, <3>1, <3>2, <3>3
    <3>6. k \in DOMAIN table /\ rows[k] = table[k]
      BY <1>1, <2>2, <3>4, <3>5, RowsSame
    <3> QED
      BY <3>2, <3>3, <3>4, <3>6
  <2>11. p \in DOMAIN RowsAfter(AllLines, skipped)
    <3>1. PICK s : s = AllLines
      OBVIOUS
    <3>2. Len(s) \in Nat
      BY <1>1, <1>3, <3>1, AllLinesAre DEF Replayable
    <3>3. PICK all : all = RowsAfter(s, skipped)
      OBVIOUS
    <3>4. DOMAIN all = 0 .. Len(s)
      BY <3>2, <3>3, RowsAfterEach
    <3> QED
      BY <2>8, <3>1, <3>3, <3>4
  <2> QED
    BY <2>10, <2>11
<1> QED
  BY <1>2, <1>3 DEF ViewIsReplay

\* While the process runs and every upsert has succeeded its tables are what the
\* files would give, replayed day by day; and what is committed of a key is, always,
\* what some prefix of the lines says: a restart changes nothing, and SQLite is
\* never ahead of the files.
THEOREM TablesAreReplay == Spec => []ViewIsReplay
  BY ViewReplayed, ViewInvariant, PTL

=============================================================================
