------------------------------- MODULE Journal ------------------------------
(***************************************************************************)
(* The journal of src/src/journal/journal.py: daily JSONL files, the       *)
(* SQLite tables derived from them, and the process that appends, dies,    *)
(* starts again, repairs partial tails and rebuilds the tables.            *)
(*                                                                         *)
(* One step is one file or database operation.  A record is its key, the   *)
(* day whose file it goes to, and a patch: the fields it sets.  The value  *)
(* of a field is the number of the append that wrote it, which tells any   *)
(* two records apart and says which came later.                            *)
(***************************************************************************)
EXTENDS Integers, Sequences, FiniteSets, Functions

CONSTANTS
  MaxDay,       \* bound: trading days
  MaxAppends,   \* bound: appends that are begun
  MaxOpens      \* bound: how often a process opens the journal

ASSUME JournalAssumption ==
  MaxDay \in Nat \ {0} /\ MaxAppends \in Nat /\ MaxOpens \in Nat

VARIABLES
  disk,     \* the files: complete lines, whether a partial line follows, how
            \* many lines an fsync has covered, and how many a repair has
            \* rewritten since the last one
  db,       \* the committed tables, a row per key
  conn,     \* the tables as the process's open transaction sees them
  pc,       \* where the process is
  rec,      \* the record being appended
  buf,      \* the repair's copy of a file's complete lines, and its day
  today,    \* the wall clock's day
  appends,  \* how many appends were begun
  opens,    \* how many times the journal was opened
  acked,    \* history: records whose append has returned
  skipped,  \* history: records on which the files and the tables of this
            \* process differ: an upsert failed, or a line was cut
  damaged   \* history: records whose line a short write cut, or that follow
            \* such a line on one line, or that a crash took while they were being rewritten

vars == <<disk, db, conn, pc, rec, buf, today, appends, opens, acked, skipped, damaged>>

-----------------------------------------------------------------------------
(* Records, rows and tables.                                               *)

Days == 1 .. MaxDay

\* health is kept as reject is; an arm_leg is in the file only.
Types == {"trade", "reject", "day_state", "intent"}

Key(type, a, b) == [type |-> type, id |-> <<a, b>>]

Record(key, day, patch, version) ==
  [key |-> key, day |-> day, patch |-> patch, version |-> version]

Garbled == Record(Key("trade", 0, 0), 0, <<>>, 0)  \* a line json.loads refuses
NoRecord == Garbled

\* The function f, and g where f says nothing.
Overlay(f, g) ==
  [x \in DOMAIN f \union DOMAIN g |-> IF x \in DOMAIN f THEN f[x] ELSE g[x]]

\* A v2 trade has no model_vs_real block; migration gives it an empty one.
Migrated(r) ==
  IF r.version = 2 /\ r.key.type = "trade" /\ "model_vs_real" \notin DOMAIN r.patch
  THEN [r EXCEPT !.version = 3, !.patch = Overlay(@, [f \in {"model_vs_real"} |-> 0])]
  ELSE [r EXCEPT !.version = 3]

\* Mutant: a later stage of a trade replaces the earlier ones.
UpsertReplaces(rows, record) ==
  Overlay([k \in {record.key} |-> Migrated(record).patch], rows)

\* Trades are merged field by field, everything else is replaced.
Upserted(rows, record) ==
  LET r    == Migrated(record)
      prev == IF r.key.type = "trade" /\ r.key \in DOMAIN rows
              THEN rows[r.key] ELSE <<>>
  IN  Overlay([k \in {r.key} |-> Overlay(r.patch, prev)], rows)

\* The tables after so many of the lines, some records left out.
RowsAfter(lines, without) ==
  LET after[n \in 0 .. Len(lines)] ==
        IF n = 0 THEN <<>>
        ELSE IF lines[n] \in without THEN after[n - 1]
        ELSE Upserted(after[n - 1], lines[n])
  IN  after

Replayed(lines) == RowsAfter(lines, {})[Len(lines)]

\* Mutant: the newest file is replayed first.
NewestFileFirst ==
  LET upto[d \in 0 .. MaxDay] ==
        IF d = 0 THEN <<>> ELSE disk[d].lines \o upto[d - 1]
  IN  upto[MaxDay]

\* The files' lines, file by file in the order of their names.
AllLines ==
  LET upto[d \in 0 .. MaxDay] ==
        IF d = 0 THEN <<>> ELSE upto[d - 1] \o disk[d].lines
  IN  upto[MaxDay]

Stored == UNION {Range(disk[d].lines) : d \in Days}

\* The number of the record id, counted from the rows with that time stamp.
NextSeq(stamp) ==
  Cardinality({k \in DOMAIN conn : k.type = "reject" /\ k.id[1] = stamp})

-----------------------------------------------------------------------------
(* What callers append.  Time stamps are the clock's, except that a day    *)
(* state carries its day and a trade the bar's, which may be the day       *)
(* before.  Several records may carry one time stamp.                      *)

Recent == {today, today - 1} \cap Days

NewRecord(key, day, patch) == Record(key, day, patch, 3)

\* Days of whose bars a trade may be entered (again, after a crash): a trade is
\* not entered once it has been updated.
Unmanaged ==
  {d \in Recent : Key("trade", 2, d) \in DOMAIN conn =>
                   DOMAIN conn[Key("trade", 2, d)] = {"entry"}}

Requests ==
  LET n == appends + 1 IN
  {NewRecord(Key("trade", 2, d), d, [f \in {"entry"} |-> n]) : d \in Unmanaged}
  \union {NewRecord(Key("day_state", d, 0), d, [f \in {"body"} |-> n]) : d \in Recent}
  \union {NewRecord(Key("intent", 1, 0), today, [f \in {"body"} |-> n]),
          NewRecord(Key("reject", today, NextSeq(today)), today, [f \in {"body"} |-> n])}

\* update_trade: the trade must be known.
TradeUpdates ==
  {NewRecord(k, today, [f \in {"outcome", "model_vs_real"} |-> appends + 1]) :
      k \in {k \in DOMAIN conn : k.type = "trade"}}

Begin(r) ==
  /\ pc = "idle" /\ appends < MaxAppends
  /\ appends' = appends + 1
  /\ rec' = r
  /\ pc' = "write"
  /\ UNCHANGED <<disk, db, conn, buf, today, opens, acked, skipped, damaged>>

AppendRecord == \E r \in Requests : Begin(r)
UpdateTrade  == \E r \in TradeUpdates : Begin(r)

\* A write of this process was short.
HasCut == skipped \intersect damaged # {}

\* A line that follows a partial one is one line with it.
WriteLine ==
  /\ pc = "write"
  /\ disk' = [disk EXCEPT
                ![rec.day].lines = Append(@, IF disk[rec.day].tail THEN Garbled ELSE rec),
                ![rec.day].tail = FALSE]
  /\ pc' = "sync"
  /\ skipped' = IF disk[rec.day].tail THEN skipped \union {rec} ELSE skipped
  /\ damaged' = IF disk[rec.day].tail /\ HasCut THEN damaged \union {rec} ELSE damaged
  /\ UNCHANGED <<db, conn, rec, buf, today, appends, opens, acked>>

\* The disk is full: os.write writes part of the line and returns its length,
\* which is not looked at.
WriteShort ==
  /\ pc = "write"
  /\ disk' = [disk EXCEPT ![rec.day].tail = TRUE]
  /\ pc' = "sync"
  /\ skipped' = skipped \union {rec} /\ damaged' = damaged \union {rec}
  /\ UNCHANGED <<db, conn, rec, buf, today, appends, opens, acked>>

\* Mutant: the line is left to the system to write out.
FsyncForgotten ==
  /\ pc = "sync" /\ pc' = "upsert"
  /\ UNCHANGED <<disk, db, conn, rec, buf, today, appends, opens, acked, skipped, damaged>>

Fsync ==
  /\ pc = "sync"
  /\ disk' = [disk EXCEPT ![rec.day].synced = Len(disk[rec.day].lines),
                        ![rec.day].redone = 0]
  /\ pc' = "upsert"
  /\ UNCHANGED <<db, conn, rec, buf, today, appends, opens, acked, skipped, damaged>>

\* _upsert and the commit, which takes along what earlier appends left in the
\* transaction; append returns.
UpsertCommit ==
  /\ pc = "upsert"
  /\ conn' = Upserted(conn, rec)
  /\ db' = conn'
  /\ acked' = acked \union {rec}
  /\ rec' = NoRecord
  /\ pc' = "idle"
  /\ UNCHANGED <<disk, buf, today, appends, opens, skipped, damaged>>

\* An exception out of append; the loop logs it and goes on.
Abandon ==
  /\ rec' = NoRecord
  /\ pc' = "idle"
  /\ UNCHANGED <<disk, db, buf, today, appends, opens, acked, damaged>>

WriteRaises == pc = "write" /\ Abandon /\ UNCHANGED <<conn, skipped>>

FsyncOrUpsertRaises ==
  /\ pc \in {"sync", "upsert"}
  /\ skipped' = skipped \union {rec} /\ conn' = conn
  /\ Abandon

\* The database is locked by a reader: the row stays in the transaction.
CommitRaises ==
  /\ pc = "upsert"
  /\ conn' = Upserted(conn, rec) /\ skipped' = skipped
  /\ Abandon

-----------------------------------------------------------------------------
(* Opening: Journal.__init__.                                              *)

Empty == [lines |-> <<>>, tail |-> FALSE, synced |-> 0, redone |-> 0]
NoBuf == [day |-> 0, lines |-> <<>>]

Open ==
  /\ pc = "down" /\ opens < MaxOpens
  /\ opens' = opens + 1
  /\ pc' = "repair"
  /\ UNCHANGED <<disk, db, conn, rec, buf, today, appends, acked, skipped, damaged>>

\* open(path, "wb") empties the file whose complete lines were read.
TruncateTail(d) ==
  /\ pc = "repair" /\ disk[d].tail
  /\ buf' = [day |-> d, lines |-> disk[d].lines]
  /\ disk' = [disk EXCEPT ![d] = Empty]
  /\ pc' = "rewrite"
  /\ UNCHANGED <<db, conn, rec, today, appends, opens, acked, skipped, damaged>>

\* Mutant: the last complete line goes with the partial one.
RewriteCutsLine ==
  /\ pc = "rewrite"
  /\ LET kept == SubSeq(buf.lines, 1, Len(buf.lines) - 1) IN
     disk' = [disk EXCEPT ![buf.day] =
                [Empty EXCEPT !.lines = kept, !.redone = Len(kept)]]
  /\ buf' = NoBuf
  /\ pc' = "repair"
  /\ UNCHANGED <<db, conn, rec, today, appends, opens, acked, skipped, damaged>>

\* The rewritten file is not synced.
RewriteFile ==
  /\ pc = "rewrite"
  /\ disk' = [disk EXCEPT ![buf.day] =
                [Empty EXCEPT !.lines = buf.lines, !.redone = Len(buf.lines)]]
  /\ buf' = NoBuf
  /\ pc' = "repair"
  /\ UNCHANGED <<db, conn, rec, today, appends, opens, acked, skipped, damaged>>

\* One transaction: the tables are emptied and every line is replayed.
Rebuild ==
  /\ pc = "repair" /\ ~\E d \in Days : disk[d].tail
  /\ Garbled \notin Stored
  /\ conn' = Replayed(AllLines)
  /\ db' = conn'
  /\ skipped' = {}
  /\ pc' = "idle"
  /\ UNCHANGED <<disk, rec, buf, today, appends, opens, acked, damaged>>

\* json.loads raises: the constructor fails and the process ends.
RebuildFails ==
  /\ pc = "repair" /\ ~\E d \in Days : disk[d].tail
  /\ Garbled \in Stored
  /\ pc' = "down"
  /\ UNCHANGED <<disk, db, conn, rec, buf, today, appends, opens, acked, skipped, damaged>>

-----------------------------------------------------------------------------
(* The world.                                                              *)

\* Only a process that begins an append looks at the clock.
NewDay ==
  /\ pc = "idle" /\ today < MaxDay /\ today' = today + 1
  /\ UNCHANGED <<disk, db, conn, pc, rec, buf, appends, opens, acked, skipped, damaged>>

Lost ==
  /\ conn' = <<>> /\ rec' = NoRecord /\ buf' = NoBuf /\ skipped' = {}
  /\ pc' = "down"
  /\ UNCHANGED <<db, today, appends, opens, acked>>

\* The process dies.  The system keeps what it wrote, of the line that was
\* being written perhaps a part; the repair's copy of a file is gone.
Crash ==
  /\ pc # "down"
  /\ \/ disk' = disk
     \/ pc = "write" /\ disk' = [disk EXCEPT ![rec.day].tail = TRUE]
  /\ damaged' = damaged \union Range(buf.lines)
  /\ Lost

\* The machine stops: what no fsync covered may be gone from its end on.
PowerLoss ==
  /\ pc # "down"
  /\ \E keep \in [Days -> 0 .. MaxAppends + 1], part \in [Days -> BOOLEAN] :
       /\ \A d \in Days :
            /\ keep[d] \in disk[d].synced .. Len(disk[d].lines)
            /\ part[d] => keep[d] < Len(disk[d].lines) \/ disk[d].tail
       /\ disk' = [d \in Days |->
                     [Empty EXCEPT !.lines = SubSeq(disk[d].lines, 1, keep[d]),
                                   !.tail = part[d], !.synced = keep[d]]]
       /\ damaged' = damaged \union Range(buf.lines) \union
            UNION {{disk[d].lines[i] : i \in keep[d] + 1 .. disk[d].redone} : d \in Days}
  /\ Lost

-----------------------------------------------------------------------------
(* A v2 trade was recorded by an earlier release on the first day.         *)

OldTrade == Record(Key("trade", 1, 1), 1, [f \in {"entry"} |-> 0], 2)

Init ==
  /\ disk = [d \in Days |-> IF d = 1
               THEN [Empty EXCEPT !.lines = <<OldTrade>>, !.synced = 1] ELSE Empty]
  /\ db = <<>> /\ conn = <<>>
  /\ pc = "down" /\ rec = NoRecord /\ buf = NoBuf
  /\ today = 1 /\ appends = 0 /\ opens = 0
  /\ acked = {OldTrade} /\ skipped = {} /\ damaged = {}

Next ==
  \/ AppendRecord \/ UpdateTrade
  \/ WriteLine \/ WriteShort \/ Fsync \/ UpsertCommit
  \/ WriteRaises \/ FsyncOrUpsertRaises \/ CommitRaises
  \/ Open \/ (\E d \in Days : TruncateTail(d)) \/ RewriteFile
  \/ Rebuild \/ RebuildFails
  \/ NewDay \/ Crash \/ PowerLoss

Spec == Init /\ [][Next]_vars

-----------------------------------------------------------------------------
(* Properties.                                                             *)

\* What the files hold, and what a repair holds of the file it has emptied.
Held == Stored \union Range(buf.lines)

\* The records that no cut write and no crash during a repair has hit.
Sound == acked \ damaged

\* A record whose append has returned is in the files for good: "if we cannot
\* durably record what we are about to do, we do not do it" (journal.py:9-10).
\* append syncs the line before it touches the database and returns.  The
\* exceptions are the two faults the code does not provide for: os.write being
\* short, and a repair that does not end; without them every line parses, too, as
\* no record is written behind a partial line that a crash left.
AckedDurable ==
  /\ Sound \subseteq Held
  /\ damaged = {} => Garbled \notin Held


\* While a process runs, and no upsert of it has failed, its tables are what
\* replaying the files would give: a restart changes nothing, although the
\* files are replayed day by day and not in the order of the appends.  What a
\* reader of the database (JournalReader) sees of a key is what some prefix of the
\* lines says, failed upserts and cut lines left out: SQLite is never ahead
\* of the files.
CutKeys == {r.key : r \in skipped \intersect damaged}

ViewIsReplay ==
  /\ pc = "idle" /\ skipped = {} => conn = Replayed(AllLines)
  /\ pc \notin {"down", "repair", "rewrite"} =>
       LET rows == RowsAfter(AllLines, skipped) IN
       \A k \in DOMAIN db \ CutKeys :
         \E n \in DOMAIN rows : k \in DOMAIN rows[n] /\ db[k] = rows[n][k]

\* What an append has returned for is what the engine reads, or something
\* newer of the same key: merging never loses a stage of a trade to another
\* one, and no restart brings an older intent or day state back.  A reject keeps
\* its own row: the id counted for it is never that of another one.
AckedVisible ==
  pc = "idle" => \A a \in Sound :
    /\ a.key \in DOMAIN conn
    /\ \A f \in DOMAIN a.patch :
         f \in DOMAIN conn[a.key] /\ conn[a.key][f] >= a.patch[f]
    /\ a.key.type = "reject" => conn[a.key] = a.patch

\* Until one of those two faults strikes, every step of the journal is a step
\* of the log that its docstring promises, or invisible to it.
Log == INSTANCE DurableLog WITH stored <- Held
LogImplemented ==
  Log!Init /\ [][damaged' = {} => [Log!Next]_<<Held, acked>>]_vars

=============================================================================
