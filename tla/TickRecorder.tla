---------------------------- MODULE TickRecorder ----------------------------
(***************************************************************************)
(* The tick recorder (tick_recorder.py): the stream's thread puts rows in  *)
(* a bounded queue, a writer thread moves them by trading day to CSV files *)
(* that it compresses at the rollover, and the process may end at any      *)
(* step.  One kind of rows: boards and trades have files of their own and  *)
(* are treated alike.  A row is a pair <<trading day, number>>.            *)
(***************************************************************************)
EXTENDS Naturals, Sequences

CONSTANTS
    MaxDays,     \* bound: trading days
    MaxRows,     \* bound: rows recorded
    MaxRestarts, \* bound: times the process ends and starts again
    QueueMax,    \* _QUEUE_MAXSIZE
    Retention,   \* _retention_days
    Overlap      \* whether a day may end while the writer starts and the
                 \* stream, started before it, has queued rows

ASSUME TickAssumption ==
    /\ {MaxDays, MaxRows, QueueMax} \subseteq Nat \ {0}
    /\ {MaxRestarts, Retention} \subseteq Nat
    /\ Overlap \in BOOLEAN

Days == 1..MaxDays
Rows == Days \X (1..MaxRows)
NoDay == 0

VARIABLES
    today,       \* _trading_day_label of the clock
    queue,       \* _queue
    buffer,      \* rows taken from the queue and not written yet
    label,       \* the day of the open file, NoDay before the first
    open,        \* whether the file could be opened
    writer,      \* what the writer thread does
    old,         \* the day whose file is being compressed
    asOf,        \* today_label of _gzip_stale_files
    stop,        \* _stop_event
    diskStopped, \* _disk_stopped
    csv, gz,     \* the rows in the files of each day; {} also when absent
    kept,        \* history: rows ever written to a file
    recorded,    \* rows recorded so far
    restarts     \* ends of the process so far

tickVars == <<today, queue, buffer, label, open, writer, old, asOf, stop, diskStopped,
              csv, gz, kept, recorded, restarts>>
fileVars == <<csv, gz, kept>>
clockVars == <<today, asOf, recorded, restarts>>

TickTypeOK ==
    /\ today \in Days
    /\ queue \in Seq(Rows) /\ Len(queue) <= QueueMax
    /\ buffer \subseteq Rows
    /\ label \in Days \cup {NoDay} /\ old \in Days \cup {NoDay} /\ asOf \in Days
    /\ {open, stop, diskStopped} \subseteq BOOLEAN
    /\ writer \in {"start", "stale", "staleUnlink", "check", "loop", "copy", "unlink", "open", "over"}
    /\ csv \in [Days -> SUBSET Rows] /\ gz \in [Days -> SUBSET Rows]
    /\ kept \subseteq Rows
    /\ recorded \in 0..MaxRows /\ restarts \in 0..MaxRestarts

TickInit ==
    /\ today = 1 /\ asOf = 1
    /\ queue = <<>> /\ buffer = {}
    /\ label = NoDay /\ open = FALSE /\ old = NoDay
    /\ writer = "start"
    /\ stop = FALSE /\ diskStopped = FALSE
    /\ csv = [d \in Days |-> {}] /\ gz = [d \in Days |-> {}]
    /\ kept = {}
    /\ recorded = 0 /\ restarts = 0

----------------------------------------------------------------------------
(* The thread of the public stream, the main thread and the clock.         *)

\* Mutant: the queue has no limit.
Record_Unlimited ==
    /\ recorded < MaxRows
    /\ recorded' = recorded + 1
    /\ queue' = IF diskStopped \/ stop THEN queue ELSE Append(queue, <<today, recorded'>>)
    /\ UNCHANGED <<today, asOf, buffer, label, open, writer, old, stop, diskStopped,
                   fileVars, restarts>>

\* _enqueue: nothing after a stop, and a full queue loses the row.
Record ==
    /\ recorded < MaxRows
    /\ recorded' = recorded + 1
    /\ queue' = IF diskStopped \/ stop \/ Len(queue) = QueueMax
                  THEN queue ELSE Append(queue, <<today, recorded'>>)
    /\ UNCHANGED <<today, asOf, buffer, label, open, writer, old, stop, diskStopped,
                   fileVars, restarts>>

NextDay ==
    /\ today < MaxDays
    /\ Overlap \/ writer # "start" \/ queue = <<>>
    /\ today' = today + 1
    /\ UNCHANGED <<asOf, queue, buffer, label, open, writer, old, stop, diskStopped,
                   fileVars, recorded, restarts>>

\* stop() at the shutdown.
StopRecorder ==
    /\ ~stop
    /\ stop' = TRUE
    /\ UNCHANGED <<queue, buffer, label, open, writer, old, diskStopped,
                   fileVars, clockVars>>

\* The process ends, at any step or after the shutdown, and another starts.
\* Its recorder has only the files; a copy in progress leaves a partial .gz.
Restarted ==
    /\ restarts < MaxRestarts
    /\ restarts' = restarts + 1
    /\ queue' = <<>> /\ buffer' = {}
    /\ label' = NoDay /\ open' = FALSE /\ old' = NoDay
    /\ writer' = "start"
    /\ stop' = FALSE /\ diskStopped' = FALSE
    /\ gz' \in {gz} \cup {[gz EXCEPT ![d] = {}] : d \in {old} \cap Days}
    /\ gz' # gz => writer \in {"staleUnlink", "unlink"} /\ csv[old] # {}
    /\ UNCHANGED <<today, asOf, csv, kept, recorded>>

----------------------------------------------------------------------------
(* The writer thread.                                                      *)

\* Files older than the retention are deleted.
Pruned(f) == [d \in Days |-> IF d + Retention < today THEN {} ELSE f[d]]

\* _check_disk: low space ends the writer for the rest of the process.
DiskCheck(next) ==
    /\ diskStopped' \in BOOLEAN
    /\ writer' = IF diskStopped' THEN "over" ELSE next

\* Mutant: the .csv is deleted even if the copy failed.
Copy_Unchecked(d) ==
    \E whole \in BOOLEAN :
        /\ gz' = [gz EXCEPT ![d] = IF whole THEN csv[d] ELSE {}]
        /\ old' = d

\* The first half of _gzip_file: the copy, which may fail on the way.
Copy(d) ==
    \E whole \in BOOLEAN :
        /\ gz' = [gz EXCEPT ![d] = IF whole THEN csv[d] ELSE {}]
        /\ old' = IF whole THEN d ELSE NoDay

\* The second half: the .csv goes once it is compressed.
Unlinked == IF old = NoDay THEN csv ELSE [csv EXCEPT ![old] = {}]

\* _gzip_stale_files looks at the clock once ...
StaleBegins ==
    /\ writer = "start"
    /\ asOf' = today
    /\ writer' = "stale"
    /\ UNCHANGED <<today, queue, buffer, label, open, old, stop, diskStopped,
                   fileVars, recorded, restarts>>

\* ... and compresses every CSV of another day, then _prune_old_files.
StaleCopy ==
    /\ writer = "stale"
    /\ \E d \in Days \ {asOf} :
         /\ csv[d] # {}
         /\ Copy(d)
    /\ writer' = "staleUnlink"
    /\ UNCHANGED <<queue, buffer, label, open, stop, diskStopped, csv, kept, clockVars>>

StaleUnlink ==
    /\ writer = "staleUnlink"
    /\ csv' = Unlinked
    /\ old' = NoDay
    /\ writer' \in {"stale", "check"}
    /\ UNCHANGED <<queue, buffer, label, open, stop, diskStopped, gz, kept, clockVars>>

StaleDone ==
    /\ writer \in {"stale", "check"}
    /\ writer = "stale" => \A d \in Days \ {asOf} : csv[d] = {}
    /\ csv' = Pruned(csv) /\ gz' = Pruned(gz)
    /\ DiskCheck("loop")
    /\ UNCHANGED <<queue, buffer, label, open, old, stop, kept, clockVars>>

\* _flush_kind: what the file cannot take is lost.
Flush ==
    /\ buffer' = {}
    /\ \E written \in {{}, IF open THEN buffer ELSE {}} :
         /\ csv' = IF label = NoDay THEN csv ELSE [csv EXCEPT ![label] = @ \cup written]
         /\ kept' = kept \cup written

\* A row of the open day joins the buffer.
TakeRow ==
    /\ writer = "loop"
    /\ queue # <<>>
    /\ Head(queue)[1] = label
    /\ buffer' = buffer \cup {Head(queue)}
    /\ queue' = Tail(queue)
    /\ UNCHANGED <<label, open, writer, old, stop, diskStopped, fileVars, clockVars>>

\* A row of another day: the rest of the old day is written and its file
\* compressed before the file of the new day is opened.
RollFlush ==
    /\ writer = "loop"
    /\ queue # <<>>
    /\ Head(queue)[1] # label
    /\ Flush
    /\ writer' = IF label = NoDay THEN "open" ELSE "copy"
    /\ UNCHANGED <<queue, label, open, old, stop, diskStopped, gz, clockVars>>

RollCopy ==
    /\ writer = "copy"
    /\ IF csv[label] = {} THEN UNCHANGED <<gz, old>> ELSE Copy(label)
    /\ writer' = "unlink"
    /\ UNCHANGED <<queue, buffer, label, open, stop, diskStopped, csv, kept, clockVars>>

RollUnlink ==
    /\ writer = "unlink"
    /\ csv' = Pruned(Unlinked) /\ gz' = Pruned(gz)
    /\ old' = NoDay
    /\ writer' = "open"
    /\ UNCHANGED <<queue, buffer, label, open, stop, diskStopped, kept, clockVars>>

RollOpen ==
    /\ writer = "open"
    /\ open' \in BOOLEAN
    /\ label' = Head(queue)[1]
    /\ buffer' = {Head(queue)}
    /\ queue' = Tail(queue)
    /\ writer' = "loop"
    /\ UNCHANGED <<old, stop, diskStopped, fileVars, clockVars>>

\* The periodic flush and the check of the free space after it.
PeriodicFlush ==
    /\ writer = "loop"
    /\ buffer # {}
    /\ Flush
    /\ DiskCheck("loop")
    /\ UNCHANGED <<queue, label, open, old, stop, gz, clockVars>>

\* The loop sees the stop event and writes its buffer; the queue is lost.
LastFlush ==
    /\ writer = "loop"
    /\ stop
    /\ Flush
    /\ writer' = "over"
    /\ UNCHANGED <<queue, label, open, old, stop, diskStopped, gz, clockVars>>

TickNext ==
    \/ Record \/ NextDay \/ StopRecorder \/ Restarted
    \/ StaleBegins \/ StaleCopy \/ StaleUnlink \/ StaleDone
    \/ TakeRow \/ RollFlush \/ RollCopy \/ RollUnlink \/ RollOpen
    \/ PeriodicFlush \/ LastFlush

TickSpec == TickInit /\ [][TickNext]_tickVars

----------------------------------------------------------------------------
(* Properties.                                                             *)

\* A row that was written stays in the files of its own day for the time of
\* the retention, wherever the rollover and the start are interrupted
\* (tick_recorder.py:269, _gzip_file).
FlushedKept ==
    \A r \in kept : r[1] + Retention >= today => r \in csv[r[1]] \cup gz[r[1]]
=============================================================================
