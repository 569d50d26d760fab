-------------------------- MODULE TelemetryStorage --------------------------
(***************************************************************************)
(* The telemetry write path of internal/storage: the main loop that reads  *)
(* the input channel, the batch buffer it shares with the flush ticker,    *)
(* the two goroutines that empty that buffer into PostgreSQL, and the      *)
(* order in which the service is stopped.                                  *)
(*                                                                         *)
(* A telemetry point is a row [series, ts, id]: its series stands for      *)
(* device_id|key, ts is the millisecond timestamp and id the number of the *)
(* message that carried it, which stands for its value.  The counters of   *)
(* metrics.go are modelled as the sets of points they count.               *)
(***************************************************************************)
EXTENDS Naturals, Sequences, FiniteSets

CONSTANTS
    Series,             \* the device|key pairs
    Shapes,             \* the sets of series one telemetry message may carry
    BatchSize,          \* config.TelemetryBatchSize
    ChannelBufferSize,  \* config.ChannelBufferSize
    FlushTimer,         \* config.TelemetryFlushInterval > 0
    InsertMayFail,      \* the database may refuse a transaction
    StopMayTimeOut,     \* the 30 s waits of Stop may run out
    MaxTime,            \* bound on the millisecond clock
    MaxMsgs             \* bound on the number of messages

ASSUME StorageAssumption ==
    /\ Shapes \subseteq SUBSET Series
    /\ BatchSize \in Nat \ {0}
    /\ ChannelBufferSize \in Nat \ {0}
    /\ FlushTimer \in BOOLEAN
    /\ InsertMayFail \in BOOLEAN
    /\ StopMayTimeOut \in BOOLEAN
    /\ MaxTime \in Nat \ {0}
    /\ MaxMsgs \in Nat

VARIABLES
    now,        \* the clock, in milliseconds
    nextId,     \* number of the next message
    inputChan,  \* the channel between the uplink flows and the main loop
    buffer,     \* telemetryWriter.buffer
    pc,         \* what each flushing goroutine is doing
    hist,       \* historyData: rows of the batch a goroutine holds, still to insert
    cur,        \* currentData: the latest-value rows of that batch, still to insert
    draining,   \* the ticker goroutine is in flushRemaining
    history,    \* table telemetry_datas
    current,    \* table telemetry_current_datas
    received,   \* points handed to the writer
    duplicates, \* points counted by addTelemetryDuplicates
    written,    \* points counted by addTelemetryWritten
    failed,     \* points counted by addTelemetryFailed
    process,    \* "up", or "crashed" after a panic nobody recovers
    stop,       \* progress of StorageServiceWrapper.Stop
    timedOut    \* one of the waits of Stop ran out

chanVars  == <<now, nextId, inputChan>>
batchVars == <<buffer, pc, hist, cur, draining>>
dbVars    == <<history, current>>
countVars == <<received, duplicates, written, failed>>
stopVars  == <<process, stop, timedOut>>
vars      == <<chanVars, batchVars, dbVars, countVars, stopVars>>

Flushers == {"loop", "ticker"}  \* storage.run and telemetryWriter.run
Pcs      == {"select", "flush", "insert", "fallback", "exited"}
StopPcs  == {"running", "inputClosed", "cancelled", "loopSignalled",
             "writerSignalled", "stopped"}

Time    == 1..MaxTime
Row     == [series : Series, ts : Nat, id : Nat]
Message == [id : Nat, ts : Nat, series : SUBSET Series]

-----------------------------------------------------------------------------
(* Batches and tables.                                                     *)

RowsOf(m) == {[series |-> s, ts |-> m.ts, id |-> m.id] : s \in m.series}

Points(batch) == UNION {RowsOf(batch[i]) : i \in DOMAIN batch}

\* Same device_id, key and ts: the unique key of the history table.
SameKey(r, q) == r.series = q.series /\ r.ts = q.ts

\* Messages are numbered in arrival order, so the row deduplicateAndConvert
\* meets first is the one with the smallest id.
FirstOf(rows) == {r \in rows : \A q \in rows : SameKey(q, r) => r.id <= q.id}

UncountedRepeats(rows) == {}
RepeatsOf(rows) == rows \ FirstOf(rows)

EarliestOf(rows) ==
    {r \in rows : \A q \in rows : q.series = r.series => r.ts <= q.ts}
LatestOf(rows) ==
    {r \in rows : \A q \in rows : q.series = r.series => q.ts <= r.ts}

\* Mutants of the history insert: no conflict clause, DO UPDATE instead of
\* DO NOTHING, a conflict that drops the whole batch, a conflict on
\* (device_id, key) only.
InsertAll(table, rows) == table \cup rows
InsertReplace(table, rows) ==
    {h \in table : \A r \in rows : ~SameKey(h, r)} \cup rows
InsertNoneOnConflict(table, rows) ==
    IF \E h \in table, r \in rows : SameKey(h, r) THEN table ELSE table \cup rows
InsertIgnoreBySeries(table, rows) ==
    table \cup {r \in rows : \A h \in table : h.series # r.series}

\* INSERT ... ON CONFLICT (device_id, key, ts) DO NOTHING
InsertIgnore(table, rows) ==
    table \cup {r \in rows : \A h \in table : ~SameKey(h, r)}

\* INSERT ... ON CONFLICT (device_id, key) DO UPDATE
Upsert(table, rows) ==
    {c \in table : \A r \in rows : r.series # c.series} \cup rows

-----------------------------------------------------------------------------
Init ==
    /\ now = 1
    /\ nextId = 1
    /\ inputChan = <<>>
    /\ buffer = <<>>
    /\ pc = [f \in Flushers |->
               IF f = "ticker" /\ ~FlushTimer THEN "exited" ELSE "select"]
    /\ hist = [f \in Flushers |-> {}]
    /\ cur = [f \in Flushers |-> {}]
    /\ draining = FALSE
    /\ history = {}
    /\ current = {}
    /\ received = {}
    /\ duplicates = {}
    /\ written = {}
    /\ failed = {}
    /\ process = "up"
    /\ stop = "running"
    /\ timedOut = FALSE

\* time.Now().UnixMilli() moves on.
Tick ==
    /\ now < MaxTime
    /\ now' = now + 1
    /\ UNCHANGED <<nextId, inputChan, batchVars, dbVars, countVars, stopVars>>

UnboundedRoom == TRUE
HasRoom == Len(inputChan) < ChannelBufferSize

\* TelemetryUplink sends one message; it blocks while the channel is full.
Send(shape) ==
    /\ process = "up"
    /\ stop = "running"
    /\ nextId <= MaxMsgs
    /\ HasRoom
    /\ inputChan' = Append(inputChan, [id |-> nextId, ts |-> now, series |-> shape])
    /\ nextId' = nextId + 1
    /\ UNCHANGED <<now, batchVars, dbVars, countVars, stopVars>>

-----------------------------------------------------------------------------
(* The main loop: storage.run, handleMessage, telemetryWriter.write.       *)

\* The buffer is appended to and measured under bufferMu; flush takes the lock
\* again, so the ticker may empty the buffer in between.
LoopReceive ==
    /\ process = "up"
    /\ pc["loop"] = "select"
    /\ inputChan # <<>>
    /\ LET m == Head(inputChan) IN
         /\ received' = received \cup RowsOf(m)
         /\ buffer' = Append(buffer, m)
    /\ inputChan' = Tail(inputChan)
    /\ pc' = [pc EXCEPT !["loop"] =
                IF Len(buffer) + 1 >= BatchSize THEN "flush" ELSE "select"]
    /\ UNCHANGED <<now, nextId, hist, cur, draining, dbVars,
                   duplicates, written, failed, stopVars>>

\* The select of the main loop may also pick the closed channel (once it is
\* empty), the cancelled context or the closed stopCh.
LoopExit ==
    /\ process = "up"
    /\ pc["loop"] = "select"
    /\ \/ stop # "running" /\ inputChan = <<>>
       \/ stop \notin {"running", "inputClosed"}
    /\ pc' = [pc EXCEPT !["loop"] = "exited"]
    /\ UNCHANGED <<chanVars, buffer, hist, cur, draining, dbVars, countVars,
                   stopVars>>

-----------------------------------------------------------------------------
(* The ticker goroutine: telemetryWriter.run.                              *)

\* Once flushTicker.Stop has returned the ticker's channel stays empty.
TickerFires ==
    /\ process = "up"
    /\ pc["ticker"] = "select"
    /\ stop \notin {"writerSignalled", "stopped"}
    /\ pc' = [pc EXCEPT !["ticker"] = "flush"]
    /\ UNCHANGED <<chanVars, buffer, hist, cur, draining, dbVars, countVars,
                   stopVars>>

\* case <-ctx.Done(): return
TickerCancelled ==
    /\ process = "up"
    /\ pc["ticker"] = "select"
    /\ stop \notin {"running", "inputClosed"}
    /\ pc' = [pc EXCEPT !["ticker"] = "exited"]
    /\ UNCHANGED <<chanVars, buffer, hist, cur, draining, dbVars, countVars,
                   stopVars>>

\* case <-w.stopCh: w.flushRemaining(); return
TickerDrains ==
    /\ process = "up"
    /\ pc["ticker"] = "select"
    /\ stop \in {"writerSignalled", "stopped"}
    /\ pc' = [pc EXCEPT !["ticker"] = "flush"]
    /\ draining' = TRUE
    /\ UNCHANGED <<chanVars, buffer, hist, cur, dbVars, countVars, stopVars>>

-----------------------------------------------------------------------------
(* flush, doFlush, batchInsert and fallbackInsert, run by either goroutine. *)

GoroutineEnds(f) == "exited"
FlushesForever(f) == "flush"

\* Where a goroutine goes when its batch is finished.
Resume(f) == IF f = "ticker" /\ draining THEN "exited" ELSE "select"

\* Swap the buffer under bufferMu, then remove the duplicates of the batch.
TakeBatch(f) ==
    /\ process = "up"
    /\ pc[f] = "flush"
    /\ LET rows  == Points(buffer)
           fresh == FirstOf(rows)
       IN /\ buffer' = <<>>
          /\ duplicates' = duplicates \cup RepeatsOf(rows)
          /\ hist' = [hist EXCEPT ![f] = fresh]
          /\ cur' = [cur EXCEPT ![f] = LatestOf(fresh)]
          /\ pc' = [pc EXCEPT ![f] = IF fresh = {} THEN Resume(f) ELSE "insert"]
    /\ UNCHANGED <<chanVars, draining, dbVars, received, written, failed,
                   stopVars>>

\* The transaction of batchInsert commits.
BatchCommit(f) ==
    /\ process = "up"
    /\ pc[f] = "insert"
    /\ history' = InsertIgnore(history, hist[f])
    /\ current' = Upsert(current, cur[f])
    /\ written' = written \cup hist[f]
    /\ hist' = [hist EXCEPT ![f] = {}]
    /\ cur' = [cur EXCEPT ![f] = {}]
    /\ pc' = [pc EXCEPT ![f] = Resume(f)]
    /\ UNCHANGED <<chanVars, buffer, draining, received, duplicates, failed,
                   stopVars>>

\* The transaction of batchInsert fails: fall back to one row at a time.
BatchFail(f) ==
    /\ process = "up"
    /\ InsertMayFail
    /\ pc[f] = "insert"
    /\ pc' = [pc EXCEPT ![f] = "fallback"]
    /\ UNCHANGED <<chanVars, buffer, hist, cur, draining, dbVars, countVars,
                   stopVars>>

\* fallbackInsert walks historyData in arrival order; currentData was filled
\* by ranging over a map, so currentData[i] is any of the rows not used yet.
NextHist(f) == {r \in hist[f] : \A q \in hist[f] : r.id <= q.id}

AfterRow(f, r) == IF hist[f] = {r} THEN Resume(f) ELSE "fallback"

\* &historyData[i] and &currentData[i] are inserted in one transaction.
FallbackCommit(f) ==
    /\ process = "up"
    /\ pc[f] = "fallback"
    /\ \E r \in NextHist(f), c \in cur[f] :
         /\ history' = InsertIgnore(history, {r})
         /\ current' = Upsert(current, {c})
         /\ written' = written \cup {r}
         /\ hist' = [hist EXCEPT ![f] = @ \ {r}]
         /\ cur' = [cur EXCEPT ![f] = IF hist[f] = {r} THEN {} ELSE @ \ {c}]
         /\ pc' = [pc EXCEPT ![f] = AfterRow(f, r)]
    /\ UNCHANGED <<chanVars, buffer, draining, received, duplicates, failed,
                   stopVars>>

\* The insert into the history table may fail before currentData[i] is looked at.
CurAfterFailure(f) ==
    IF cur[f] = {} THEN {{}} ELSE {cur[f] \ {c} : c \in cur[f]}

FallbackFail(f) ==
    /\ process = "up"
    /\ InsertMayFail
    /\ pc[f] = "fallback"
    /\ \E r \in NextHist(f), rest \in CurAfterFailure(f) :
         /\ failed' = failed \cup {r}
         /\ hist' = [hist EXCEPT ![f] = @ \ {r}]
         /\ cur' = [cur EXCEPT ![f] = IF hist[f] = {r} THEN {} ELSE rest]
         /\ pc' = [pc EXCEPT ![f] = AfterRow(f, r)]
    /\ UNCHANGED <<chanVars, buffer, draining, dbVars, received, duplicates,
                   written, stopVars>>

\* currentData has one row per series, historyData one per series and
\* timestamp: currentData[i] is out of range once the shorter one is used up.
\* The panic rolls the row's transaction back and ends the process.
FallbackPanic(f) ==
    /\ process = "up"
    /\ pc[f] = "fallback"
    /\ hist[f] # {}
    /\ cur[f] = {}
    /\ process' = "crashed"
    /\ UNCHANGED <<chanVars, batchVars, dbVars, countVars, stop, timedOut>>

-----------------------------------------------------------------------------
(* StorageServiceWrapper.Stop, storage.Stop and telemetryWriter.stop.      *)

StopStep(from, to) ==
    /\ process = "up"
    /\ stop = from
    /\ stop' = to

CloseInput ==
    /\ StopStep("running", "inputClosed")
    /\ UNCHANGED <<chanVars, batchVars, dbVars, countVars, process, timedOut>>

CancelContext ==
    /\ StopStep("inputClosed", "cancelled")
    /\ UNCHANGED <<chanVars, batchVars, dbVars, countVars, process, timedOut>>

SignalLoop ==
    /\ StopStep("cancelled", "loopSignalled")
    /\ UNCHANGED <<chanVars, batchVars, dbVars, countVars, process, timedOut>>

LoopNotAwaited == TRUE
LoopDone == pc["loop"] = "exited"

\* Wait for doneCh of the main loop or for the timeout, then close the
\* writer's stopCh and stop the ticker.
SignalWriter ==
    /\ StopStep("loopSignalled", "writerSignalled")
    /\ \/ LoopDone /\ UNCHANGED timedOut
       \/ ~LoopDone /\ StopMayTimeOut /\ timedOut' = TRUE
    /\ UNCHANGED <<chanVars, batchVars, dbVars, countVars, process>>

\* Without a flush timer nobody closes the writer's doneCh: only the timeout
\* ends the wait.
FinishStop ==
    /\ StopStep("writerSignalled", "stopped")
    /\ \/ FlushTimer /\ pc["ticker"] = "exited" /\ UNCHANGED timedOut
       \/ ~(FlushTimer /\ pc["ticker"] = "exited") /\ StopMayTimeOut
            /\ timedOut' = TRUE
    /\ UNCHANGED <<chanVars, batchVars, dbVars, countVars, process>>

-----------------------------------------------------------------------------
Flush(f) ==
    \/ TakeBatch(f)
    \/ BatchCommit(f)
    \/ BatchFail(f)
    \/ FallbackCommit(f)
    \/ FallbackFail(f)
    \/ FallbackPanic(f)

Stopping ==
    \/ CloseInput
    \/ CancelContext
    \/ SignalLoop
    \/ SignalWriter
    \/ FinishStop

Next ==
    \/ Tick
    \/ \E shape \in Shapes : Send(shape)
    \/ LoopReceive
    \/ LoopExit
    \/ TickerFires
    \/ TickerCancelled
    \/ TickerDrains
    \/ \E f \in Flushers : Flush(f)
    \/ Stopping

Spec == Init /\ [][Next]_vars

\* The scheduler runs every goroutine that can run, a running ticker fires again
\* and again, and Stop, once called, goes on.  Nothing makes anybody call Stop.
Fairness ==
    /\ WF_vars(LoopReceive \/ LoopExit)
    /\ WF_vars(TickerFires \/ TickerCancelled \/ TickerDrains)
    /\ \A f \in Flushers : WF_vars(Flush(f))
    /\ WF_vars(CancelContext \/ SignalLoop \/ SignalWriter \/ FinishStop)

FairSpec == Spec /\ Fairness

-----------------------------------------------------------------------------
(* Properties.                                                             *)

\* Every variable has its type, and the input channel never holds more than
\* its capacity.
TypeOK ==
    /\ now \in Nat
    /\ nextId \in Nat
    /\ inputChan \in Seq(Message)
    /\ Len(inputChan) <= ChannelBufferSize
    /\ buffer \in Seq(Message)
    /\ pc \in [Flushers -> Pcs]
    /\ hist \in [Flushers -> SUBSET Row]
    /\ cur \in [Flushers -> SUBSET Row]
    /\ draining \in BOOLEAN
    /\ history \subseteq Row
    /\ current \subseteq Row
    /\ received \subseteq Row
    /\ duplicates \subseteq Row
    /\ written \subseteq Row
    /\ failed \subseteq Row
    /\ process \in {"up", "crashed"}
    /\ stop \in StopPcs
    /\ timedOut \in BOOLEAN

Settled == duplicates \cup written \cup failed

\* Whatever the main loop, the ticker, database faults and Stop do, every point
\* handed to the writer is in exactly one place: the buffer, the batch of one
\* goroutine, or one of the three counters metrics.go reports.
Accounting ==
    /\ received = Points(buffer) \cup hist["loop"] \cup hist["ticker"] \cup Settled
    /\ Points(buffer) \cap (hist["loop"] \cup hist["ticker"] \cup Settled) = {}
    /\ hist["loop"] \cap (hist["ticker"] \cup Settled) = {}
    /\ hist["ticker"] \cap Settled = {}
    /\ duplicates \cap (written \cup failed) = {}
    /\ written \cap failed = {}

\* Two goroutines inserting overlapping batches never give the history table two
\* rows for one device, key and timestamp, nor the latest-value table two rows
\* for one device and key.
KeysUnique ==
    /\ \A h, g \in history : SameKey(h, g) => h = g
    /\ \A c, d \in current : c.series = d.series => c = d

\* A point counted as written is in the history table, or an earlier point with
\* its device, key and timestamp is.
WrittenIsStored == \A r \in written : \E h \in history : SameKey(h, r)

\* A row of the history table is never changed or removed by a later flush.
HistoryImmutable == [][history \subseteq history']_history

\* The latest-value table holds, for every series of the history table, a row
\* that is at least as new as everything in the history.
CurrentIsNewest ==
    \A h \in history : \E c \in current : c.series = h.series /\ c.ts >= h.ts

\* The latest-value table shows no timestamp the history table does not have:
\* both are written in one transaction.
CurrentIsBacked == \A c \in current : \E h \in history : SameKey(h, c)

\* The safety net for a failed batch never ends the process.
FallbackSurvives == process = "up"

\* When Stop has returned without running into a timeout, neither goroutine is
\* still working on a batch.
StopQuiesces ==
    stop = "stopped" /\ ~timedOut => \A f \in Flushers : pc[f] = "exited"

\* When Stop has returned without running into a timeout, the writer has flushed
\* what was left in its buffer.
StopFlushesBuffer == stop = "stopped" /\ ~timedOut => buffer = <<>>

\* With the flush timer running, every message taken from the channel is
\* eventually counted, unless the service is stopped or crashes first.
EveryMessageSettles ==
    \A i \in 1..MaxMsgs :
        (\E r \in received : r.id = i)
            ~> (\/ stop # "running"
                \/ process = "crashed"
                \/ \A r \in received : r.id = i => r \in Settled)

\* Stop returns, and needs none of its timeouts as long as the database answers.
StopReturns == (stop = "inputClosed") ~> (stop = "stopped")
=============================================================================
