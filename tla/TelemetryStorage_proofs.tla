----------------------- MODULE TelemetryStorage_proofs -----------------------
(***************************************************************************)
(* What TLAPS proves about the telemetry write path, for every channel     *)
(* size, batch size, set of series and schedule.                           *)
(***************************************************************************)
EXTENDS TelemetryStorage, SequenceTheorems, TLAPS

USE StorageAssumption

-----------------------------------------------------------------------------
(* Lemmas about the operators the model is built from.                     *)

\* The points of one message are rows.
LEMMA RowsOfType == ASSUME NEW m \in Message PROVE RowsOf(m) \subseteq Row
  BY DEF RowsOf, Message, Row

\* The points of a batch are rows.
LEMMA PointsType == ASSUME NEW b \in Seq(Message) PROVE Points(b) \subseteq Row
  BY RowsOfType DEF Points

\* Appending a message to a batch adds its points.
LEMMA PointsAppend ==
  ASSUME NEW b \in Seq(Message), NEW m \in Message
  PROVE  Points(Append(b, m)) = Points(b) \cup RowsOf(m)
<1>1. /\ DOMAIN Append(b, m) = 1..(Len(b) + 1)
      /\ \A i \in 1..Len(b) : Append(b, m)[i] = b[i]
      /\ Append(b, m)[Len(b) + 1] = m
      /\ DOMAIN b = 1..Len(b)
      /\ Len(b) \in Nat
  OBVIOUS
<1>2. Points(Append(b, m)) \subseteq Points(b) \cup RowsOf(m)
  BY <1>1 DEF Points
<1>3. Points(b) \subseteq Points(Append(b, m))
  BY <1>1 DEF Points
<1>4. RowsOf(m) \subseteq Points(Append(b, m))
  BY <1>1 DEF Points
<1> QED BY <1>2, <1>3, <1>4

\* An empty batch has no points.
LEMMA PointsEmpty == Points(<<>>) = {}
  BY DEF Points

-----------------------------------------------------------------------------
(* Type correctness.                                                       *)

\* The types hold initially.
LEMMA InitTypeOK == Init => TypeOK
<1> SUFFICES ASSUME Init PROVE TypeOK
  OBVIOUS
<1>1. pc \in [Flushers -> Pcs]
  BY DEF Init, Flushers, Pcs
<1>2. hist \in [Flushers -> SUBSET Row] /\ cur \in [Flushers -> SUBSET Row]
  BY DEF Init
<1>3. inputChan \in Seq(Message) /\ buffer \in Seq(Message)
        /\ Len(inputChan) <= ChannelBufferSize
  BY DEF Init
<1> QED
  BY <1>1, <1>2, <1>3 DEF Init, TypeOK, StopPcs

\* Every step keeps the types.
LEMMA NextTypeOK == TypeOK /\ [Next]_vars => TypeOK'
<1> SUFFICES ASSUME TypeOK, [Next]_vars PROVE TypeOK'
  OBVIOUS
<1> USE DEF TypeOK, Flushers, Pcs, StopPcs
<1>1. CASE Tick
  BY <1>1 DEF Tick, batchVars, dbVars, countVars, stopVars
<1>2. ASSUME NEW shape \in Shapes, Send(shape) PROVE TypeOK'
  <2>1. [id |-> nextId, ts |-> now, series |-> shape] \in Message
    BY DEF Message
  <2>2. inputChan' \in Seq(Message) /\ Len(inputChan') = Len(inputChan) + 1
    BY <1>2, <2>1 DEF Send
  <2> QED
    BY <1>2, <2>2 DEF Send, HasRoom, batchVars, dbVars, countVars, stopVars
<1>3. CASE LoopReceive
  <2>1. Head(inputChan) \in Message /\ Tail(inputChan) \in Seq(Message)
          /\ Len(Tail(inputChan)) = Len(inputChan) - 1
    BY <1>3 DEF LoopReceive
  <2>2. RowsOf(Head(inputChan)) \subseteq Row
    BY <2>1, RowsOfType
  <2>3. buffer' \in Seq(Message) /\ received' \subseteq Row
    BY <1>3, <2>1, <2>2 DEF LoopReceive
  <2>4. inputChan' \in Seq(Message) /\ Len(inputChan') <= ChannelBufferSize
    BY <1>3, <2>1 DEF LoopReceive
  <2>5. pc' \in [Flushers -> Pcs]
    BY <1>3 DEF LoopReceive
  <2> QED
    BY <1>3, <2>3, <2>4, <2>5 DEF LoopReceive, dbVars, stopVars
<1>4. CASE LoopExit
  BY <1>4 DEF LoopExit, chanVars, dbVars, countVars, stopVars
<1>5. CASE TickerFires
  BY <1>5 DEF TickerFires, chanVars, dbVars, countVars, stopVars
<1>6. CASE TickerCancelled
  BY <1>6 DEF TickerCancelled, chanVars, dbVars, countVars, stopVars
<1>7. CASE TickerDrains
  BY <1>7 DEF TickerDrains, chanVars, dbVars, countVars, stopVars
<1>8. ASSUME NEW f \in Flushers, TakeBatch(f) PROVE TypeOK'
  <2>1. Points(buffer) \subseteq Row
    BY PointsType
  <2>2. /\ FirstOf(Points(buffer)) \subseteq Row
        /\ RepeatsOf(Points(buffer)) \subseteq Row
        /\ LatestOf(FirstOf(Points(buffer))) \subseteq Row
    BY <2>1 DEF FirstOf, RepeatsOf, LatestOf
  <2>3. pc' \in [Flushers -> Pcs]
    BY <1>8 DEF TakeBatch, Resume
  <2>4. /\ hist' \in [Flushers -> SUBSET Row]
        /\ cur' \in [Flushers -> SUBSET Row]
        /\ duplicates' \subseteq Row
    BY <1>8, <2>2 DEF TakeBatch
  <2> QED
    BY <1>8, <2>3, <2>4 DEF TakeBatch, chanVars, dbVars, stopVars
<1>9. ASSUME NEW f \in Flushers, BatchCommit(f) PROVE TypeOK'
  <2>1. pc' \in [Flushers -> Pcs]
    BY <1>9 DEF BatchCommit, Resume
  <2>2. history' \subseteq Row /\ current' \subseteq Row
    BY <1>9 DEF BatchCommit, InsertIgnore, Upsert
  <2> QED
    BY <1>9, <2>1, <2>2 DEF BatchCommit, chanVars, stopVars
<1>10. ASSUME NEW f \in Flushers, BatchFail(f) PROVE TypeOK'
  BY <1>10 DEF BatchFail, chanVars, dbVars, countVars, stopVars
<1>11. ASSUME NEW f \in Flushers, FallbackCommit(f) PROVE TypeOK'
  <2> PICK r \in NextHist(f), c \in cur[f] :
             /\ history' = InsertIgnore(history, {r})
             /\ current' = Upsert(current, {c})
             /\ written' = written \cup {r}
             /\ hist' = [hist EXCEPT ![f] = @ \ {r}]
             /\ cur' = [cur EXCEPT ![f] = IF hist[f] = {r} THEN {} ELSE @ \ {c}]
             /\ pc' = [pc EXCEPT ![f] = AfterRow(f, r)]
    BY <1>11 DEF FallbackCommit
  <2>1. r \in Row /\ c \in Row
    BY DEF NextHist
  <2>2. history' \subseteq Row /\ current' \subseteq Row
    BY <2>1 DEF InsertIgnore, Upsert
  <2>3. pc' \in [Flushers -> Pcs]
    BY DEF AfterRow, Resume
  <2> QED
    BY <1>11, <2>1, <2>2, <2>3 DEF FallbackCommit, chanVars, stopVars
<1>12. ASSUME NEW f \in Flushers, FallbackFail(f) PROVE TypeOK'
  <2> PICK r \in NextHist(f), rest \in CurAfterFailure(f) :
             /\ failed' = failed \cup {r}
             /\ hist' = [hist EXCEPT ![f] = @ \ {r}]
             /\ cur' = [cur EXCEPT ![f] = IF hist[f] = {r} THEN {} ELSE rest]
             /\ pc' = [pc EXCEPT ![f] = AfterRow(f, r)]
    BY <1>12 DEF FallbackFail
  <2>1. r \in Row /\ rest \subseteq Row
    BY DEF NextHist, CurAfterFailure
  <2>2. pc' \in [Flushers -> Pcs]
    BY DEF AfterRow, Resume
  <2> QED
    BY <1>12, <2>1, <2>2 DEF FallbackFail, chanVars, dbVars, stopVars
<1>13. ASSUME NEW f \in Flushers, FallbackPanic(f) PROVE TypeOK'
  BY <1>13 DEF FallbackPanic, chanVars, batchVars, dbVars, countVars
<1>14. CASE Stopping
  BY <1>14 DEF Stopping, CloseInput, CancelContext, SignalLoop, SignalWriter,
       FinishStop, StopStep, chanVars, batchVars, dbVars, countVars
<1>15. CASE UNCHANGED vars
  BY <1>15 DEF vars, chanVars, batchVars, dbVars, countVars, stopVars
<1> QED
  BY <1>1, <1>2, <1>3, <1>4, <1>5, <1>6, <1>7, <1>8, <1>9, <1>10, <1>11,
     <1>12, <1>13, <1>14, <1>15 DEF Next, Flush

\* Every variable keeps its type and the input channel its capacity, on every
\* path through the writer, its faults and Stop.
THEOREM TypeCorrect == Spec => []TypeOK
  BY InitTypeOK, NextTypeOK, PTL DEF Spec

-----------------------------------------------------------------------------
(* The inductive invariant.                                                 *)

\* Messages travel in the order of their numbers, so a message still in the
\* channel shares no point with those already received.
NumbersAscend ==
    /\ \A i \in DOMAIN inputChan : inputChan[i].id < nextId
    /\ \A i, j \in DOMAIN inputChan : i < j => inputChan[i].id < inputChan[j].id
    /\ \A r \in received : r.id < nextId
    /\ \A r \in received : \A i \in DOMAIN inputChan : r.id < inputChan[i].id

\* Only a goroutine that is inserting holds a batch.
IdleHoldsNothing ==
    \A f \in Flushers : pc[f] \notin {"insert", "fallback"} => hist[f] = {}

\* A batch in flight has one row per key and one latest row per series.
BatchKeysUnique ==
    \A f \in Flushers :
        /\ \A r, q \in hist[f] : SameKey(r, q) => r = q
        /\ \A c, d \in cur[f] : c.series = d.series => c = d

IInv ==
    /\ TypeOK
    /\ NumbersAscend
    /\ IdleHoldsNothing
    /\ BatchKeysUnique
    /\ Accounting
    /\ KeysUnique
    /\ WrittenIsStored

-----------------------------------------------------------------------------
(* Lemmas about the batch and the tables.                                   *)

\* FirstOf keeps one row per device, key and timestamp.
LEMMA FirstOfUnique ==
  ASSUME NEW rows \in SUBSET Row, NEW r \in FirstOf(rows), NEW q \in FirstOf(rows),
         SameKey(r, q)
  PROVE  r = q
<1>1. r \in Row /\ q \in Row /\ r.id <= q.id /\ q.id <= r.id
  BY DEF FirstOf, SameKey
<1>2. r.id = q.id /\ r.series = q.series /\ r.ts = q.ts
  BY <1>1 DEF Row, SameKey
<1> QED BY <1>1, <1>2 DEF Row

\* LatestOf keeps one row per series of a batch without duplicates.
LEMMA LatestOfUnique ==
  ASSUME NEW rows \in SUBSET Row,
         \A r, q \in rows : SameKey(r, q) => r = q,
         NEW c \in LatestOf(rows), NEW d \in LatestOf(rows), c.series = d.series
  PROVE  c = d
<1>1. c \in rows /\ d \in rows /\ c.ts <= d.ts /\ d.ts <= c.ts
  BY DEF LatestOf
<1>2. c.ts = d.ts
  BY <1>1 DEF Row
<1> QED BY <1>1, <1>2 DEF SameKey

\* The insert with DO NOTHING keeps the table and its key, and leaves a row for
\* the key of every row it was given.
LEMMA InsertIgnoreKeeps ==
  ASSUME NEW table \in SUBSET Row, NEW rows \in SUBSET Row,
         \A h, g \in table : SameKey(h, g) => h = g,
         \A r, q \in rows : SameKey(r, q) => r = q
  PROVE  /\ table \subseteq InsertIgnore(table, rows)
         /\ \A h, g \in InsertIgnore(table, rows) : SameKey(h, g) => h = g
         /\ \A r \in rows : \E h \in InsertIgnore(table, rows) : SameKey(h, r)
  BY DEF InsertIgnore, SameKey

\* The upsert keeps one row per series.
LEMMA UpsertKeeps ==
  ASSUME NEW table \in SUBSET Row, NEW rows \in SUBSET Row,
         \A c, d \in table : c.series = d.series => c = d,
         \A c, d \in rows : c.series = d.series => c = d
  PROVE  \A c, d \in Upsert(table, rows) : c.series = d.series => c = d
  BY DEF Upsert

-----------------------------------------------------------------------------
(* The initial states and every step satisfy the invariant.                 *)

LEMMA InitIInv == Init => IInv
<1> SUFFICES ASSUME Init PROVE IInv
  OBVIOUS
<1>1. TypeOK
  BY InitTypeOK
<1>2. NumbersAscend /\ IdleHoldsNothing /\ BatchKeysUnique
  BY DEF Init, NumbersAscend, IdleHoldsNothing, BatchKeysUnique, Flushers
<1>3. Accounting
  BY PointsEmpty DEF Init, Accounting, Settled, Flushers
<1>4. KeysUnique /\ WrittenIsStored
  BY DEF Init, KeysUnique, WrittenIsStored
<1> QED BY <1>1, <1>2, <1>3, <1>4 DEF IInv

\* A step that leaves the channel, the batches, the tables and the counters
\* alone keeps the invariant.
LEMMA QuietStep ==
  ASSUME IInv, TypeOK',
         UNCHANGED <<nextId, inputChan, buffer, hist, cur, dbVars, countVars>>,
         \A f \in Flushers :
             pc'[f] \notin {"insert", "fallback"} => pc[f] \notin {"insert", "fallback"}
  PROVE  IInv'
<1>1. NumbersAscend'
  BY DEF IInv, NumbersAscend, countVars
<1>2. IdleHoldsNothing' /\ BatchKeysUnique'
  BY DEF IInv, IdleHoldsNothing, BatchKeysUnique
<1>3. Accounting'
  BY DEF IInv, Accounting, Settled, Points, countVars
<1>4. KeysUnique' /\ WrittenIsStored'
  BY DEF IInv, KeysUnique, WrittenIsStored, dbVars, countVars
<1> QED BY <1>1, <1>2, <1>3, <1>4 DEF IInv

\* A message enters the channel with the next number.
LEMMA SendStep ==
  ASSUME IInv, TypeOK', NEW shape \in Shapes, Send(shape)
  PROVE  IInv'
<1> DEFINE msg == [id |-> nextId, ts |-> now, series |-> shape]
<1>1. /\ inputChan \in Seq(Message) /\ msg \in Message
      /\ nextId \in Nat /\ received \subseteq Row
  BY DEF IInv, TypeOK, Message
<1>2. /\ DOMAIN inputChan' = 1..(Len(inputChan) + 1)
      /\ DOMAIN inputChan = 1..Len(inputChan)
      /\ Len(inputChan) \in Nat
      /\ \A i \in 1..Len(inputChan) : inputChan'[i] = inputChan[i]
      /\ inputChan'[Len(inputChan) + 1].id = nextId
  BY <1>1 DEF Send
<1>3. nextId' = nextId + 1 /\ received' = received
  BY DEF Send, countVars
<1>4. \A i \in DOMAIN inputChan : inputChan[i].id \in Nat
  <2>1. \A i \in DOMAIN inputChan : inputChan[i] \in Message
    BY <1>1
  <2> QED BY <2>1 DEF Message
<1>5. \A r \in received : r.id \in Nat
  BY <1>1 DEF Row
<1>6. NumbersAscend
  BY DEF IInv
<1>7. \A i \in DOMAIN inputChan' : inputChan'[i].id < nextId'
  BY <1>1, <1>2, <1>3, <1>4, <1>6 DEF NumbersAscend
<1>8. \A i, j \in DOMAIN inputChan' : i < j => inputChan'[i].id < inputChan'[j].id
  BY <1>1, <1>2, <1>3, <1>4, <1>6 DEF NumbersAscend
<1>9. /\ \A r \in received' : r.id < nextId'
      /\ \A r \in received' : \A i \in DOMAIN inputChan' : r.id < inputChan'[i].id
  BY <1>1, <1>2, <1>3, <1>5, <1>6 DEF NumbersAscend
<1>10. NumbersAscend'
  BY <1>7, <1>8, <1>9 DEF NumbersAscend
<1>11. IdleHoldsNothing' /\ BatchKeysUnique'
  BY DEF IInv, IdleHoldsNothing, BatchKeysUnique, Send, batchVars
<1>12. Accounting'
  BY DEF IInv, Accounting, Settled, Points, Send, batchVars, countVars
<1>13. KeysUnique' /\ WrittenIsStored'
  BY DEF IInv, KeysUnique, WrittenIsStored, Send, dbVars, countVars
<1> QED BY <1>10, <1>11, <1>12, <1>13 DEF IInv

\* A message leaves the channel for the buffer: its number is greater than all
\* numbers received, so its points are new.
LEMMA ReceiveStep ==
  ASSUME IInv, TypeOK', LoopReceive
  PROVE  IInv'
<1> DEFINE m == Head(inputChan)
<1>1. /\ inputChan \in Seq(Message) /\ inputChan # <<>>
      /\ received \subseteq Row /\ nextId \in Nat /\ buffer \in Seq(Message)
      /\ buffer' = Append(buffer, m) /\ received' = received \cup RowsOf(m)
      /\ inputChan' = Tail(inputChan) /\ nextId' = nextId
      /\ UNCHANGED <<hist, cur, duplicates, written, failed>>
  BY DEF IInv, TypeOK, LoopReceive
<1>2. /\ Len(inputChan) \in Nat /\ Len(inputChan) >= 1
      /\ DOMAIN inputChan = 1..Len(inputChan)
      /\ m = inputChan[1] /\ m \in Message
      /\ DOMAIN inputChan' = 1..(Len(inputChan) - 1)
      /\ \A i \in DOMAIN inputChan' : inputChan'[i] = inputChan[i + 1]
  BY <1>1
<1>3. \A r \in RowsOf(m) : r.id = m.id
  BY DEF RowsOf
<1>4. NumbersAscend
  BY DEF IInv
<1>5. NumbersAscend'
  <2>1. \A i \in DOMAIN inputChan' : i + 1 \in DOMAIN inputChan /\ 1 < i + 1
    BY <1>2
  <2>2. \A i \in DOMAIN inputChan' : inputChan'[i].id < nextId'
    BY <1>1, <1>2, <1>4, <2>1 DEF NumbersAscend
  <2>3. \A i, j \in DOMAIN inputChan' : i < j => inputChan'[i].id < inputChan'[j].id
    BY <1>2, <1>4, <2>1 DEF NumbersAscend
  <2>4. 1 \in DOMAIN inputChan
    BY <1>2
  <2>5. \A r \in received' : r.id < nextId'
    BY <1>1, <1>2, <1>3, <1>4, <2>4 DEF NumbersAscend
  <2>6. \A r \in received' : \A i \in DOMAIN inputChan' : r.id < inputChan'[i].id
    BY <1>1, <1>2, <1>3, <1>4, <2>1, <2>4 DEF NumbersAscend
  <2> QED BY <2>2, <2>3, <2>5, <2>6 DEF NumbersAscend
<1>6. RowsOf(m) \cap received = {}
  <2>1. \A r \in received : r.id < m.id
    BY <1>2, <1>4 DEF NumbersAscend
  <2>2. m.id \in Nat
    BY <1>2 DEF Message
  <2> QED BY <1>3, <2>1, <2>2
<1>7. Points(buffer') = Points(buffer) \cup RowsOf(m)
  BY <1>1, <1>2, PointsAppend
<1>8. Accounting'
  BY <1>1, <1>6, <1>7 DEF IInv, Accounting, Settled
<1>9. IdleHoldsNothing'
  BY <1>1 DEF IInv, TypeOK, IdleHoldsNothing, LoopReceive
<1>10. BatchKeysUnique'
  BY <1>1 DEF IInv, BatchKeysUnique
<1>11. KeysUnique' /\ WrittenIsStored'
  BY <1>1 DEF IInv, KeysUnique, WrittenIsStored, LoopReceive, dbVars
<1> QED BY <1>5, <1>8, <1>9, <1>10, <1>11 DEF IInv

\* The whole buffer becomes one batch; what the batch repeats is counted.
LEMMA TakeStep ==
  ASSUME IInv, TypeOK', NEW f \in Flushers, TakeBatch(f)
  PROVE  IInv'
<1> DEFINE rows  == Points(buffer)
           fresh == FirstOf(rows)
<1>1. /\ buffer \in Seq(Message) /\ hist \in [Flushers -> SUBSET Row]
      /\ cur \in [Flushers -> SUBSET Row] /\ pc \in [Flushers -> Pcs]
      /\ pc[f] = "flush" /\ buffer' = <<>>
      /\ duplicates' = duplicates \cup RepeatsOf(rows)
      /\ hist' = [hist EXCEPT ![f] = fresh]
      /\ cur' = [cur EXCEPT ![f] = LatestOf(fresh)]
      /\ pc' = [pc EXCEPT ![f] = IF fresh = {} THEN Resume(f) ELSE "insert"]
      /\ UNCHANGED <<nextId, inputChan, history, current, received, written, failed>>
  BY DEF IInv, TypeOK, TakeBatch, chanVars, dbVars
<1>2. rows \subseteq Row
  BY <1>1, PointsType
<1>3. fresh \subseteq rows /\ RepeatsOf(rows) = rows \ fresh
  BY DEF FirstOf, RepeatsOf
<1>4. hist[f] = {}
  BY <1>1 DEF IInv, IdleHoldsNothing
<1>5. Points(buffer') = {}
  BY <1>1, PointsEmpty
<1>6. NumbersAscend'
  BY <1>1 DEF IInv, NumbersAscend
<1>7. IdleHoldsNothing'
  BY <1>1 DEF IInv, IdleHoldsNothing
<1>8. BatchKeysUnique'
  <2>1. \A r, q \in fresh : SameKey(r, q) => r = q
    BY <1>2, FirstOfUnique
  <2>2. fresh \in SUBSET Row
    BY <1>2, <1>3
  <2> HIDE DEF fresh
  <2>3. \A c, d \in LatestOf(fresh) : c.series = d.series => c = d
    BY <2>1, <2>2, LatestOfUnique
  <2> QED BY <1>1, <2>1, <2>3 DEF IInv, BatchKeysUnique
<1>9. Accounting'
  <2> HIDE DEF fresh, rows
  <2>1. /\ received = rows \cup hist["loop"] \cup hist["ticker"] \cup Settled
        /\ rows \cap (hist["loop"] \cup hist["ticker"] \cup Settled) = {}
        /\ hist["loop"] \cap (hist["ticker"] \cup Settled) = {}
        /\ hist["ticker"] \cap Settled = {}
        /\ duplicates \cap (written \cup failed) = {}
        /\ written \cap failed = {}
    BY DEF IInv, Accounting, rows
  <2>2. CASE f = "loop"
    <3>1. hist'["loop"] = fresh /\ hist'["ticker"] = hist["ticker"]
      BY <1>1, <2>2 DEF Flushers
    <3> QED BY <1>1, <1>3, <1>4, <1>5, <2>1, <2>2, <3>1 DEF Accounting, Settled
  <2>3. CASE f = "ticker"
    <3>1. hist'["ticker"] = fresh /\ hist'["loop"] = hist["loop"]
      BY <1>1, <2>3 DEF Flushers
    <3> QED BY <1>1, <1>3, <1>4, <1>5, <2>1, <2>3, <3>1 DEF Accounting, Settled
  <2> QED BY <2>2, <2>3 DEF Flushers
<1>10. KeysUnique' /\ WrittenIsStored'
  BY <1>1 DEF IInv, KeysUnique, WrittenIsStored
<1> QED BY <1>6, <1>7, <1>8, <1>9, <1>10 DEF IInv

\* Part of a goroutine's batch is inserted and counted as written.
LEMMA WriteStep ==
  ASSUME IInv, TypeOK', NEW f \in Flushers,
         NEW rows \in SUBSET hist[f], NEW latest \in SUBSET cur[f],
         hist' = [hist EXCEPT ![f] = @ \ rows],
         cur'[f] \subseteq cur[f],
         \A g \in Flushers \ {f} : cur'[g] = cur[g] /\ pc'[g] = pc[g],
         pc'[f] \notin {"insert", "fallback"} => hist'[f] = {},
         history' = InsertIgnore(history, rows),
         current' = Upsert(current, latest),
         written' = written \cup rows,
         UNCHANGED <<nextId, inputChan, buffer, received, duplicates, failed>>
  PROVE  IInv'
<1>1. /\ hist \in [Flushers -> SUBSET Row] /\ cur \in [Flushers -> SUBSET Row]
      /\ history \subseteq Row /\ current \subseteq Row
  BY DEF IInv, TypeOK
<1>2. NumbersAscend'
  BY DEF IInv, NumbersAscend
<1>3. IdleHoldsNothing'
  BY <1>1 DEF IInv, IdleHoldsNothing
<1>4. BatchKeysUnique'
  BY <1>1 DEF IInv, BatchKeysUnique
<1>5. Accounting'
  <2>1. /\ received = Points(buffer) \cup hist["loop"] \cup hist["ticker"] \cup Settled
        /\ Points(buffer) \cap (hist["loop"] \cup hist["ticker"] \cup Settled) = {}
        /\ hist["loop"] \cap (hist["ticker"] \cup Settled) = {}
        /\ hist["ticker"] \cap Settled = {}
        /\ duplicates \cap (written \cup failed) = {}
        /\ written \cap failed = {}
    BY DEF IInv, Accounting
  <2>2. Points(buffer') = Points(buffer)
    OBVIOUS
  <2>3. CASE f = "loop"
    <3>1. hist'["loop"] = hist["loop"] \ rows /\ hist'["ticker"] = hist["ticker"]
            /\ rows \subseteq hist["loop"]
      BY <1>1, <2>3 DEF Flushers
    <3> QED BY <2>1, <2>2, <3>1 DEF Accounting, Settled
  <2>4. CASE f = "ticker"
    <3>1. hist'["ticker"] = hist["ticker"] \ rows /\ hist'["loop"] = hist["loop"]
            /\ rows \subseteq hist["ticker"]
      BY <1>1, <2>4 DEF Flushers
    <3> QED BY <2>1, <2>2, <3>1 DEF Accounting, Settled
  <2> QED BY <2>3, <2>4 DEF Flushers
<1>6. /\ rows \in SUBSET Row /\ latest \in SUBSET Row
      /\ \A r, q \in rows : SameKey(r, q) => r = q
      /\ \A c, d \in latest : c.series = d.series => c = d
  BY <1>1 DEF IInv, BatchKeysUnique
<1>7. /\ history \subseteq history'
      /\ \A h, g \in history' : SameKey(h, g) => h = g
      /\ \A r \in rows : \E h \in history' : SameKey(h, r)
  BY <1>1, <1>6, InsertIgnoreKeeps DEF IInv, KeysUnique
<1>8. \A c, d \in current' : c.series = d.series => c = d
  BY <1>1, <1>6, UpsertKeeps DEF IInv, KeysUnique
<1>9. KeysUnique'
  BY <1>7, <1>8 DEF KeysUnique, SameKey
<1>10. WrittenIsStored'
  BY <1>7 DEF IInv, WrittenIsStored, SameKey
<1> QED BY <1>2, <1>3, <1>4, <1>5, <1>9, <1>10 DEF IInv

\* One row of a batch is counted as failed.
LEMMA FailStep ==
  ASSUME IInv, TypeOK', NEW f \in Flushers, NEW r \in hist[f],
         hist' = [hist EXCEPT ![f] = @ \ {r}],
         cur'[f] \subseteq cur[f],
         \A g \in Flushers \ {f} : cur'[g] = cur[g] /\ pc'[g] = pc[g],
         pc'[f] \notin {"insert", "fallback"} => hist'[f] = {},
         failed' = failed \cup {r},
         UNCHANGED <<nextId, inputChan, buffer, received, duplicates, written,
                     history, current>>
  PROVE  IInv'
<1>1. hist \in [Flushers -> SUBSET Row] /\ cur \in [Flushers -> SUBSET Row]
  BY DEF IInv, TypeOK
<1>2. NumbersAscend'
  BY DEF IInv, NumbersAscend
<1>3. IdleHoldsNothing'
  BY <1>1 DEF IInv, IdleHoldsNothing
<1>4. BatchKeysUnique'
  BY <1>1 DEF IInv, BatchKeysUnique
<1>5. Accounting'
  <2>1. /\ received = Points(buffer) \cup hist["loop"] \cup hist["ticker"] \cup Settled
        /\ Points(buffer) \cap (hist["loop"] \cup hist["ticker"] \cup Settled) = {}
        /\ hist["loop"] \cap (hist["ticker"] \cup Settled) = {}
        /\ hist["ticker"] \cap Settled = {}
        /\ duplicates \cap (written \cup failed) = {}
        /\ written \cap failed = {}
    BY DEF IInv, Accounting
  <2>2. Points(buffer') = Points(buffer)
    OBVIOUS
  <2>3. CASE f = "loop"
    <3>1. hist'["loop"] = hist["loop"] \ {r} /\ hist'["ticker"] = hist["ticker"]
            /\ r \in hist["loop"]
      BY <1>1, <2>3 DEF Flushers
    <3> QED BY <2>1, <2>2, <3>1 DEF Accounting, Settled
  <2>4. CASE f = "ticker"
    <3>1. hist'["ticker"] = hist["ticker"] \ {r} /\ hist'["loop"] = hist["loop"]
            /\ r \in hist["ticker"]
      BY <1>1, <2>4 DEF Flushers
    <3> QED BY <2>1, <2>2, <3>1 DEF Accounting, Settled
  <2> QED BY <2>3, <2>4 DEF Flushers
<1>6. KeysUnique' /\ WrittenIsStored'
  BY DEF IInv, KeysUnique, WrittenIsStored
<1> QED BY <1>2, <1>3, <1>4, <1>5, <1>6 DEF IInv

\* Every step keeps the invariant.
LEMMA NextIInv == IInv /\ [Next]_vars => IInv'
<1> SUFFICES ASSUME IInv, [Next]_vars PROVE IInv'
  OBVIOUS
<1>1. TypeOK' /\ TypeOK
  BY NextTypeOK DEF IInv
<1>2. CASE Tick
  BY <1>1, <1>2, QuietStep DEF Tick, batchVars
<1>3. ASSUME NEW shape \in Shapes, Send(shape) PROVE IInv'
  BY <1>1, <1>3, SendStep
<1>4. CASE LoopReceive
  BY <1>1, <1>4, ReceiveStep
<1>5. CASE LoopExit
  BY <1>1, <1>5, QuietStep DEF LoopExit, chanVars, Flushers, TypeOK
<1>6. CASE TickerFires
  BY <1>1, <1>6, QuietStep DEF TickerFires, chanVars, Flushers, TypeOK
<1>7. CASE TickerCancelled
  BY <1>1, <1>7, QuietStep DEF TickerCancelled, chanVars, Flushers, TypeOK
<1>8. CASE TickerDrains
  BY <1>1, <1>8, QuietStep DEF TickerDrains, chanVars, Flushers, TypeOK
<1>9. ASSUME NEW f \in Flushers, TakeBatch(f) PROVE IInv'
  BY <1>1, <1>9, TakeStep
<1>10. ASSUME NEW f \in Flushers, BatchCommit(f) PROVE IInv'
  <2>1. /\ hist' = [hist EXCEPT ![f] = @ \ hist[f]]
        /\ cur'[f] \subseteq cur[f]
        /\ \A g \in Flushers \ {f} : cur'[g] = cur[g] /\ pc'[g] = pc[g]
        /\ hist'[f] = {}
    BY <1>1, <1>10 DEF BatchCommit, TypeOK
  <2> QED
    BY <1>1, <1>10, <2>1, WriteStep DEF BatchCommit, chanVars
<1>11. ASSUME NEW f \in Flushers, BatchFail(f) PROVE IInv'
  BY <1>1, <1>11, QuietStep DEF BatchFail, chanVars, TypeOK
<1>12. ASSUME NEW f \in Flushers, FallbackCommit(f) PROVE IInv'
  <2>1. PICK r \in NextHist(f), c \in cur[f] :
             /\ history' = InsertIgnore(history, {r})
             /\ current' = Upsert(current, {c})
             /\ written' = written \cup {r}
             /\ hist' = [hist EXCEPT ![f] = @ \ {r}]
             /\ cur' = [cur EXCEPT ![f] = IF hist[f] = {r} THEN {} ELSE @ \ {c}]
             /\ pc' = [pc EXCEPT ![f] = AfterRow(f, r)]
    BY <1>12 DEF FallbackCommit
  <2>2. {r} \in SUBSET hist[f] /\ {c} \in SUBSET cur[f]
    BY DEF NextHist
  <2>3. /\ cur'[f] \subseteq cur[f]
        /\ \A g \in Flushers \ {f} : cur'[g] = cur[g] /\ pc'[g] = pc[g]
        /\ pc'[f] \notin {"insert", "fallback"} => hist'[f] = {}
    BY <1>1, <2>1 DEF TypeOK, AfterRow
  <2> QED
    BY <1>1, <1>12, <2>1, <2>2, <2>3, WriteStep DEF FallbackCommit, chanVars
<1>13. ASSUME NEW f \in Flushers, FallbackFail(f) PROVE IInv'
  <2>1. PICK r \in NextHist(f), rest \in CurAfterFailure(f) :
             /\ failed' = failed \cup {r}
             /\ hist' = [hist EXCEPT ![f] = @ \ {r}]
             /\ cur' = [cur EXCEPT ![f] = IF hist[f] = {r} THEN {} ELSE rest]
             /\ pc' = [pc EXCEPT ![f] = AfterRow(f, r)]
    BY <1>13 DEF FallbackFail
  <2>2. r \in hist[f] /\ rest \subseteq cur[f]
    BY DEF NextHist, CurAfterFailure
  <2>3. /\ cur'[f] \subseteq cur[f]
        /\ \A g \in Flushers \ {f} : cur'[g] = cur[g] /\ pc'[g] = pc[g]
        /\ pc'[f] \notin {"insert", "fallback"} => hist'[f] = {}
    BY <1>1, <2>1, <2>2 DEF TypeOK, AfterRow
  <2> QED
    BY <1>1, <1>13, <2>1, <2>2, <2>3, FailStep DEF FallbackFail, chanVars, dbVars
<1>14. ASSUME NEW f \in Flushers, FallbackPanic(f) PROVE IInv'
  BY <1>1, <1>14, QuietStep DEF FallbackPanic, chanVars, batchVars
<1>15. CASE Stopping
  BY <1>1, <1>15, QuietStep DEF Stopping, CloseInput, CancelContext, SignalLoop,
     SignalWriter, FinishStop, StopStep, chanVars, batchVars
<1>16. CASE UNCHANGED vars
  BY <1>1, <1>16, QuietStep DEF vars, chanVars, batchVars
<1> QED
  BY <1>2, <1>3, <1>4, <1>5, <1>6, <1>7, <1>8, <1>9, <1>10, <1>11, <1>12,
     <1>13, <1>14, <1>15, <1>16 DEF Next, Flush

-----------------------------------------------------------------------------
(* The theorems.                                                            *)

LEMMA Inductive == Spec => []IInv
  BY InitIInv, NextIInv, PTL DEF Spec

\* No point is lost between the buffer, the two batches and the counters, and
\* none is counted twice, whichever goroutine flushes and whatever fails.
THEOREM AccountingHolds == Spec => []Accounting
<1>1. IInv => Accounting
  BY DEF IInv
<1> QED BY <1>1, Inductive, PTL

\* The two tables keep their unique keys although two goroutines insert
\* overlapping batches and rows are retried one at a time.
THEOREM KeysStayUnique == Spec => []KeysUnique
<1>1. IInv => KeysUnique
  BY DEF IInv
<1> QED BY <1>1, Inductive, PTL

\* What the metrics count as written is in the history table.
THEOREM WrittenStaysStored == Spec => []WrittenIsStored
<1>1. IInv => WrittenIsStored
  BY DEF IInv
<1> QED BY <1>1, Inductive, PTL

\* No step of the writer changes or removes a row of the history table.
THEOREM HistoryNeverShrinks == Spec => HistoryImmutable
<1>1. [Next]_vars => [history \subseteq history']_history
  BY DEF Next, Flush, Stopping, vars, Tick, Send, LoopReceive, LoopExit,
     TickerFires, TickerCancelled, TickerDrains, TakeBatch, BatchCommit,
     BatchFail, FallbackCommit, FallbackFail, FallbackPanic, CloseInput,
     CancelContext, SignalLoop, SignalWriter, FinishStop, InsertIgnore, dbVars
<1> QED BY <1>1, PTL DEF Spec, HistoryImmutable

-----------------------------------------------------------------------------
(* Stop waits for both goroutines.                                          *)

\* Each wait of Stop that did not run out was for a goroutine that ended.
Awaited ==
    ~timedOut => /\ stop \in {"writerSignalled", "stopped"} => pc["loop"] = "exited"
                 /\ stop = "stopped" => pc["ticker"] = "exited"

\* A goroutine that has ended does nothing any more.
LEMMA EndedStays ==
  ASSUME TypeOK, [Next]_vars, NEW g \in Flushers, pc[g] = "exited"
  PROVE  pc'[g] = "exited"
<1> USE DEF TypeOK
<1>1. CASE Tick \/ (\E shape \in Shapes : Send(shape)) \/ Stopping \/ UNCHANGED vars
  BY <1>1 DEF Tick, Send, Stopping, CloseInput, CancelContext, SignalLoop, SignalWriter,
     FinishStop, batchVars, vars
<1>2. CASE LoopReceive \/ LoopExit
  BY <1>2 DEF LoopReceive, LoopExit
<1>3. CASE TickerFires \/ TickerCancelled \/ TickerDrains
  BY <1>3 DEF TickerFires, TickerCancelled, TickerDrains
<1>4. ASSUME NEW f \in Flushers, Flush(f) PROVE pc'[g] = "exited"
  <2>1. f = g => pc' = pc
    BY <1>4 DEF Flush, TakeBatch, BatchCommit, BatchFail, FallbackCommit, FallbackFail,
       FallbackPanic, batchVars
  <2>2. f # g => pc'[g] = pc[g]
    BY <1>4 DEF Flush, TakeBatch, BatchCommit, BatchFail, FallbackCommit, FallbackFail,
       FallbackPanic, batchVars
  <2> QED BY <2>1, <2>2
<1> QED
  BY <1>1, <1>2, <1>3, <1>4 DEF Next

LEMMA NextAwaited == TypeOK /\ Awaited /\ [Next]_vars => Awaited'
<1> SUFFICES ASSUME TypeOK, Awaited, [Next]_vars PROVE Awaited'
  OBVIOUS
<1>1. CASE Stopping
  BY <1>1 DEF Awaited, Stopping, CloseInput, CancelContext, SignalLoop, SignalWriter,
     FinishStop, StopStep, LoopDone, batchVars
<1>2. CASE ~Stopping
  <2>1. UNCHANGED <<stop, timedOut>>
    BY <1>2 DEF Next, Tick, Send, LoopReceive, LoopExit, TickerFires, TickerCancelled,
       TickerDrains, Flush, TakeBatch, BatchCommit, BatchFail, FallbackCommit, FallbackFail,
       FallbackPanic, stopVars, vars
  <2> QED BY <2>1, EndedStays DEF Awaited, Flushers
<1> QED
  BY <1>1, <1>2

\* When Stop returns without a timeout neither goroutine is at work, and none will be.
THEOREM StopLeavesNoOne == Spec => []StopQuiesces
<1>1. Init => TypeOK /\ Awaited
  BY InitTypeOK DEF Init, Awaited
<1>2. TypeOK /\ Awaited /\ [Next]_vars => (TypeOK /\ Awaited)'
  BY NextTypeOK, NextAwaited
<1>3. Awaited => StopQuiesces
  BY DEF Awaited, StopQuiesces, Flushers
<1> QED BY <1>1, <1>2, <1>3, PTL DEF Spec

-----------------------------------------------------------------------------
(* The latest values, as long as no transaction is refused.                 *)

\* Without a refusal nobody falls back, and the latest rows of a batch are among
\* the rows that the same transaction inserts.
Whole == \A f \in Flushers : pc[f] # "fallback" /\ cur[f] \subseteq hist[f]

LEMMA NextBacked ==
  ASSUME ~InsertMayFail
  PROVE  TypeOK /\ Whole /\ CurrentIsBacked /\ [Next]_vars => (Whole /\ CurrentIsBacked)'
<1> SUFFICES ASSUME TypeOK, Whole, CurrentIsBacked, [Next]_vars
             PROVE  Whole' /\ CurrentIsBacked'
  OBVIOUS
<1> USE DEF TypeOK
<1>1. ASSUME UNCHANGED <<hist, cur, history, current>>,
             \A f \in Flushers : pc'[f] # "fallback"
      PROVE  Whole' /\ CurrentIsBacked'
  BY <1>1 DEF Whole, CurrentIsBacked
<1>2. CASE Tick \/ (\E shape \in Shapes : Send(shape)) \/ Stopping \/ UNCHANGED vars
  <2>1. UNCHANGED <<pc, hist, cur, history, current>>
    BY <1>2 DEF Tick, Send, Stopping, CloseInput, CancelContext, SignalLoop, SignalWriter,
       FinishStop, batchVars, dbVars, vars
  <2> QED BY <1>1, <2>1 DEF Whole
<1>3. CASE LoopReceive \/ LoopExit \/ TickerFires \/ TickerCancelled \/ TickerDrains
  <2>1. UNCHANGED <<hist, cur, history, current>>
    BY <1>3 DEF LoopReceive, LoopExit, TickerFires, TickerCancelled, TickerDrains, dbVars
  <2>2. \A f \in Flushers : pc'[f] # "fallback"
    BY <1>3 DEF Whole, LoopReceive, LoopExit, TickerFires, TickerCancelled, TickerDrains
  <2> QED BY <1>1, <2>1, <2>2
<1>4. ASSUME NEW f \in Flushers, TakeBatch(f) PROVE Whole' /\ CurrentIsBacked'
  <2>1. LatestOf(FirstOf(Points(buffer))) \subseteq FirstOf(Points(buffer))
    BY DEF LatestOf
  <2>2. pc'[f] # "fallback" /\ \A g \in Flushers : g # f => pc'[g] = pc[g]
    BY <1>4 DEF TakeBatch, Resume
  <2>3. cur'[f] \subseteq hist'[f]
    BY <1>4, <2>1 DEF TakeBatch
  <2>4. \A g \in Flushers : g # f => cur'[g] = cur[g] /\ hist'[g] = hist[g]
    BY <1>4 DEF TakeBatch
  <2> QED BY <1>4, <2>2, <2>3, <2>4 DEF TakeBatch, Whole, CurrentIsBacked, dbVars
<1>5. ASSUME NEW f \in Flushers, BatchCommit(f) PROVE Whole' /\ CurrentIsBacked'
  <2>1. pc'[f] # "fallback" /\ \A g \in Flushers : g # f => pc'[g] = pc[g]
    BY <1>5 DEF BatchCommit, Resume
  <2>2. \A g \in Flushers : cur'[g] \subseteq hist'[g]
    BY <1>5 DEF BatchCommit, Whole
  <2>3. history \subseteq history' /\ \A r \in hist[f] : \E h \in history' : SameKey(h, r)
    BY <1>5 DEF BatchCommit, InsertIgnore, SameKey
  <2>4. current' \subseteq current \cup cur[f]
    BY <1>5 DEF BatchCommit, Upsert
  <2>5. \A c \in current \cup cur[f] : \E h \in history' : SameKey(h, c)
    BY <2>3 DEF Whole, CurrentIsBacked
  <2> QED BY <2>1, <2>2, <2>4, <2>5 DEF Whole, CurrentIsBacked
<1>6. ASSUME NEW f \in Flushers,
             BatchFail(f) \/ FallbackCommit(f) \/ FallbackFail(f) \/ FallbackPanic(f)
      PROVE  FALSE
  BY <1>6 DEF Whole, BatchFail, FallbackCommit, FallbackFail, FallbackPanic
<1> QED
  BY <1>2, <1>3, <1>4, <1>5, <1>6 DEF Next, Flush

\* As long as the database refuses no transaction, every latest value is in the
\* history: the two goroutines' interleaved batches write both tables together.
THEOREM CurrentStaysBacked ==
  ASSUME ~InsertMayFail
  PROVE  Spec => []CurrentIsBacked
<1> DEFINE Inv == TypeOK /\ Whole /\ CurrentIsBacked
<1>1. Init => Inv
  BY InitTypeOK DEF Init, Whole, CurrentIsBacked, Flushers
<1>2. Inv /\ [Next]_vars => Inv'
  BY NextTypeOK, NextBacked
<1>3. Inv => CurrentIsBacked
  OBVIOUS
<1> QED BY <1>1, <1>2, <1>3, PTL DEF Spec
=============================================================================
