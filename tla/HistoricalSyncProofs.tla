------------------------- MODULE HistoricalSyncProofs --------------------------
(***************************************************************************)
(* Theorems about HistoricalSync, for every history of logs, every size of  *)
(* the ranges, wherever the contract is created, and any number of failing  *)
(* requests and handlers and of crashes.                                    *)
(***************************************************************************)
EXTENDS HistoricalSync, SequenceTheorems, TLAPS

-------------------------------------------------------------------------------
(* What holds in every history.                                             *)

\* the blocks whose events are still to be processed: the job of a block waits
\* in the queue, runs, waits for its retry or is still to be pushed
Queued  == {events[i] : i \in DOMAIN events}
Started == {b \in Block : event # NoJob /\ event.at = "process" /\ event.block = b}
Failed  == {b \in Block : retrying # NoJob /\ retrying = b}
Left    == {b \in Block : batch # NoJob /\ batch.at = "push" /\ b \in batch.left}

Awaiting == Queued \cup Started \cup Failed \cup Left

\* those that have a job, with the one whose job is about to end
Pushed ==
    Queued \cup Failed \cup {b \in Block : event # NoJob /\ event.block = b}

\* A block has one events job.
OneJob ==
    /\ \A i, j \in DOMAIN events : events[i] = events[j] => i = j
    /\ Queued \cap Failed = {}
    /\ Started \cap (Queued \cup Failed) = {}
    /\ Left \cap (Queued \cup Failed \cup Started) = {}

\* It comes from a range that has been fetched, and the next range is above it.
Within ==
    \A b \in Pushed :
        /\ b <= memory.lastEnd
        /\ IF batch # NoJob /\ batch.at = "push"
           THEN b <= batch.end ELSE b <= memory.completedUpto
        /\ batch # NoJob /\ batch.at = "fetch" => b < batch.job.from

LastRange ==
    batch # NoJob /\ batch.at # "wait" => memory.lastEnd = batch.job.to

\* Events that are still to be processed have not been, and those of a complete
\* block have been processed once.
Fresh ==
    /\ Awaiting \cap complete = {}
    /\ \A b \in Height : \A c \in Contract :
           applied[b][c] <= IF b \in complete THEN 1 ELSE 0

\* The database: the sync status and a job that ends name complete blocks, and a
\* contract is watched since the block that creates it is complete.
Database ==
    /\ status.processed \in complete
    /\ event # NoJob /\ event.at # "process" => event.block \in complete
    /\ "pool" \in watched <=> creation \in complete

OnceInv ==
    /\ Types
    /\ OneJob
    /\ Within
    /\ LastRange
    /\ Fresh
    /\ Database

-------------------------------------------------------------------------------
(* Numbers and sequences.                                                   *)

LEMMA MinOfTwo ==
    ASSUME NEW a \in Int, NEW b \in Int
    PROVE  Min({a, b}) = IF a <= b THEN a ELSE b
<1> DEFINE m == IF a <= b THEN a ELSE b
<1>1. m \in {a, b} /\ \A y \in {a, b} : m =< y
  OBVIOUS
<1>2. \A x \in {a, b} : (\A y \in {a, b} : x =< y) => x = m
  OBVIOUS
<1> QED
  BY <1>1, <1>2 DEF Min

LEMMA MaxOfTwo ==
    ASSUME NEW a \in Int, NEW b \in Int
    PROVE  Max({a, b}) = IF a >= b THEN a ELSE b
<1> DEFINE m == IF a >= b THEN a ELSE b
<1>1. m \in {a, b} /\ \A y \in {a, b} : m >= y
  OBVIOUS
<1>2. \A x \in {a, b} : (\A y \in {a, b} : x >= y) => x = m
  OBVIOUS
<1> QED
  BY <1>1, <1>2 DEF Max

LEMMA JobRemoved ==
    ASSUME NEW S, NEW s \in Seq(S), NEW k \in DOMAIN s
    PROVE  /\ RemoveAt(s, k) \in Seq(S)
           /\ Len(s) <= 1 => RemoveAt(s, k) = <<>>
BY DEF RemoveAt

\* the blocks of a range that is fetched
LEMMA RangeTyped ==
    ASSUME NEW job \in HistoryJob, NEW deleted \in BOOLEAN, watched \subseteq Contract
    PROVE  /\ Fetching(job, deleted) \in Batch
           /\ [Fetching(job, deleted) EXCEPT !.at = "wait"] \in Batch
<1> DEFINE end == Min({job.from + LogsBlockRange, job.to})
<1>1. /\ job.from \in 1..(Tip + 1) /\ job.to \in Height
      /\ job.from <= job.to + 1
      /\ LogsBlockRange \in Nat /\ Tip \in Nat
  BY HistoryAssumption DEF HistoryJob
<1>2. end = IF job.from + LogsBlockRange <= job.to
            THEN job.from + LogsBlockRange ELSE job.to
  BY <1>1, MinOfTwo DEF Height
<1>3. end \in Height /\ job.from <= end + 1 /\ end <= job.to
  BY <1>1, <1>2 DEF Height
<1> QED
  BY <1>3 DEF Fetching, Batch

-------------------------------------------------------------------------------
(* The steps keep OnceInv.                                                  *)

LEMMA EmitsTyped ==
    ASSUME Types, NEW b \in Height
    PROVE  /\ Emits(b) \subseteq Contract
           /\ creation \in Block /\ creation \in Height
           /\ "factory" \in Emits(creation)
BY HistoryAssumption DEF Types, Emits, Contract, Height, Block

\* the blocks that wait for their events are blocks of the history
LEMMA AwaitingTyped ==
    ASSUME Types
    PROVE  /\ Queued \subseteq Block /\ Awaiting \subseteq Block
           /\ Pushed \subseteq Block /\ Block \subseteq Height
           /\ Queued \cup Started \cup Failed \subseteq Pushed
BY HistoryAssumption
DEF Types, Queued, Started, Failed, Left, Awaiting, Pushed, Block, Height

\* resetWatcherToBlock forgets what is above the block, and no more
LEMMA ResetForgets ==
    ASSUME Types, Fresh, Database, creation' = creation,
           NEW n \in complete, NEW p \in complete, resetWatcherToBlock(n, p)
    PROVE  /\ rows' \in [Height -> SUBSET Contract]
           /\ complete' \subseteq {x \in Height : Saved(x)'}
           /\ complete' = {x \in complete : x <= n}
           /\ applied' \in [Height -> [Contract -> Nat]]
           /\ \A x \in Height : x <= n => applied'[x] = applied[x]
           /\ status' \in [head : Height, processed : Height]
           /\ status'.head = n
           /\ status'.processed \in complete'
           /\ status'.processed <= n /\ status'.processed <= p
           /\ "factory" \in watched' /\ watched' \subseteq Contract
           /\ "pool" \in watched' <=> creation \in complete'
           /\ \A x \in Height : \A c \in Contract :
                  applied'[x][c] <= IF x \in complete' THEN 1 ELSE 0
<1>1. /\ rows \in [Height -> SUBSET Contract]
      /\ applied \in [Height -> [Contract -> Nat]]
      /\ n \in Height /\ p \in Height /\ Height \subseteq Int
      /\ creation \in Height /\ Contract = {"factory", "pool"}
  BY EmitsTyped DEF Types, Height, Contract
<1>2. /\ rows' = [x \in Height |-> IF x > n THEN {} ELSE rows[x]]
      /\ complete' = {x \in complete : x <= n}
      /\ applied' = [x \in Height |-> IF x > n THEN Nothing[x] ELSE applied[x]]
      /\ watched' = IF creation > n THEN watched \ {"pool"} ELSE watched
      /\ status' = [head |-> n, processed |-> Min({p, n})]
  BY DEF resetWatcherToBlock
<1>3. Min({p, n}) = IF p <= n THEN p ELSE n
  BY <1>1, MinOfTwo
<1>4. Nothing \in [Height -> [Contract -> Nat]]
      /\ \A x \in Height : \A c \in Contract : Nothing[x][c] = 0
  BY DEF Nothing
<1>5. /\ rows' \in [Height -> SUBSET Contract]
      /\ applied' \in [Height -> [Contract -> Nat]]
  BY <1>1, <1>2, <1>4
<1>6. ASSUME NEW x \in complete'
      PROVE  x \in Height /\ Saved(x)'
  <2>1. x \in complete /\ x <= n
    BY <1>2, <1>6
  <2>2. x \in Height /\ rows[x] # {}
    BY <2>1 DEF Types, Saved
  <2>3. ~(x > n)
    BY <1>1, <2>1, <2>2
  <2>4. rows'[x] = rows[x]
    BY <1>2, <2>2, <2>3
  <2> QED
    BY <2>2, <2>4 DEF Saved
<1>7. /\ status' \in [head : Height, processed : Height]
      /\ status'.head = n
      /\ status'.processed \in complete'
      /\ status'.processed <= n /\ status'.processed <= p
  BY <1>1, <1>2, <1>3
<1>8. /\ "factory" \in watched' /\ watched' \subseteq Contract
      /\ "pool" \in watched' <=> creation \in complete'
  BY <1>1, <1>2 DEF Types, Database
<1>9. ASSUME NEW x \in Height, NEW c \in Contract
      PROVE  applied'[x][c] <= IF x \in complete' THEN 1 ELSE 0
  <2>1. CASE x > n
    BY <1>1, <1>2, <1>4, <1>9, <2>1
  <2>2. CASE ~(x > n)
    <3>1. applied'[x] = applied[x] /\ (x \in complete' <=> x \in complete)
      BY <1>1, <1>2, <2>2
    <3> QED
      BY <1>9, <3>1 DEF Fresh
  <2> QED
    BY <2>1, <2>2
<1>10. \A x \in Height : x <= n => applied'[x] = applied[x]
  BY <1>1, <1>2
<1> QED
  BY <1>2, <1>5, <1>6, <1>7, <1>8, <1>9, <1>10

\* the events jobs are those of before, or some of them
LEMMA JobsKept ==
    ASSUME OneJob, Fresh, UNCHANGED <<applied, complete>>,
           Queued' \subseteq Queued, Started' \subseteq Started,
           Failed' \subseteq Failed, Left' \subseteq Left,
           \A i, j \in DOMAIN events' : events'[i] = events'[j] => i = j
    PROVE  OneJob' /\ Fresh'
BY DEF OneJob, Fresh, Awaiting

\* a historical job starts
LEMMA HistoricalStarts ==
    ASSUME OnceInv, StartHistorical
    PROVE  OnceInv'
<1> USE DEF dbVars
<1>1. PICK k \in DOMAIN queue :
          LET job == queue[k] IN
          \/ /\ queue' = <<>> /\ events' = <<>> /\ retrying' = NoJob
             /\ batch' = [Fetching(job, FALSE) EXCEPT !.at = "wait"]
             /\ UNCHANGED memory
          \/ /\ Follows(job.from)
             /\ queue' = RemoveAt(queue, k)
             /\ batch' = Fetching(job, FALSE)
             /\ memory' = [memory EXCEPT !.lastEnd = job.to]
             /\ UNCHANGED <<events, retrying>>
          \/ /\ queue' = RemoveAt(queue, k)
             /\ UNCHANGED <<batch, events, retrying, memory>>
  BY DEF StartHistorical
<1> DEFINE job == queue[k]
<1>2. /\ batch = NoJob /\ job \in HistoryJob
      /\ UNCHANGED <<dbVars, event>>
      /\ RemoveAt(queue, k) \in Seq(HistoryJob)
      /\ Types /\ watched \subseteq Contract
  BY JobRemoved DEF StartHistorical, OnceInv, Types
<1>3. job.from \in Nat \ {0} /\ job.to \in Height /\ job.from <= job.to + 1
  BY <1>2 DEF HistoryJob
<1>4. Database' /\ UNCHANGED <<applied, complete>>
  BY <1>2 DEF OnceInv, Database
<1>5. CASE /\ queue' = <<>> /\ events' = <<>> /\ retrying' = NoJob
           /\ batch' = [Fetching(job, FALSE) EXCEPT !.at = "wait"]
           /\ UNCHANGED memory
  <2>1. batch' \in Batch /\ batch'.at = "wait"
    BY <1>2, <1>5, RangeTyped DEF Fetching
  <2>2. Types'
    BY <1>2, <1>5, <2>1, EmptySeq DEF Types, Saved
  <2>3. /\ DOMAIN events' = {}
        /\ Queued' = {} /\ Failed' = {} /\ Left' = {} /\ Started' = Started
    BY <1>2, <1>5, <2>1, EmptySeq DEF Queued, Failed, Left, Started
  <2>4. OneJob' /\ Fresh'
    BY <1>4, <2>3, JobsKept DEF OnceInv
  <2>5. Within'
    BY <1>2, <1>5, <2>1, <2>3 DEF OnceInv, Within, Pushed
  <2>6. LastRange'
    BY <2>1 DEF LastRange
  <2> QED
    BY <1>4, <2>2, <2>4, <2>5, <2>6 DEF OnceInv
<1>6. CASE /\ Follows(job.from)
           /\ queue' = RemoveAt(queue, k)
           /\ batch' = Fetching(job, FALSE)
           /\ memory' = [memory EXCEPT !.lastEnd = job.to]
           /\ UNCHANGED <<events, retrying>>
  <2>1. /\ batch' \in Batch /\ batch'.at = "fetch" /\ batch'.job = job
    BY <1>2, <1>6, RangeTyped DEF Fetching
  <2>2. /\ memory' \in Memory /\ memory'.lastEnd = job.to
        /\ memory'.completedUpto = memory.completedUpto
        /\ memory.completedUpto \in Height
    BY <1>2, <1>3, <1>6 DEF Types, Memory
  <2>3. Types'
    BY <1>2, <1>6, <2>1, <2>2 DEF Types, Saved
  <2>4. /\ Queued' = Queued /\ Failed' = Failed /\ Started' = Started
        /\ Left' = {} /\ Pushed' = Pushed
    BY <1>2, <1>6, <2>1 DEF Queued, Failed, Left, Started, Pushed
  <2>5. OneJob' /\ Fresh'
    BY <1>4, <1>6, <2>4, JobsKept DEF OnceInv, OneJob
  <2>6. ASSUME NEW b \in Pushed
        PROVE  b <= job.to /\ b <= memory.completedUpto /\ b < job.from
    <3>1. b \in Nat \ {0} /\ memory.completedUpto \in Nat /\ job.to \in Nat
      BY <1>2, <1>3, <2>2, AwaitingTyped DEF Block, Height
    <3>2. b <= memory.completedUpto
      BY <1>2 DEF OnceInv, Within
    <3>3. job.from - 1 = memory.completedUpto
      BY <1>6, <3>1, <3>2 DEF Follows
    <3> QED
      BY <1>3, <3>1, <3>2, <3>3
  <2>7. Within'
    BY <2>1, <2>2, <2>4, <2>6 DEF Within
  <2>8. LastRange'
    BY <2>1, <2>2 DEF LastRange
  <2> QED
    BY <1>4, <2>3, <2>5, <2>7, <2>8 DEF OnceInv
<1>7. CASE /\ queue' = RemoveAt(queue, k)
           /\ UNCHANGED <<batch, events, retrying, memory>>
  <2>1. Types'
    BY <1>2, <1>7 DEF Types, Saved
  <2>2. /\ Queued' = Queued /\ Failed' = Failed /\ Started' = Started
        /\ Left' = Left /\ Pushed' = Pushed
    BY <1>2, <1>7 DEF Queued, Failed, Left, Started, Pushed
  <2>3. OneJob' /\ Fresh'
    BY <1>4, <1>7, <2>2, JobsKept DEF OnceInv, OneJob
  <2>4. Within' /\ LastRange'
    BY <1>7, <2>2 DEF OnceInv, Within, LastRange
  <2> QED
    BY <1>4, <2>1, <2>3, <2>4 DEF OnceInv
<1> QED
  BY <1>1, <1>5, <1>6, <1>7

\* nothing waits for its events
LEMMA NothingPending ==
    ASSUME events' = <<>>, retrying' = NoJob, event' = NoJob, Left' = {},
           \A x \in Height : \A c \in Contract :
               applied'[x][c] <= IF x \in complete' THEN 1 ELSE 0
    PROVE  OneJob' /\ Fresh' /\ Within'
<1>1. /\ DOMAIN events' = {}
      /\ Queued' = {} /\ Failed' = {} /\ Started' = {} /\ Pushed' = {}
  BY EmptySeq DEF Queued, Failed, Started, Pushed
<1> QED
  BY <1>1 DEF OneJob, Fresh, Within, Awaiting

\* the watcher is reset to the block before the range
LEMMA WatcherRestarts ==
    ASSUME OnceInv, Restart
    PROVE  OnceInv'
<1>1. /\ batch # NoJob /\ batch \in Batch /\ batch.at = "wait"
      /\ events = <<>> /\ retrying = NoJob /\ event = NoJob
      /\ events' = <<>> /\ retrying' = NoJob /\ event' = NoJob
      /\ creation' = creation
      /\ batch.job \in HistoryJob /\ batch.deleted \in BOOLEAN
      /\ Types /\ Fresh /\ Database /\ watched \subseteq Contract
  BY DEF Restart, EventsQueueEmpty, OnceInv, Types, Batch
<1>2. /\ <<>> \in Seq(Block) /\ event' \in {NoJob} \cup EventJob
      /\ creation' \in Creations /\ Left = {}
  BY <1>1, EmptySeq DEF Types, Left
<1>3. CASE CanReset(batch.job.from - 1)
  <2> DEFINE n == batch.job.from - 1
  <2>1. /\ n \in complete /\ status.processed \in complete
        /\ resetWatcherToBlock(n, status.processed)
        /\ batch' = [Fetching(batch.job, batch.deleted) EXCEPT !.filter = watched']
        /\ memory' = [memory EXCEPT !.lastEnd = batch.job.to]
        /\ queue' = queue
    BY <1>1, <1>3 DEF Restart, CanReset, Database
  <2>2. /\ rows' \in [Height -> SUBSET Contract]
        /\ complete' \subseteq {x \in Height : Saved(x)'}
        /\ applied' \in [Height -> [Contract -> Nat]]
        /\ status' \in [head : Height, processed : Height]
        /\ status'.processed \in complete'
        /\ "factory" \in watched' /\ watched' \subseteq Contract
        /\ "pool" \in watched' <=> creation \in complete'
        /\ \A x \in Height : \A c \in Contract :
               applied'[x][c] <= IF x \in complete' THEN 1 ELSE 0
    <3> HIDE DEF n
    <3> QED
      BY <1>1, <2>1, ResetForgets
  <2>3. /\ batch' \in Batch /\ batch'.at = "fetch" /\ batch'.job = batch.job
    BY <1>1, <2>1, <2>2, RangeTyped DEF Fetching, Batch
  <2>4. memory' \in Memory /\ memory'.lastEnd = batch.job.to
    BY <1>1, <2>1 DEF Types, Memory, HistoryJob
  <2>5. Types'
    BY <1>1, <1>2, <2>1, <2>2, <2>3, <2>4 DEF Types
  <2>6. Left' = {}
    BY <2>3 DEF Left
  <2>7. OneJob' /\ Fresh' /\ Within'
    BY <1>1, <2>2, <2>6, NothingPending
  <2>8. LastRange' /\ Database'
    BY <1>1, <2>2, <2>3, <2>4 DEF LastRange, Database
  <2> QED
    BY <2>5, <2>7, <2>8 DEF OnceInv
<1>4. CASE ~CanReset(batch.job.from - 1)
  <2>1. /\ batch' = NoJob
        /\ queue' = IF batch.deleted THEN queue ELSE Append(queue, batch.job)
        /\ UNCHANGED <<rows, complete, applied, status, watched, memory>>
    BY <1>4 DEF Restart, dbVars
  <2>2. queue' \in Seq(HistoryJob)
    BY <1>1, <2>1 DEF Types
  <2>6. Types'
    BY <1>1, <1>2, <2>1, <2>2 DEF Types, Saved
  <2>3. Left' = {}
    BY <2>1 DEF Left
  <2>4. OneJob' /\ Fresh' /\ Within'
    BY <1>1, <2>1, <2>3, NothingPending DEF Fresh
  <2>5. LastRange' /\ Database'
    BY <1>1, <2>1 DEF LastRange, Database
  <2> QED
    BY <2>4, <2>5, <2>6 DEF OnceInv
<1> QED
  BY <1>3, <1>4

\* the blocks with logs are saved; none of them was there, or has an events job
LEMMA BlocksSaved ==
    ASSUME OnceInv, SaveBlocks
    PROVE  OnceInv'
<1>1. /\ batch # NoJob /\ batch \in Batch /\ batch.at = "fetch"
      /\ \A b \in WithLogs : ~Saved(b)
      /\ rows' = [b \in Height |->
                     IF b \in WithLogs THEN Emits(b) \cap batch.filter ELSE rows[b]]
      /\ memory' = [memory EXCEPT !.blocks = memory.blocks \cup WithLogs]
      /\ \/ batch' = NoJob
         \/ batch' = [batch EXCEPT !.at = "push", !.left = WithLogs]
      /\ UNCHANGED <<creation, complete, applied, status, watched, queue, events,
                     retrying, event>>
      /\ Types
  BY DEF SaveBlocks, OnceInv, Types
<1>2. /\ batch.job \in HistoryJob /\ batch.job.from \in Nat \ {0}
      /\ batch.end \in Nat /\ batch.end <= Tip /\ batch.job.to \in Height
      /\ batch.job.from <= batch.end + 1 /\ Tip \in Nat
      /\ batch.filter \subseteq Contract
  BY <1>1, HistoryAssumption DEF Batch, HistoryJob, Height
<1>3. /\ WithLogs \subseteq batch.job.from..batch.end
      /\ WithLogs \subseteq Block /\ WithLogs \subseteq Height
      /\ WithLogs \cap complete = {}
  <2>1. WithLogs \subseteq batch.job.from..batch.end
    BY DEF WithLogs
  <2>2. \A x \in complete : Saved(x)
    BY <1>1 DEF Types
  <2> QED
    BY <1>1, <1>2, <2>1, <2>2 DEF Block, Height
<1>4. ASSUME NEW x \in complete
      PROVE  x \in Height /\ Saved(x)'
  <2>1. x \in Height /\ rows[x] # {} /\ x \notin WithLogs
    BY <1>1, <1>3, <1>4 DEF Types, Saved
  <2> QED
    BY <1>1, <2>1 DEF Saved
<1>5. rows' \in [Height -> SUBSET Contract]
  BY <1>1, <1>2 DEF Types
<1>6. /\ memory' \in Memory /\ memory'.lastEnd = memory.lastEnd
      /\ memory'.completedUpto = memory.completedUpto
  BY <1>1, <1>3 DEF Types, Memory
<1>7. /\ Queued' = Queued /\ Failed' = Failed /\ Started' = Started
      /\ Pushed' = Pushed /\ Left = {}
  BY <1>1 DEF Queued, Failed, Started, Pushed, Left
<1>8. CASE batch' = NoJob
  <2>1. Types'
    BY <1>1, <1>4, <1>5, <1>6, <1>8 DEF Types
  <2>2. Left' = {}
    BY <1>8 DEF Left
  <2>3. OneJob' /\ Fresh'
    BY <1>1, <1>7, <2>2, JobsKept DEF OnceInv, OneJob
  <2>4. Within' /\ LastRange' /\ Database'
    BY <1>1, <1>6, <1>7, <1>8 DEF OnceInv, Within, LastRange, Database
  <2> QED
    BY <2>1, <2>3, <2>4 DEF OnceInv
<1>9. CASE batch' = [batch EXCEPT !.at = "push", !.left = WithLogs]
  <2>1. /\ batch' \in Batch /\ batch'.at = "push" /\ batch'.left = WithLogs
        /\ batch'.job = batch.job /\ batch'.end = batch.end
    BY <1>1, <1>3, <1>9 DEF Batch
  <2>2. Types'
    BY <1>1, <1>4, <1>5, <1>6, <2>1 DEF Types
  <2>3. Left' \subseteq WithLogs
    BY <2>1 DEF Left
  <2>4. ASSUME NEW b \in Pushed
        PROVE  b <= memory.lastEnd /\ b <= memory.completedUpto /\ b <= batch.end
               /\ b \notin WithLogs
    <3>1. /\ b <= memory.lastEnd /\ b <= memory.completedUpto
          /\ b < batch.job.from /\ b \in Nat
      BY <1>1, <2>4, AwaitingTyped DEF OnceInv, Within, Height, Block
    <3> QED
      BY <1>2, <1>3, <3>1
  <2>5. OneJob' /\ Fresh'
    <3>1. Left' \cap (Queued \cup Failed \cup Started) = {}
      BY <1>1, <2>3, <2>4, AwaitingTyped
    <3> QED
      BY <1>1, <1>3, <1>7, <2>3, <3>1 DEF OnceInv, OneJob, Fresh, Awaiting
  <2>6. Within'
    BY <1>6, <1>7, <2>1, <2>4 DEF Within
  <2>7. LastRange' /\ Database'
    BY <1>1, <1>6, <2>1 DEF OnceInv, LastRange, Database
  <2> QED
    BY <2>2, <2>5, <2>6, <2>7 DEF OnceInv
<1> QED
  BY <1>1, <1>8, <1>9

LEMMA FetchRetried ==
    ASSUME OnceInv, FetchFails
    PROVE  OnceInv'
<1>1. /\ batch # NoJob /\ batch \in Batch /\ batch.at = "fetch"
      /\ batch' = NoJob /\ queue' \in Seq(HistoryJob)
      /\ UNCHANGED <<creation, rows, complete, applied, status, watched, events,
                     retrying, event, memory>>
      /\ Types
  BY DEF FetchFails, OnceInv, Types, Batch, dbVars
<1>2. Types'
  BY <1>1 DEF Types, Saved
<1>3. /\ Queued' = Queued /\ Failed' = Failed /\ Started' = Started
      /\ Pushed' = Pushed /\ Left' = {}
  BY <1>1 DEF Queued, Failed, Started, Pushed, Left
<1>4. OneJob' /\ Fresh'
  BY <1>1, <1>3, JobsKept DEF OnceInv, OneJob
<1>5. Within' /\ LastRange' /\ Database'
  BY <1>1, <1>3 DEF OnceInv, Within, LastRange, Database
<1> QED
  BY <1>2, <1>4, <1>5 DEF OnceInv

\* the events job of a block is pushed
LEMMA EventsPushed ==
    ASSUME OnceInv, PushEvents
    PROVE  OnceInv'
<1>1. PICK b \in batch.left :
          /\ events' = Append(events, b)
          /\ batch' = [batch EXCEPT !.left = batch.left \ {b}]
  BY DEF PushEvents
<1>2. /\ batch # NoJob /\ batch \in Batch /\ batch.at = "push"
      /\ UNCHANGED <<creation, rows, complete, applied, status, watched, queue,
                     retrying, event, memory>>
      /\ Types /\ events \in Seq(Block)
  BY DEF PushEvents, OnceInv, Types, dbVars
<1>3. /\ b \in Block /\ b \in Left /\ b \in Nat
      /\ b <= batch.end /\ b <= batch.job.to
  <2>1. /\ batch.left \subseteq Block /\ batch.left \subseteq batch.job.from..batch.end
        /\ batch.end <= batch.job.to /\ batch.job \in HistoryJob /\ batch.end \in Height
    BY <1>2 DEF Batch
  <2> QED
    BY <1>1, <1>2, <2>1 DEF Left, Block, Height, HistoryJob
<1>4. /\ batch' \in Batch /\ batch'.at = "push" /\ batch'.left = batch.left \ {b}
      /\ batch'.job = batch.job /\ batch'.end = batch.end
  BY <1>1, <1>2 DEF Batch
<1>5. /\ events' \in Seq(Block) /\ DOMAIN events' = 1..(Len(events) + 1)
      /\ DOMAIN events = 1..Len(events) /\ Len(events) \in Nat
      /\ events'[Len(events) + 1] = b
      /\ \A i \in DOMAIN events : events'[i] = events[i]
  BY <1>1, <1>2, <1>3
<1>6. /\ Queued' = Queued \cup {b}
  BY <1>5 DEF Queued
<1>7. /\ Failed' = Failed /\ Started' = Started
      /\ Left' \subseteq Left \ {b} /\ Pushed' = Pushed \cup {b}
  BY <1>2, <1>4, <1>6 DEF Failed, Started, Pushed, Left
<1>8. b \notin Queued /\ b \notin Failed /\ b \notin Started /\ b \notin complete
  BY <1>3 DEF OnceInv, OneJob, Fresh, Awaiting
<1>9. Types'
  BY <1>2, <1>4, <1>5 DEF Types, Saved
<1>10. OneJob'
  <2>1. ASSUME NEW i \in DOMAIN events', NEW j \in DOMAIN events', events'[i] = events'[j]
        PROVE  i = j
    <3>1. \A k \in DOMAIN events : events[k] # b
      BY <1>8 DEF Queued
    <3> QED
      BY <1>5, <2>1, <3>1 DEF OnceInv, OneJob
  <2> QED
    BY <1>6, <1>7, <1>8, <2>1 DEF OnceInv, OneJob
<1>11. Fresh'
  BY <1>2, <1>6, <1>7, <1>8 DEF OnceInv, Fresh, Awaiting
<1>12. Within'
  <2>1. memory.lastEnd = batch.job.to
    BY <1>2 DEF OnceInv, LastRange
  <2>2. ASSUME NEW x \in Pushed'
        PROVE  x <= memory.lastEnd /\ x <= batch.end
    BY <1>2, <1>3, <1>7, <2>1, <2>2 DEF OnceInv, Within
  <2>3. batch' # NoJob
    BY <1>4, HistoryAssumption
  <2> QED
    BY <1>2, <1>4, <2>2, <2>3 DEF Within
<1>13. LastRange' /\ Database'
  BY <1>2, <1>4 DEF OnceInv, LastRange, Database
<1> QED
  BY <1>9, <1>10, <1>11, <1>12, <1>13 DEF OnceInv

LEMMA StatusUpdated ==
    ASSUME OnceInv, UpdateStatus
    PROVE  OnceInv'
<1>1. /\ batch # NoJob /\ batch \in Batch /\ batch.at = "push" /\ batch.left = {}
      /\ status' = [status EXCEPT !.head = batch.end]
      /\ memory' = [memory EXCEPT !.completedUpto = batch.end]
      /\ batch' = [batch EXCEPT !.at = "next"]
      /\ UNCHANGED <<creation, rows, complete, applied, watched, queue, events,
                     retrying, event>>
      /\ Types /\ batch.end \in Height
  BY DEF UpdateStatus, OnceInv, Types, Batch
<1>2. /\ batch' \in Batch /\ batch'.at = "next"
      /\ batch'.job = batch.job /\ batch'.end = batch.end
  BY <1>1 DEF Batch
<1>3. /\ memory' \in Memory /\ memory'.lastEnd = memory.lastEnd
      /\ memory'.completedUpto = batch.end
  BY <1>1 DEF Types, Memory
<1>4. /\ status' \in [head : Height, processed : Height]
      /\ status'.processed = status.processed
  BY <1>1 DEF Types
<1>5. Types'
  BY <1>1, <1>2, <1>3, <1>4 DEF Types, Saved
<1>6. /\ Queued' = Queued /\ Failed' = Failed /\ Started' = Started
      /\ Pushed' = Pushed /\ Left' = {}
  BY <1>1, <1>2 DEF Queued, Failed, Started, Pushed, Left
<1>7. OneJob' /\ Fresh'
  BY <1>1, <1>6, JobsKept DEF OnceInv, OneJob
<1>8. Within' /\ LastRange' /\ Database'
  BY <1>1, <1>2, <1>3, <1>4, <1>6 DEF OnceInv, Within, LastRange, Database
<1> QED
  BY <1>5, <1>7, <1>8 DEF OnceInv

LEMMA BatchFinished ==
    ASSUME OnceInv, FinishBatch
    PROVE  OnceInv'
<1>1. /\ batch # NoJob /\ batch \in Batch /\ batch.at = "next"
      /\ queue' = IF batch.end < batch.job.to
                  THEN Append(queue, Job(batch.end + 1, batch.job.to, 0)) ELSE queue
      /\ batch' = NoJob
      /\ UNCHANGED <<creation, rows, complete, applied, status, watched, events,
                     retrying, event, memory>>
      /\ Types /\ queue \in Seq(HistoryJob)
  BY DEF FinishBatch, OnceInv, Types, dbVars
<1>2. ASSUME batch.end < batch.job.to
      PROVE  Job(batch.end + 1, batch.job.to, 0) \in HistoryJob
  <2>1. batch.end \in Nat /\ batch.job.to \in Height /\ batch.job.to <= Tip /\ Tip \in Nat
    BY <1>1, HistoryAssumption DEF Batch, HistoryJob, Height
  <2> QED
    BY <1>2, <2>1 DEF Job, HistoryJob, Height
<1>3. queue' \in Seq(HistoryJob)
  BY <1>1, <1>2
<1>4. Types'
  BY <1>1, <1>3 DEF Types, Saved
<1>5. /\ Queued' = Queued /\ Failed' = Failed /\ Started' = Started
      /\ Pushed' = Pushed /\ Left' = {}
  BY <1>1 DEF Queued, Failed, Started, Pushed, Left
<1>6. OneJob' /\ Fresh'
  BY <1>1, <1>5, JobsKept DEF OnceInv, OneJob
<1>7. Within' /\ LastRange' /\ Database'
  BY <1>1, <1>5 DEF OnceInv, Within, LastRange, Database
<1> QED
  BY <1>4, <1>6, <1>7 DEF OnceInv

LEMMA EventsStarted ==
    ASSUME OnceInv, StartEvents
    PROVE  OnceInv'
<1>1. /\ event = NoJob
      /\ UNCHANGED <<creation, rows, complete, applied, status, watched, queue, batch,
                     memory>>
      /\ Types /\ events \in Seq(Block) /\ retrying \in {NoJob} \cup Block
      /\ Started = {}
  BY DEF StartEvents, OnceInv, Types, dbVars, Started
<1>2. Left' = Left
  BY <1>1 DEF Left
<1>3. CASE /\ events # <<>>
           /\ event' = Handling(Head(events), FALSE)
           /\ events' = Tail(events)
           /\ UNCHANGED retrying
  <2> DEFINE b == Head(events)
  <2>1. /\ events' \in Seq(Block) /\ b \in Block /\ b = events[1]
        /\ DOMAIN events = 1..Len(events) /\ Len(events) \in Nat \ {0}
        /\ DOMAIN events' = 1..(Len(events) - 1)
        /\ \A i \in DOMAIN events' : events'[i] = events[i + 1]
    BY <1>1, <1>3
  <2>2. event' \in EventJob /\ event'.block = b /\ event'.at = "process"
    BY <1>3, <2>1 DEF Handling, EventJob
  <2>3. Types'
    BY <1>1, <1>3, <2>1, <2>2 DEF Types, Saved
  <2>4. /\ \A i, j \in DOMAIN events : events[i] = events[j] => i = j
    BY DEF OnceInv, OneJob
  <2>5. /\ Queued' \subseteq Queued /\ b \in Queued /\ b \notin Queued'
    BY <2>1, <2>4 DEF Queued
  <2>6. /\ Started' \subseteq {b} /\ Failed' = Failed
    BY <1>3, <2>2 DEF Started, Failed
  <2>7. \A i, j \in DOMAIN events' : events'[i] = events'[j] => i = j
    BY <2>1, <2>4
  <2>8. OneJob' /\ Fresh'
    BY <1>1, <1>2, <2>5, <2>6, <2>7 DEF OnceInv, OneJob, Fresh, Awaiting
  <2>9. Pushed' \subseteq Pushed
    BY <2>2, <2>5, <2>6 DEF Pushed
  <2>10. Within' /\ LastRange' /\ Database'
    BY <1>1, <2>2, <2>9 DEF OnceInv, Within, LastRange, Database
  <2> QED
    BY <2>3, <2>8, <2>10 DEF OnceInv
<1>4. CASE /\ retrying # NoJob
           /\ event' = Handling(retrying, TRUE)
           /\ retrying' = NoJob
           /\ UNCHANGED events
  <2>1. /\ event' \in EventJob /\ event'.block = retrying /\ event'.at = "process"
    BY <1>1, <1>4 DEF Handling, EventJob
  <2>2. Types'
    BY <1>1, <1>4, <2>1 DEF Types, Saved
  <2>3. /\ Queued' = Queued /\ Failed' = {} /\ Started' \subseteq Failed
    BY <1>1, <1>4, <2>1 DEF Queued, Failed, Started
  <2>4. OneJob' /\ Fresh'
    BY <1>1, <1>2, <1>4, <2>3 DEF OnceInv, OneJob, Fresh, Awaiting
  <2>5. Pushed' \subseteq Pushed
    BY <1>1, <1>4, <2>1, <2>3 DEF Pushed, Failed
  <2>6. Within' /\ LastRange' /\ Database'
    BY <1>1, <2>1, <2>5 DEF OnceInv, Within, LastRange, Database
  <2> QED
    BY <2>2, <2>4, <2>6 DEF OnceInv
<1> QED
  BY <1>3, <1>4 DEF StartEvents

\* the events of a block are processed: they have not been before
LEMMA EventsProcessed ==
    ASSUME OnceInv, ProcessEvents
    PROVE  OnceInv'
<1> DEFINE b == event.block
<1>1. /\ event # NoJob /\ event.at = "process" /\ event \in EventJob /\ b \in Block
      /\ Saved(b) /\ b \in Started /\ b \in Height /\ b \notin complete
      /\ UNCHANGED <<creation, status, queue, batch, events, retrying>>
      /\ Types /\ Logs(b) \subseteq Contract /\ rows[b] \subseteq Logs(b)
  <2>1. /\ event # NoJob /\ event.at = "process" /\ event \in EventJob /\ b \in Block
        /\ Saved(b) /\ Types
        /\ UNCHANGED <<creation, status, queue, batch, events, retrying>>
    BY DEF ProcessEvents, OnceInv, Types, EventJob
  <2>2. b \in Height /\ b \in Started
    BY <2>1, AwaitingTyped DEF Started
  <2>3. b \notin complete
    BY <2>2 DEF OnceInv, Fresh, Awaiting
  <2>4. Logs(b) \subseteq Contract /\ rows[b] \subseteq Logs(b)
    BY <2>1, <2>2, EmitsTyped DEF Logs, Types
  <2> QED
    BY <2>1, <2>2, <2>3, <2>4
<1>2. /\ applied' = [applied EXCEPT ![b] =
             [c \in Contract |-> IF c \in Logs(b) THEN applied[b][c] + 1
                                                ELSE applied[b][c]]]
      /\ rows' = [rows EXCEPT ![b] = Logs(b)]
      /\ complete' = complete \cup {b}
      /\ watched' = IF b = creation THEN Contract ELSE watched
      /\ memory' = [memory EXCEPT !.blocks = memory.blocks \ {b}]
      /\ event' = [event EXCEPT !.at = IF Creates(b) THEN "created" ELSE "status"]
  BY DEF ProcessEvents
<1>3. rows' \in [Height -> SUBSET Contract]
  BY <1>1, <1>2 DEF Types
<1>4. ASSUME NEW x \in complete'
      PROVE  x \in Height /\ Saved(x)'
  BY <1>1, <1>2, <1>4 DEF Types, Saved
<1>5. applied' \in [Height -> [Contract -> Nat]]
  <2>1. \A c \in Contract : applied[b][c] \in Nat
    BY <1>1 DEF Types
  <2>2. [c \in Contract |-> IF c \in Logs(b) THEN applied[b][c] + 1 ELSE applied[b][c]]
            \in [Contract -> Nat]
    BY <2>1
  <2> QED
    BY <1>1, <1>2, <2>2 DEF Types
<1>6. /\ event' \in EventJob /\ event'.at \in {"created", "status"} /\ event'.block = b
  BY <1>1, <1>2 DEF EventJob
<1>7. /\ memory' \in Memory /\ memory'.lastEnd = memory.lastEnd
      /\ memory'.completedUpto = memory.completedUpto
  BY <1>1, <1>2 DEF Types, Memory
<1>8. "factory" \in watched' /\ watched' \subseteq Contract
  BY <1>1, <1>2 DEF Types, Contract
<1>9. Types'
  BY <1>1, <1>3, <1>4, <1>5, <1>6, <1>7, <1>8 DEF Types
<1>10. /\ Queued' = Queued /\ Failed' = Failed /\ Started' = {} /\ Left' = Left
       /\ Pushed' \subseteq Pushed
  BY <1>1, <1>6 DEF Queued, Failed, Started, Left, Pushed
<1>11. OneJob'
  BY <1>1, <1>10 DEF OnceInv, OneJob
<1>12. Awaiting' \cap complete' = {}
  BY <1>1, <1>2, <1>10 DEF OnceInv, OneJob, Fresh, Awaiting
<1>13. ASSUME NEW x \in Height, NEW c \in Contract
       PROVE  applied'[x][c] <= IF x \in complete' THEN 1 ELSE 0
  <2>1. applied[x][c] \in Nat /\ applied[x][c] <= IF x \in complete THEN 1 ELSE 0
    BY <1>1, <1>13 DEF OnceInv, Fresh, Types
  <2>2. CASE x = b
    <3>1. applied'[b][c] = IF c \in Logs(b) THEN applied[b][c] + 1 ELSE applied[b][c]
      BY <1>1, <1>2, <1>13 DEF Types
    <3> QED
      BY <1>1, <1>2, <2>1, <2>2, <3>1
  <2>3. CASE x # b
    <3>1. applied'[x] = applied[x] /\ (x \in complete' <=> x \in complete)
      BY <1>1, <1>2, <1>13, <2>3 DEF Types
    <3> QED
      BY <2>1, <3>1
  <2> QED
    BY <2>2, <2>3
<1>14. Within' /\ LastRange'
  BY <1>1, <1>7, <1>10 DEF OnceInv, Within, LastRange
<1>15. Database'
  BY <1>1, <1>2, <1>6 DEF OnceInv, Database, Types, Contract
<1> QED
  BY <1>9, <1>11, <1>12, <1>13, <1>14, <1>15 DEF OnceInv, Fresh

\* the history starts again after the block that creates the contract
LEMMA CreationHandled ==
    ASSUME OnceInv, ContractCreated
    PROVE  OnceInv'
<1> DEFINE b == event.block
<1>1. /\ event # NoJob /\ event.at = "created" /\ event \in EventJob /\ b \in Block
      /\ queue' = IF memory.completedUpto > b
                  THEN <<Job(b + 1, memory.lastEnd, 1)>> ELSE queue
      /\ events' = <<>> /\ retrying' = NoJob
      /\ event' = [event EXCEPT !.at = "status"]
      /\ UNCHANGED <<creation, rows, complete, applied, status, watched, batch, memory>>
      /\ Types /\ b \in Pushed
  BY DEF ContractCreated, RestartAfter, OnceInv, Types, EventJob, dbVars, Pushed
<1>2. /\ b \in Nat \ {0} /\ b <= Tip /\ Tip \in Nat
      /\ b <= memory.lastEnd /\ memory.lastEnd \in Height /\ memory.lastEnd \in Nat
  <2>1. memory.lastEnd \in Height /\ b <= memory.lastEnd
    BY <1>1 DEF OnceInv, Within, Types, Memory
  <2> QED
    BY <1>1, <2>1, HistoryAssumption DEF Block, Height
<1>3. Job(b + 1, memory.lastEnd, 1) \in HistoryJob
  BY <1>2 DEF Job, HistoryJob
<1>4. queue' \in Seq(HistoryJob)
  BY <1>1, <1>3 DEF Types
<1>5. event' \in EventJob /\ event'.at = "status" /\ event'.block = b
  BY <1>1 DEF EventJob
<1>6. Types'
  BY <1>1, <1>4, <1>5, EmptySeq DEF Types, Saved
<1>7. /\ DOMAIN events' = {}
      /\ Queued' = {} /\ Failed' = {} /\ Started' = {} /\ Left' = Left
      /\ Pushed' \subseteq Pushed
  BY <1>1, <1>5, EmptySeq DEF Queued, Failed, Started, Left, Pushed
<1>8. OneJob' /\ Fresh'
  BY <1>1, <1>7, JobsKept DEF OnceInv
<1>9. Within' /\ LastRange' /\ Database'
  BY <1>1, <1>5, <1>7 DEF OnceInv, Within, LastRange, Database
<1> QED
  BY <1>6, <1>8, <1>9 DEF OnceInv

LEMMA EventsEnd ==
    ASSUME OnceInv, EventsDone
    PROVE  OnceInv'
<1> DEFINE b == event.block
<1>1. /\ event # NoJob /\ event.at = "status" /\ event \in EventJob
      /\ memory' = [memory EXCEPT !.hasError = FALSE]
      /\ event' = NoJob
      /\ UNCHANGED <<creation, queue, batch, events, retrying>>
      /\ Types /\ Fresh /\ Database /\ b \in complete /\ status.processed \in complete
  BY DEF EventsDone, OnceInv, Types, Database
<1>2. /\ memory' \in Memory /\ memory'.lastEnd = memory.lastEnd
      /\ memory'.completedUpto = memory.completedUpto
  BY <1>1 DEF Types, Memory
<1>3. /\ Queued' = Queued /\ Failed' = Failed /\ Started' = {} /\ Started = {}
      /\ Left' = Left /\ Pushed' \subseteq Pushed /\ Awaiting' = Awaiting
  BY <1>1 DEF Queued, Failed, Started, Left, Pushed, Awaiting
<1>4. OneJob' /\ Within' /\ LastRange'
  BY <1>1, <1>2, <1>3 DEF OnceInv, OneJob, Within, LastRange
<1>5. CASE event.retry
  <2>1. resetWatcherToBlock(b, b)
    BY <1>1, <1>5 DEF EventsDone
  <2>2. /\ rows' \in [Height -> SUBSET Contract]
        /\ complete' \subseteq {x \in Height : Saved(x)'}
        /\ complete' \subseteq complete
        /\ applied' \in [Height -> [Contract -> Nat]]
        /\ status' \in [head : Height, processed : Height]
        /\ status'.processed \in complete'
        /\ "factory" \in watched' /\ watched' \subseteq Contract
        /\ "pool" \in watched' <=> creation \in complete'
        /\ \A x \in Height : \A c \in Contract :
               applied'[x][c] <= IF x \in complete' THEN 1 ELSE 0
    <3> HIDE DEF b
    <3> QED
      BY <1>1, <2>1, ResetForgets
  <2>3. Types'
    BY <1>1, <1>2, <2>2 DEF Types
  <2>4. Fresh' /\ Database'
    BY <1>1, <1>3, <2>2 DEF Fresh, Database
  <2> QED
    BY <1>4, <2>3, <2>4 DEF OnceInv
<1>6. CASE ~event.retry
  <2>1. /\ status' = [status EXCEPT !.processed = Max({status.processed, b})]
        /\ UNCHANGED <<rows, complete, applied, watched>>
    BY <1>1, <1>6 DEF EventsDone
  <2>2. status.processed \in Height /\ b \in Height /\ Height \subseteq Int
    BY <1>1 DEF Types, Height
  <2>3. /\ status' \in [head : Height, processed : Height]
        /\ status'.processed \in complete
    BY <1>1, <2>1, <2>2, MaxOfTwo DEF Types
  <2>4. Types'
    BY <1>1, <1>2, <2>1, <2>3 DEF Types, Saved
  <2>5. Fresh' /\ Database'
    BY <1>1, <1>3, <2>1, <2>3 DEF Fresh, Database
  <2> QED
    BY <1>4, <2>4, <2>5 DEF OnceInv
<1> QED
  BY <1>5, <1>6

\* a handler throws
LEMMA EventsRetried ==
    ASSUME OnceInv, EventsFail
    PROVE  OnceInv'
<1> DEFINE b == event.block
<1>1. /\ event # NoJob /\ event.at = "process" /\ event \in EventJob /\ b \in Block
      /\ memory' = [memory EXCEPT !.hasError = TRUE]
      /\ applied' = Cleared(b)
      /\ watched' = IF b = creation THEN watched \ {"pool"} ELSE watched
      /\ events' = <<>> /\ queue' = <<>> /\ retrying' = b /\ event' = NoJob
      /\ batch' = IF batch = NoJob THEN NoJob ELSE [batch EXCEPT !.deleted = TRUE]
      /\ UNCHANGED <<creation, rows, complete, status>>
      /\ Types
  BY DEF EventsFail, OnceInv, Types, EventJob
<1>2. /\ b \in Started /\ b \in Pushed /\ b \in Height /\ b \notin complete
      /\ b \notin Left
  <2>1. b \in Started /\ b \in Pushed /\ b \in Height
    BY <1>1, AwaitingTyped DEF Started, Pushed
  <2> QED
    BY <2>1 DEF OnceInv, OneJob, Fresh, Awaiting
<1>3. /\ batch # NoJob => /\ batch \in Batch /\ batch' \in Batch
                          /\ batch'.at = batch.at /\ batch'.left = batch.left
                          /\ batch'.job = batch.job /\ batch'.end = batch.end
      /\ batch = NoJob => batch' = NoJob
  BY <1>1 DEF Types, Batch
<1>4. /\ memory' \in Memory /\ memory'.lastEnd = memory.lastEnd
      /\ memory'.completedUpto = memory.completedUpto
  BY <1>1 DEF Types, Memory
<1>5. /\ applied' \in [Height -> [Contract -> Nat]]
      /\ \A x \in Height : \A c \in Contract : applied'[x][c] <= applied[x][c]
  <2>1. \A c \in Contract : Nothing[b][c] = 0
    BY <1>2 DEF Nothing
  <2>2. Nothing[b] \in [Contract -> Nat]
    BY <1>2 DEF Nothing
  <2>3. /\ applied \in [Height -> [Contract -> Nat]]
        /\ applied' = [applied EXCEPT ![b] = Nothing[b]]
    BY <1>1 DEF Types, Cleared
  <2>4. applied' \in [Height -> [Contract -> Nat]]
    BY <2>2, <2>3
  <2>5. ASSUME NEW x \in Height, NEW c \in Contract
        PROVE  applied'[x][c] <= applied[x][c]
    <3>1. applied[x][c] \in Nat
      BY <2>3, <2>5
    <3>2. CASE x = b
      BY <1>2, <2>1, <2>3, <2>5, <3>1, <3>2
    <3>3. CASE x # b
      BY <2>3, <2>5, <3>1, <3>3
    <3> QED
      BY <3>2, <3>3
  <2> QED
    BY <2>4, <2>5
<1>6. /\ "factory" \in watched' /\ watched' \subseteq Contract
      /\ "pool" \in watched' <=> creation \in complete'
  BY <1>1, <1>2 DEF OnceInv, Types, Database
<1>7. Types'
  BY <1>1, <1>3, <1>4, <1>5, <1>6, EmptySeq DEF Types, Saved
<1>8. /\ DOMAIN events' = {}
      /\ Queued' = {} /\ Started' = {} /\ Failed' \subseteq {b} /\ Left' \subseteq Left
      /\ Pushed' \subseteq Pushed
  BY <1>1, <1>2, <1>3, EmptySeq DEF Queued, Started, Failed, Left, Pushed
<1>9. OneJob'
  BY <1>2, <1>8 DEF OneJob
<1>10. Fresh'
  <2>1. Awaiting' \cap complete' = {}
    BY <1>1, <1>2, <1>8 DEF OnceInv, Fresh, Awaiting
  <2>2. ASSUME NEW x \in Height, NEW c \in Contract
        PROVE  applied'[x][c] <= IF x \in complete' THEN 1 ELSE 0
    <3>1. applied[x][c] \in Nat /\ applied'[x][c] \in Nat
      BY <1>1, <1>5, <2>2 DEF Types
    <3>2. applied[x][c] <= IF x \in complete THEN 1 ELSE 0
      BY <2>2 DEF OnceInv, Fresh
    <3> QED
      BY <1>1, <1>5, <2>2, <3>1, <3>2
  <2> QED
    BY <2>1, <2>2 DEF Fresh
<1>11. Within'
  BY <1>3, <1>4, <1>8, HistoryAssumption DEF OnceInv, Within
<1>12. LastRange' /\ Database'
  BY <1>1, <1>3, <1>4, <1>6 DEF OnceInv, LastRange, Database
<1> QED
  BY <1>7, <1>9, <1>10, <1>11, <1>12 DEF OnceInv

\* what startBlockProcessing and the handlers of onComplete jobs leave alone
LEMMA HistoryStarts ==
    ASSUME OnceInv, Server
    PROVE  OnceInv'
<1>1. /\ Types /\ queue \in Seq(HistoryJob)
      /\ UNCHANGED <<creation, rows, complete, applied, status, watched, batch, events,
                     retrying, event, memory>>
  BY DEF Server, startBlockProcessing, historicalProcessingCompleteHandler,
         eventProcessingCompleteHandler, OnceInv, Types, dbVars
<1>2. queue' \in Seq(HistoryJob)
  <2>1. CASE UNCHANGED queue
    BY <1>1, <2>1
  <2>2. CASE startBlockProcessing /\ ~UNCHANGED queue
    <3> DEFINE start == status.head + 1
               end == Min({start + FetchAhead, Tip})
    <3>1. start < Tip /\ queue' = Append(queue, Job(start, end, 1))
      BY <2>2 DEF startBlockProcessing
    <3>2. /\ status.head \in Nat /\ Tip \in Nat /\ FetchAhead \in Nat \ {0}
          /\ start \in Nat \ {0} /\ start + FetchAhead \in Nat
      BY <1>1, HistoryAssumption DEF Types, Height
    <3>3. end = IF start + FetchAhead <= Tip THEN start + FetchAhead ELSE Tip
      BY <3>2, MinOfTwo
    <3>4. end \in Height /\ start <= end + 1 /\ start \in 1..(Tip + 1)
      BY <3>1, <3>2, <3>3 DEF Height
    <3>5. Job(start, end, 1) \in HistoryJob
      BY <3>4 DEF Job, HistoryJob
    <3> QED
      BY <1>1, <3>1, <3>5
  <2> QED
    BY <2>1, <2>2 DEF Server, historicalProcessingCompleteHandler,
                      eventProcessingCompleteHandler
<1>3. Types'
  BY <1>1, <1>2 DEF Types, Saved
<1>4. /\ Queued' = Queued /\ Failed' = Failed /\ Started' = Started
      /\ Pushed' = Pushed /\ Left' = Left
  BY <1>1 DEF Queued, Failed, Started, Pushed, Left
<1>5. OneJob' /\ Fresh'
  BY <1>1, <1>4, JobsKept DEF OnceInv, OneJob
<1>6. Within' /\ LastRange' /\ Database'
  BY <1>1, <1>4 DEF OnceInv, Within, LastRange, Database
<1> QED
  BY <1>3, <1>5, <1>6 DEF OnceInv

LEMMA CrashForgets ==
    ASSUME OnceInv, Crash
    PROVE  OnceInv'
<1> DEFINE n == status.processed
<1>1. /\ n \in complete /\ resetWatcherToBlock(n, n)
      /\ queue' = <<>> /\ batch' = NoJob
      /\ events' = <<>> /\ retrying' = NoJob /\ event' = NoJob
      /\ memory' = [completedUpto |-> 0, lastEnd |-> 0, hasError |-> FALSE, blocks |-> {}]
      /\ creation' = creation
      /\ Types /\ Fresh /\ Database
  BY DEF Crash, CanReset, OnceInv
<1>2. /\ rows' \in [Height -> SUBSET Contract]
      /\ complete' \subseteq {x \in Height : Saved(x)'}
      /\ applied' \in [Height -> [Contract -> Nat]]
      /\ status' \in [head : Height, processed : Height]
      /\ status'.processed \in complete'
      /\ "factory" \in watched' /\ watched' \subseteq Contract
      /\ "pool" \in watched' <=> creation \in complete'
      /\ \A x \in Height : \A c \in Contract :
             applied'[x][c] <= IF x \in complete' THEN 1 ELSE 0
  <2> HIDE DEF n
  <2> QED
    BY <1>1, ResetForgets
<1>3. memory' \in Memory
  BY <1>1, HistoryAssumption DEF Memory, Height
<1>4. Types'
  BY <1>1, <1>2, <1>3, EmptySeq DEF Types
<1>5. Left' = {}
  BY <1>1 DEF Left
<1>6. OneJob' /\ Fresh' /\ Within'
  BY <1>1, <1>2, <1>5, NothingPending
<1>7. LastRange' /\ Database'
  BY <1>1, <1>2 DEF LastRange, Database
<1> QED
  BY <1>4, <1>6, <1>7 DEF OnceInv

LEMMA OnceInit ==
    ASSUME Init
    PROVE  OnceInv
<1>1. /\ creation \in Creations
      /\ rows = [Unsaved EXCEPT ![0] = {"factory"}]
      /\ complete = {0} /\ applied = Nothing
      /\ status = [head |-> 0, processed |-> 0] /\ watched = {"factory"}
      /\ queue = <<>> /\ batch = NoJob
      /\ events = <<>> /\ retrying = NoJob /\ event = NoJob
      /\ memory = [completedUpto |-> 0, lastEnd |-> 0, hasError |-> FALSE, blocks |-> {}]
  BY DEF Init
<1>2. 0 \in Height /\ Contract = {"factory", "pool"} /\ 0 \notin Creations
  BY HistoryAssumption DEF Height, Contract
<1>3. rows \in [Height -> SUBSET Contract] /\ rows[0] = {"factory"}
  BY <1>1, <1>2 DEF Unsaved
<1>4. /\ applied \in [Height -> [Contract -> Nat]]
      /\ \A x \in Height : \A c \in Contract : applied[x][c] = 0
  BY <1>1 DEF Nothing
<1>5. memory \in Memory /\ status \in [head : Height, processed : Height]
  BY <1>1, <1>2 DEF Memory
<1>6. Types
  BY <1>1, <1>2, <1>3, <1>4, <1>5, EmptySeq DEF Types, Saved
<1>7. /\ DOMAIN events = {}
      /\ Queued = {} /\ Failed = {} /\ Started = {} /\ Pushed = {} /\ Left = {}
  BY <1>1, EmptySeq DEF Queued, Failed, Started, Pushed, Left
<1>8. OneJob /\ Within /\ LastRange
  BY <1>1, <1>7 DEF OneJob, Within, LastRange
<1>9. Fresh /\ Database
  BY <1>1, <1>2, <1>4, <1>7 DEF Fresh, Database, Awaiting
<1> QED
  BY <1>6, <1>8, <1>9 DEF OnceInv

LEMMA OnceUnchanged ==
    ASSUME OnceInv, UNCHANGED vars
    PROVE  OnceInv'
<1>1. UNCHANGED <<creation, rows, complete, applied, status, watched, queue, batch, events,
                  retrying, event, memory>>
  BY DEF vars, dbVars
<1>2. /\ Queued' = Queued /\ Failed' = Failed /\ Started' = Started
      /\ Pushed' = Pushed /\ Left' = Left
  BY <1>1 DEF Queued, Failed, Started, Pushed, Left
<1>3. Types'
  BY <1>1 DEF OnceInv, Types, Saved
<1>4. OneJob' /\ Fresh' /\ Within' /\ LastRange' /\ Database'
  BY <1>1, <1>2 DEF OnceInv, OneJob, Fresh, Awaiting, Within, LastRange, Database
<1> QED
  BY <1>3, <1>4 DEF OnceInv

LEMMA OnceStep ==
    ASSUME OnceInv, [Next]_vars
    PROVE  OnceInv'
<1>1. CASE Historical
  BY <1>1, HistoricalStarts, WatcherRestarts, BlocksSaved, FetchRetried, EventsPushed,
     StatusUpdated, BatchFinished DEF Historical
<1>2. CASE Events
  BY <1>2, EventsStarted, EventsProcessed, CreationHandled, EventsEnd DEF Events
<1> QED
  BY <1>1, <1>2, EventsRetried, HistoryStarts, CrashForgets, OnceUnchanged DEF Next

LEMMA ServerStep ==
    ASSUME Types, ServerTypes, [Next]_vars
    PROVE  ServerTypes'
<1>1. CASE UNCHANGED server
  BY <1>1 DEF ServerTypes
<1>2. CASE startBlockProcessing
  <2> DEFINE start == status.head + 1
             end == Min({start + FetchAhead, Tip})
  <2>1. \/ UNCHANGED server
        \/ start < Tip /\ server' = [server EXCEPT !.end = end]
        \/ server' = [server EXCEPT !.realtime = start]
    BY <1>2 DEF startBlockProcessing
  <2>2. /\ status.head \in 0..Tip /\ Tip \in Nat /\ FetchAhead \in Nat
        /\ start \in 1..(Tip + 1) /\ start + FetchAhead \in Nat
    BY HistoryAssumption DEF Types, Height
  <2>3. end = IF start + FetchAhead <= Tip THEN start + FetchAhead ELSE Tip
    BY <2>2, MinOfTwo
  <2>4. end \in Height
    BY <2>2, <2>3 DEF Height
  <2> HIDE DEF start, end
  <2> QED
    BY <2>1, <2>2, <2>4 DEF ServerTypes
<1>3. CASE Crash
  BY <1>3, HistoryAssumption DEF Crash, ServerTypes, Height
<1> QED
  BY <1>1, <1>2, <1>3
  DEF Next, vars, Historical, Events, Server, StartHistorical, Restart, SaveBlocks, FetchFails,
      PushEvents, UpdateStatus, FinishBatch, StartEvents, ProcessEvents, ContractCreated,
      EventsDone, EventsFail, historicalProcessingCompleteHandler,
      eventProcessingCompleteHandler

LEMMA OnceInvariant == Spec => [](OnceInv /\ ServerTypes)
<1>1. Init => OnceInv /\ ServerTypes
  <2>1. Init => server = [end |-> 0, realtime |-> NoBlock]
    BY DEF Init
  <2>2. 0 \in Height
    BY HistoryAssumption DEF Height
  <2> QED
    BY <2>1, <2>2, OnceInit DEF ServerTypes
<1>2. OnceInv /\ ServerTypes /\ [Next]_vars => OnceInv' /\ ServerTypes'
  BY OnceStep, ServerStep DEF OnceInv
<1> QED
  BY <1>1, <1>2, PTL DEF Spec

\* Whatever fails, and however often, the logs of a contract in a block are in the
\* entities at most once: an events job that is retried, a history that starts again
\* after the block of a creation or after a crash never applies them twice
\* (clearProcessedBlockData, resetWatcherToBlock).
THEOREM EventsAppliedOnce == Spec => []AppliedOnce
<1>1. OnceInv => AppliedOnce
  <2> SUFFICES ASSUME OnceInv, NEW b \in Height, NEW c \in Contract
               PROVE  applied[b][c] <= 1
    BY DEF AppliedOnce
  <2>1. applied[b][c] \in Nat /\ applied[b][c] <= IF b \in complete THEN 1 ELSE 0
    BY DEF OnceInv, Types, Fresh
  <2> QED
    BY <2>1
<1> QED
  BY <1>1, OnceInvariant, PTL

-------------------------------------------------------------------------------
(* What holds as long as no events job has created a contract or failed while *)
(* a historical job was in progress, and no historical job has been dropped:  *)
(* one job at a time drives the history, in the queue or in its handler, and  *)
(* every block below it is done, is about to be, or will be fetched again.    *)

Waits    == batch # NoJob /\ batch.at = "wait"
Created  == event # NoJob /\ event.at = "created"
Retrying == retrying # NoJob \/ (event # NoJob /\ event.retry)

AllDone(n) == \A x \in 1..n : Done(x)

\* the block after those that have been fetched
NextFrom ==
    IF queue # <<>> THEN queue[1].from
    ELSE IF batch = NoJob THEN status.head + 1
    ELSE IF batch.at \in {"wait", "fetch"} THEN batch.job.from
    ELSE batch.end + 1

OneToken ==
    /\ batch # NoJob => ~batch.deleted /\ queue = <<>>
    /\ Len(queue) <= 1

\* A block that has been fetched is done, its events wait to be processed, or the
\* contract whose logs were not fetched is still to be created.
Covered ==
    ~Created /\ ~Retrying =>
        \A x \in 1..(NextFrom - 1) :
            Done(x) \/ x \in Awaiting \/ (x > creation /\ "pool" \notin watched)

\* What fails comes after blocks that are done, and so does what has been processed.
BelowDone ==
    /\ retrying # NoJob => AllDone(retrying - 1)
    /\ event # NoJob /\ event.retry => AllDone(event.block - 1)
    /\ event # NoJob /\ event.at # "process" => AllDone(event.block)
    /\ AllDone(status.processed)

\* While events are to be processed, the job-runner and the database agree on how far
\* the blocks have been fetched.
InStep ==
    /\ (Awaiting # {} \/ Created) /\ batch = NoJob =>
           /\ status.head = memory.completedUpto
           /\ queue # <<>> => queue[1].from = memory.completedUpto + 1
    /\ (Awaiting # {} \/ Created) /\ batch # NoJob /\ batch.at = "fetch" =>
           /\ status.head = memory.completedUpto
           /\ batch.job.from = memory.completedUpto + 1
    /\ batch # NoJob /\ batch.at = "next" =>
           status.head = batch.end /\ memory.completedUpto = batch.end

\* The history starts again when nothing is in progress.
WaitsAlone == Waits => Awaiting = {} /\ ~Created

\* A failed job is retried alone; the history goes on after it, at once when the
\* retry has created the contract.
RetriedAlone ==
    /\ memory.hasError => Retrying
    /\ Retrying =>
        /\ events = <<>>
        /\ retrying = NoJob \/ event = NoJob
        /\ batch = NoJob \/ batch.at = "wait"
        /\ event = NoJob \/ event.at # "status" => queue = <<>> /\ batch = NoJob
        /\ event # NoJob /\ event.at = "status" /\ (queue # <<>> \/ batch # NoJob) =>
               NextFrom = event.block + 1 /\ memory.completedUpto > event.block

\* Events are processed in the order of the blocks.
InOrder ==
    /\ \A i, j \in DOMAIN events : i < j => events[i] < events[j]
    /\ \A b \in Started, c \in Queued : b < c
    /\ \A b \in Started \cup Queued, c \in Left : b < c

\* The logs that are missing in a block are those of the contract before it is watched.
RowsKept ==
    ~Created => \A x \in Awaiting :
        /\ "factory" \in Emits(x) => "factory" \in rows[x]
        /\ x > creation /\ "pool" \in watched => Emits(x) \subseteq rows[x]

FilterKept ==
    ~Created /\ batch # NoJob /\ batch.at = "fetch" => batch.filter = watched

Ended ==
    server.realtime # NoBlock =>
        /\ queue = <<>> /\ batch = NoJob /\ EventsQueueEmpty
        /\ AllDone(server.realtime - 1)

OrderInv ==
    /\ OneToken
    /\ Covered
    /\ BelowDone
    /\ InStep
    /\ WaitsAlone
    /\ RetriedAlone
    /\ InOrder
    /\ RowsKept
    /\ FilterKept
    /\ Ended

HistoryInv == OnceInv /\ (Regular => OrderInv)

\* what is done stays done while the entities do not change
LEMMA DoneKept ==
    ASSUME UNCHANGED <<creation, applied>>
    PROVE  \A x : Done(x)' <=> Done(x)
BY DEF Done, Emits

LEMMA BelowDoneKept ==
    ASSUME UNCHANGED <<creation, applied, event, retrying>>,
           status'.processed = status.processed, BelowDone
    PROVE  BelowDone'
<1>1. \A n : AllDone(n)' <=> AllDone(n)
  BY DoneKept DEF AllDone
<1> QED
  BY <1>1 DEF BelowDone

\* a block is processed at most once: one that is not complete is not at all
LEMMA FreshApplied ==
    ASSUME OnceInv, NEW b \in Height, b \notin complete, NEW c \in Contract
    PROVE  applied[b][c] = 0
<1>1. applied[b][c] \in Nat /\ applied[b][c] <= 0
  BY DEF OnceInv, Types, Fresh
<1> QED
  BY <1>1

\* the contract is watched when the block that creates it is done
LEMMA CreationDone ==
    ASSUME OnceInv, Done(creation)
    PROVE  "pool" \in watched
<1>0. Types /\ 0 \in Height
  BY HistoryAssumption DEF OnceInv, Height
<1>1. /\ creation \in Height /\ "factory" \in Emits(creation)
      /\ "factory" \in Contract
  BY <1>0, EmitsTyped DEF Contract
<1>2. applied[creation]["factory"] = 1
  BY <1>1 DEF Done
<1>3. creation \in complete
  BY <1>1, <1>2, FreshApplied
<1> QED
  BY <1>3 DEF OnceInv, Database

\* the blocks with a job have been fetched
LEMMA FetchedBelow ==
    ASSUME OnceInv, OrderInv, Awaiting # {} \/ Created, NEW b \in Pushed
    PROVE  b < NextFrom
<1>0. Types
  BY DEF OnceInv
<1>1. b \in Nat \ {0} /\ memory.completedUpto \in Nat
  <2>1. b \in Block
    BY <1>0, AwaitingTyped
  <2>2. memory.completedUpto \in Height
    BY <1>0 DEF Types, Memory
  <2> QED
    BY <2>1, <2>2, HistoryAssumption DEF Block, Height
<1>2. CASE batch = NoJob
  <2>1. b <= memory.completedUpto
    BY <1>2 DEF OnceInv, Within
  <2>2. NextFrom = memory.completedUpto + 1
    BY <1>2 DEF OrderInv, InStep, NextFrom
  <2> QED
    BY <1>1, <2>1, <2>2
<1>3. CASE batch # NoJob
  <2>1. /\ batch \in Batch /\ queue = <<>> /\ batch.at # "wait"
        /\ batch.end \in Nat /\ batch.at \in {"fetch", "push", "next"}
    BY <1>0, <1>3 DEF OrderInv, OneToken, WaitsAlone, Waits, Types, Batch, Height
  <2>2. CASE batch.at = "fetch"
    BY <1>3, <2>1, <2>2 DEF OnceInv, Within, NextFrom
  <2>3. CASE batch.at = "push"
    <3>1. b <= batch.end
      BY <1>3, <2>3 DEF OnceInv, Within
    <3>2. NextFrom = batch.end + 1
      BY <1>3, <2>1, <2>3 DEF NextFrom
    <3> QED
      BY <1>1, <2>1, <3>1, <3>2
  <2>4. CASE batch.at = "next"
    <3>1. b <= memory.completedUpto /\ memory.completedUpto = batch.end
      BY <1>3, <2>4 DEF OnceInv, Within, OrderInv, InStep
    <3>2. NextFrom = batch.end + 1
      BY <1>3, <2>1, <2>4 DEF NextFrom
    <3> QED
      BY <1>1, <2>1, <3>1, <3>2
  <2> QED
    BY <2>1, <2>2, <2>3, <2>4
<1> QED
  BY <1>2, <1>3

\* the next range starts above block 0, and not beyond the history
LEMMA NextFromTyped ==
    ASSUME Types
    PROVE  NextFrom \in 1..(Tip + 1)
<1>1. Tip \in Nat
  BY HistoryAssumption
<1>2. CASE queue # <<>>
  <2>1. queue[1] \in HistoryJob
    BY <1>2 DEF Types
  <2> QED
    BY <1>2, <2>1 DEF NextFrom, HistoryJob
<1>3. CASE queue = <<>> /\ batch = NoJob
  BY <1>1, <1>3 DEF NextFrom, Types, Height
<1>4. CASE queue = <<>> /\ batch # NoJob
  <2>1. /\ batch.job.from \in 1..(Tip + 1) /\ batch.end \in 0..Tip
    BY <1>4 DEF Types, Batch, HistoryJob, Height
  <2> QED
    BY <1>1, <1>4, <2>1 DEF NextFrom
<1> QED
  BY <1>2, <1>3, <1>4

\* the events that are processed are those of the first block that is not done
LEMMA FirstInLine ==
    ASSUME OnceInv, OrderInv, event # NoJob, event.at = "process"
    PROVE  AllDone(event.block - 1)
<1> DEFINE b == event.block
<1>1. /\ Types /\ event \in EventJob /\ b \in Block /\ b \in Nat
      /\ b \in Started /\ b \in Pushed /\ Awaiting # {} /\ ~Created
      /\ Height \subseteq Int /\ Block \subseteq Int
  <2>1. Types /\ event \in EventJob
    BY DEF OnceInv, Types
  <2>2. b \in Block /\ Height \subseteq Int /\ Block \subseteq Int /\ Block \subseteq Nat
    BY <2>1 DEF EventJob, Height, Block
  <2>3. b \in Started /\ ~Created
    BY <2>2 DEF Started, Created
  <2> QED
    BY <2>1, <2>2, <2>3, AwaitingTyped DEF Awaiting
<1>2. CASE event.retry
  BY <1>2 DEF OrderInv, BelowDone
<1>3. CASE ~event.retry
  <2>1. ~Retrying /\ Failed = {}
    BY <1>1, <1>3 DEF OrderInv, RetriedAlone, Retrying, Failed
  <2>2. b < NextFrom /\ NextFrom \in Int
    BY <1>1, FetchedBelow, NextFromTyped
  <2>3. ASSUME NEW x \in Awaiting, x < b
        PROVE  FALSE
    <3>0. x \in Block
      BY <1>1, <2>3, AwaitingTyped
    <3>1. x \in Int /\ x # b
      BY <1>1, <2>3, <3>0
    <3>2. x \notin Started
      BY <3>1 DEF Started
    <3>3. x \in Queued \/ x \in Left
      BY <2>1, <3>2 DEF Awaiting
    <3> QED
      BY <1>1, <2>3, <3>1, <3>3 DEF OrderInv, InOrder
  <2>4. ASSUME NEW x \in 1..(b - 1)
        PROVE  Done(x) \/ (x > creation /\ "pool" \notin watched)
    <3>1. x \in 1..(NextFrom - 1) /\ x < b
      BY <1>1, <2>2, <2>4
    <3> QED
      BY <1>1, <2>1, <2>3, <3>1 DEF OrderInv, Covered
  <2>5. ASSUME NEW x \in 1..(b - 1), x > creation, "pool" \notin watched
        PROVE  FALSE
    <3>1. creation \in 1..(b - 1) /\ ~(creation > creation)
      <4>1. creation \in Nat \ {0}
        BY <1>1, EmitsTyped, AwaitingTyped DEF Block
      <4> QED
        BY <1>1, <2>5, <4>1
    <3>2. Done(creation)
      BY <2>4, <3>1
    <3> QED
      BY <2>5, <3>2, CreationDone
  <2> QED
    BY <2>4, <2>5 DEF AllDone
<1> QED
  BY <1>2, <1>3

\* the range that is fetched next does not change while the status, the queue and
\* the handler agree on it
LEMMA FirstJob ==
    ASSUME Types, OneToken, NEW k \in DOMAIN queue
    PROVE  /\ k = 1 /\ queue # <<>> /\ Len(queue) = 1
           /\ RemoveAt(queue, k) = <<>>
           /\ queue[k] = queue[1] /\ queue[1] \in HistoryJob
           /\ NextFrom = queue[1].from
<1>1. queue \in Seq(HistoryJob) /\ Len(queue) <= 1 /\ Len(queue) \in Nat
      /\ DOMAIN queue = 1..Len(queue)
  BY DEF Types, OneToken
<1>2. k = 1 /\ Len(queue) = 1
  BY <1>1
<1>3. queue # <<>>
  BY <1>2, EmptySeq
<1>4. RemoveAt(queue, k) = <<>>
  BY <1>1, JobRemoved
<1> QED
  BY <1>1, <1>2, <1>3, <1>4 DEF NextFrom

\* a historical job starts, and is not dropped
LEMMA OrderHistoricalStarts ==
    ASSUME OnceInv, OrderInv, StartHistorical, ~dropped'
    PROVE  OrderInv'
<1>1. PICK k \in DOMAIN queue :
          LET job == queue[k] IN
          \/ /\ IsRestart(job.from)
             /\ queue' = <<>> /\ events' = <<>> /\ retrying' = NoJob
             /\ batch' = [Fetching(job, FALSE) EXCEPT !.at = "wait"]
             /\ UNCHANGED memory
          \/ /\ ~IsRestart(job.from) /\ Follows(job.from)
             /\ queue' = RemoveAt(queue, k)
             /\ batch' = Fetching(job, FALSE)
             /\ memory' = [memory EXCEPT !.lastEnd = job.to]
             /\ UNCHANGED <<events, retrying>>
  BY DEF StartHistorical
<1> DEFINE job == queue[1]
<1>2. /\ batch = NoJob /\ UNCHANGED <<dbVars, event, server>>
      /\ Types /\ OneToken
  BY DEF StartHistorical, OnceInv, OrderInv
<1>3. /\ queue # <<>> /\ job \in HistoryJob /\ queue[k] = job
      /\ RemoveAt(queue, k) = <<>> /\ NextFrom = job.from
      /\ memory.completedUpto \in Nat /\ job.from \in Nat \ {0}
      /\ watched \subseteq Contract
  <2>1. /\ queue # <<>> /\ job \in HistoryJob /\ queue[k] = job
        /\ RemoveAt(queue, k) = <<>> /\ NextFrom = job.from
    BY <1>2, FirstJob
  <2>2. job.from \in Nat \ {0}
    BY <2>1 DEF HistoryJob
  <2> QED
    BY <1>2, <2>1, <2>2 DEF Types, Memory, Height
<1>4. /\ UNCHANGED <<creation, rows, complete, applied, status, watched>>
      /\ Created' = Created
  BY <1>2 DEF dbVars, Created
<1>5. Awaiting # {} \/ Created => job.from = memory.completedUpto + 1
  BY <1>2, <1>3 DEF OrderInv, InStep
<1>6. Retrying =>
        /\ events = <<>> /\ retrying = NoJob /\ event # NoJob /\ event.at = "status"
        /\ job.from = event.block + 1 /\ memory.completedUpto > event.block
  BY <1>2, <1>3 DEF OrderInv, RetriedAlone, Retrying
<1>7. server'.realtime = NoBlock
  BY <1>2, <1>3 DEF OrderInv, Ended
<1>8. CASE /\ IsRestart(job.from)
           /\ queue' = <<>> /\ events' = <<>> /\ retrying' = NoJob
           /\ batch' = [Fetching(job, FALSE) EXCEPT !.at = "wait"]
           /\ UNCHANGED memory
  <2>1. /\ batch' \in Batch /\ batch' # NoJob /\ batch'.at = "wait"
        /\ batch'.job = job /\ batch'.deleted = FALSE
    BY <1>3, <1>8, RangeTyped, HistoryAssumption DEF Fetching
  <2>2. Awaiting = {} /\ ~Created
    BY <1>3, <1>5, <1>8 DEF IsRestart
  <2>3. retrying = NoJob
    BY <1>2, <2>2 DEF Awaiting, Failed, Types
  <2>4. BelowDone'
    BY <1>2, <1>4, <1>8, <2>3, BelowDoneKept DEF OrderInv
  <2>5. /\ DOMAIN events' = {} /\ Queued' = {} /\ Left' = {} /\ Failed' = {}
        /\ Started' = Started /\ Awaiting' = {} /\ Retrying' = Retrying
    BY <1>2, <1>8, <2>1, <2>2, <2>3, EmptySeq
    DEF Queued, Left, Failed, Started, Awaiting, Retrying
  <2>12. queue' = <<>>
    BY <1>8
  <2>6. NextFrom' = NextFrom
    BY <1>3, <2>1, <2>12 DEF NextFrom
  <2>7. OneToken'
    BY <2>1, <2>12, EmptySeq DEF OneToken
  <2>8. Covered'
    BY <1>4, <2>2, <2>5, <2>6, DoneKept DEF OrderInv, Covered
  <2>9. InStep' /\ WaitsAlone' /\ RowsKept' /\ FilterKept' /\ Ended'
    BY <1>4, <1>7, <2>1, <2>2, <2>5 DEF InStep, WaitsAlone, RowsKept, FilterKept, Ended
  <2>10. RetriedAlone'
    BY <1>2, <1>3, <1>6, <1>8, <2>1, <2>5, <2>6 DEF OrderInv, RetriedAlone
  <2>11. InOrder'
    BY <2>5 DEF InOrder
  <2> QED
    BY <2>4, <2>7, <2>8, <2>9, <2>10, <2>11 DEF OrderInv
<1>9. CASE /\ ~IsRestart(job.from) /\ Follows(job.from)
           /\ queue' = RemoveAt(queue, k)
           /\ batch' = Fetching(job, FALSE)
           /\ memory' = [memory EXCEPT !.lastEnd = job.to]
           /\ UNCHANGED <<events, retrying>>
  <2>1. /\ batch' \in Batch /\ batch' # NoJob /\ batch'.at = "fetch"
        /\ batch'.job = job /\ batch'.deleted = FALSE /\ batch'.filter = watched
    BY <1>3, <1>9, RangeTyped, HistoryAssumption DEF Fetching
  <2>2. /\ queue' = <<>>
        /\ memory'.completedUpto = memory.completedUpto
        /\ memory'.hasError = memory.hasError
    BY <1>2, <1>3, <1>9 DEF Types, Memory
  <2>3. ~Retrying
    <3>1. ASSUME Retrying
          PROVE  FALSE
      <4>1. /\ event \in EventJob /\ event.block \in Nat \ {0}
            /\ job.from = event.block + 1 /\ memory.completedUpto > event.block
        BY <1>2, <1>6, <3>1 DEF Types, EventJob, Block
      <4>2. job.from - 1 = memory.completedUpto
        BY <1>3, <1>9, <4>1 DEF Follows
      <4> QED
        BY <4>1, <4>2
    <3> QED
      BY <3>1
  <2>4. /\ Queued' = Queued /\ Left' = {} /\ Left = {} /\ Failed' = Failed
        /\ Started' = Started /\ Awaiting' = Awaiting /\ Retrying' = Retrying
    BY <1>2, <1>9, <2>1 DEF Queued, Left, Failed, Started, Awaiting, Retrying
  <2>5. NextFrom' = NextFrom
    BY <1>3, <2>1, <2>2 DEF NextFrom
  <2>6. BelowDone'
    BY <1>2, <1>4, <1>9, BelowDoneKept DEF OrderInv
  <2>7. OneToken'
    BY <2>1, <2>2, EmptySeq DEF OneToken
  <2>8. Covered'
    BY <1>4, <2>4, <2>5, DoneKept DEF OrderInv, Covered
  <2>9. InStep'
    BY <1>2, <1>3, <1>4, <1>5, <2>1, <2>2, <2>4 DEF OrderInv, InStep
  <2>10. WaitsAlone' /\ FilterKept' /\ Ended'
    BY <1>4, <1>7, <2>1 DEF WaitsAlone, Waits, FilterKept, Ended
  <2>11. RetriedAlone'
    BY <2>2, <2>3, <2>4 DEF OrderInv, RetriedAlone
  <2>12. InOrder'
    BY <1>9, <2>4 DEF OrderInv, InOrder
  <2>13. RowsKept'
    BY <1>4, <2>4 DEF OrderInv, RowsKept, Emits
  <2> QED
    BY <2>6, <2>7, <2>8, <2>9, <2>10, <2>11, <2>12, <2>13 DEF OrderInv
<1> QED
  BY <1>1, <1>3, <1>8, <1>9

\* a reset keeps what is done below the block
LEMMA DoneKeptByReset ==
    ASSUME OnceInv, creation' = creation,
           NEW n \in complete, NEW p \in complete, resetWatcherToBlock(n, p)
    PROVE  /\ n \in Height
           /\ \A x \in 1..n : Done(x)' <=> Done(x)
           /\ status'.head = n /\ status'.processed \in Height
           /\ status'.processed <= n /\ status'.processed <= p
           /\ complete' \subseteq complete
           /\ \A m \in Height : m <= n => (AllDone(m)' <=> AllDone(m))
<1>1. Types /\ Fresh /\ Database
  BY DEF OnceInv
<1>2. /\ complete' = {x \in complete : x <= n}
      /\ \A x \in Height : x <= n => applied'[x] = applied[x]
      /\ status'.head = n /\ status'.processed \in complete'
      /\ status'.processed <= n /\ status'.processed <= p
  BY <1>1, ResetForgets
<1>3. complete \subseteq Height /\ Height = 0..Tip /\ Tip \in Nat
  BY <1>1, HistoryAssumption DEF Types, Height
<1>4. ASSUME NEW x \in 1..n
      PROVE  Done(x)' <=> Done(x)
  <2>1. x \in Height /\ x <= n
    BY <1>3, <1>4
  <2>2. applied'[x] = applied[x]
    BY <1>2, <2>1
  <2> QED
    BY <2>2 DEF Done, Emits
<1>5. ASSUME NEW m \in Height, m <= n
      PROVE  AllDone(m)' <=> AllDone(m)
  <2>1. \A x \in 1..m : x \in 1..n
    BY <1>3, <1>5
  <2> QED
    BY <1>4, <2>1 DEF AllDone
<1> QED
  BY <1>2, <1>3, <1>4, <1>5

LEMMA OrderRestarts ==
    ASSUME OnceInv, OrderInv, Restart
    PROVE  OrderInv'
<1>1. /\ batch # NoJob /\ batch.at = "wait" /\ batch \in Batch
      /\ events = <<>> /\ retrying = NoJob /\ event = NoJob
      /\ UNCHANGED <<creation, events, retrying, event, server>>
      /\ batch.job \in HistoryJob /\ batch.deleted = FALSE /\ queue = <<>>
      /\ Types /\ watched \subseteq Contract
  BY DEF Restart, EventsQueueEmpty, OnceInv, OrderInv, OneToken, Types, Batch
<1>2. /\ Awaiting = {} /\ ~Created /\ ~Retrying /\ memory.hasError # TRUE
      /\ ~Created' /\ ~Retrying' /\ server'.realtime = NoBlock
      /\ memory.hasError \in BOOLEAN
  BY <1>1 DEF OrderInv, WaitsAlone, Waits, RetriedAlone, Created, Retrying, Ended, Types,
              Memory
<1> DEFINE n == batch.job.from - 1
<1>3. NextFrom = batch.job.from /\ batch.job.from \in Nat \ {0} /\ n \in Nat
  BY <1>1 DEF NextFrom, HistoryJob
<1>4. \A x \in 1..n : Done(x) \/ (x > creation /\ "pool" \notin watched)
  BY <1>2, <1>3 DEF OrderInv, Covered
<1>5. /\ DOMAIN events' = {} /\ Queued' = {} /\ Failed' = {} /\ Started' = {}
  BY <1>1, EmptySeq DEF Queued, Failed, Started
<1>6. CASE CanReset(n)
  <2>1. /\ n \in complete /\ status.processed \in complete
        /\ resetWatcherToBlock(n, status.processed)
        /\ batch' = [Fetching(batch.job, batch.deleted) EXCEPT !.filter = watched']
        /\ memory' = [memory EXCEPT !.lastEnd = batch.job.to]
        /\ queue' = <<>>
    BY <1>1, <1>6 DEF Restart, CanReset, OnceInv, Database
  <2>2. /\ \A x \in 1..n : Done(x)' <=> Done(x)
        /\ status'.processed \in Height
        /\ status'.processed <= n /\ status'.processed <= status.processed
        /\ \A m \in Height : m <= n => (AllDone(m)' <=> AllDone(m))
    <3> HIDE DEF n
    <3> QED
      BY <1>1, <2>1, DoneKeptByReset
  <2>3. /\ batch' # NoJob /\ batch'.at = "fetch" /\ batch'.job = batch.job
        /\ batch'.deleted = FALSE /\ batch'.filter = watched'
    <3>1. Fetching(batch.job, batch.deleted) \in Batch
      BY <1>1, RangeTyped
    <3>2. watched' \subseteq Contract
      BY <1>1, <2>1 DEF resetWatcherToBlock
    <3>3. batch' \in Batch
      BY <2>1, <3>1, <3>2 DEF Batch
    <3> QED
      BY <1>1, <2>1, <3>1, <3>3, HistoryAssumption DEF Fetching
  <2>4. Left' = {} /\ Awaiting' = {}
    BY <1>5, <2>3 DEF Left, Awaiting
  <2>5. NextFrom' = batch.job.from
    BY <2>1, <2>3 DEF NextFrom
  <2>6. "pool" \in watched' => "pool" \in watched
    BY <1>1, <2>1 DEF resetWatcherToBlock
  <2>7. Covered'
    BY <1>1, <1>4, <2>2, <2>5, <2>6 DEF Covered
  <2>8. BelowDone'
    <3>1. AllDone(status.processed) /\ status.processed \in Height
      BY <1>1 DEF OrderInv, BelowDone, Types
    <3>2. AllDone(status'.processed)
      BY <2>2, <3>1 DEF AllDone, Height
    <3>3. AllDone(status.processed)'
      BY <2>2, <3>2 DEF AllDone
    <3> QED
      BY <1>1, <3>3 DEF BelowDone
  <2>9. memory'.hasError = memory.hasError
    BY <1>1, <2>1 DEF Types, Memory
  <2>10. OneToken'
    BY <2>1, <2>3, EmptySeq DEF OneToken
  <2>11. InStep' /\ WaitsAlone' /\ RetriedAlone' /\ InOrder'
    BY <1>2, <1>5, <2>3, <2>4, <2>9
    DEF InStep, WaitsAlone, Waits, RetriedAlone, InOrder
  <2>12. RowsKept' /\ FilterKept' /\ Ended'
    BY <1>2, <2>3, <2>4 DEF RowsKept, FilterKept, Ended
  <2> QED
    BY <2>7, <2>8, <2>10, <2>11, <2>12 DEF OrderInv
<1>7. CASE ~CanReset(n)
  <2>1. /\ batch' = NoJob /\ queue' = Append(<<>>, batch.job)
        /\ UNCHANGED <<rows, complete, applied, status, watched, memory>>
    BY <1>1, <1>7 DEF Restart, dbVars
  <2>2. queue' = <<batch.job>> /\ queue' # <<>> /\ Len(queue') = 1
        /\ queue'[1] = batch.job
    BY <2>1
  <2>3. Left' = {} /\ Awaiting' = {} /\ NextFrom' = NextFrom
    BY <1>3, <1>5, <2>1, <2>2 DEF Left, Awaiting, NextFrom
  <2>4. Covered'
    BY <1>1, <1>2, <2>1, <2>3, DoneKept DEF OrderInv, Covered
  <2>5. BelowDone'
    BY <1>1, <2>1, BelowDoneKept DEF OrderInv
  <2>6. OneToken' /\ WaitsAlone'
    BY <2>1, <2>2 DEF OneToken, WaitsAlone, Waits
  <2>7. InStep' /\ RetriedAlone' /\ InOrder'
    BY <1>2, <1>5, <2>1, <2>3 DEF InStep, RetriedAlone, InOrder
  <2>8. RowsKept' /\ FilterKept' /\ Ended'
    BY <1>2, <2>1, <2>3 DEF RowsKept, FilterKept, Ended
  <2> QED
    BY <2>4, <2>5, <2>6, <2>7, <2>8 DEF OrderInv
<1> QED
  BY <1>6, <1>7

\* a handler past its wait works on the history alone, and without a failed events job
LEMMA Fetched ==
    ASSUME OnceInv, OrderInv, batch # NoJob, batch.at # "wait"
    PROVE  /\ Types /\ batch \in Batch /\ batch.deleted = FALSE /\ queue = <<>>
           /\ batch.at \in {"fetch", "push", "next"}
           /\ batch.job \in HistoryJob /\ batch.job.from \in Nat \ {0}
           /\ batch.end \in Height /\ batch.end \in Nat
           /\ batch.left \subseteq Block
           /\ ~Retrying /\ memory.hasError = FALSE
           /\ server.realtime = NoBlock
<1>1. /\ Types /\ batch \in Batch /\ batch.deleted \in BOOLEAN
      /\ batch.at \in {"wait", "fetch", "push", "next"}
      /\ batch.job \in HistoryJob /\ batch.end \in Height /\ batch.left \subseteq Block
  BY DEF OnceInv, Types, Batch
<1>2. batch.job.from \in Nat \ {0} /\ batch.end \in Nat
  BY <1>1 DEF HistoryJob, Height
<1>3. ~Retrying /\ memory.hasError \in BOOLEAN
  BY <1>1 DEF OrderInv, RetriedAlone, Types, Memory
<1> QED
  BY <1>1, <1>2, <1>3 DEF OrderInv, OneToken, RetriedAlone, Ended

LEMMA OrderBlocksSaved ==
    ASSUME OnceInv, OrderInv, SaveBlocks
    PROVE  OrderInv'
<1>1. /\ batch # NoJob /\ batch.at = "fetch"
      /\ rows' = [b \in Height |->
                     IF b \in WithLogs THEN Emits(b) \cap batch.filter ELSE rows[b]]
      /\ memory' = [memory EXCEPT !.blocks = memory.blocks \cup WithLogs]
      /\ IF WithLogs # {} /\ memory.hasError
         THEN batch' = NoJob
         ELSE batch' = [batch EXCEPT !.at = "push", !.left = WithLogs]
      /\ UNCHANGED <<creation, complete, applied, status, watched, queue, events,
                     retrying, event, server>>
  BY DEF SaveBlocks
<1>2. /\ Types /\ batch \in Batch /\ batch.deleted = FALSE /\ queue = <<>>
      /\ batch.job.from \in Nat \ {0} /\ batch.end \in Height /\ batch.end \in Nat
      /\ ~Retrying /\ memory.hasError = FALSE
      /\ server.realtime = NoBlock
  BY <1>1, Fetched
<1>3. /\ WithLogs \subseteq batch.job.from..batch.end /\ WithLogs \subseteq Block
      /\ Block \subseteq Height /\ Height \subseteq Int
  <2>1. WithLogs \subseteq batch.job.from..batch.end
    BY DEF WithLogs
  <2>2. Block \subseteq Height /\ Height \subseteq Int /\ Tip \in Nat
    BY HistoryAssumption DEF Block, Height
  <2>3. batch.job.from..batch.end \subseteq Block
    BY <1>2, <2>2 DEF Block, Height
  <2> QED
    BY <2>1, <2>2, <2>3
<1>4. /\ batch' \in Batch /\ batch' # NoJob /\ batch'.at = "push"
      /\ batch'.left = WithLogs /\ batch'.end = batch.end /\ batch'.deleted = FALSE
  <2>1. batch' = [batch EXCEPT !.at = "push", !.left = WithLogs]
    BY <1>1, <1>2
  <2>2. batch' \in Batch
    BY <1>2, <1>3, <2>1 DEF Batch
  <2> QED
    BY <1>2, <2>1, <2>2, HistoryAssumption DEF Batch
<1>5. /\ Queued' = Queued /\ Failed' = Failed /\ Started' = Started
      /\ Left = {} /\ Left' = WithLogs /\ Awaiting' = Awaiting \cup WithLogs
      /\ Created' = Created /\ Retrying' = Retrying
  BY <1>1, <1>3, <1>4
  DEF Queued, Failed, Started, Left, Awaiting, Created, Retrying
<1>6. NextFrom = batch.job.from /\ NextFrom' = batch.end + 1
  BY <1>1, <1>2, <1>4 DEF NextFrom
<1>7. memory'.hasError = FALSE
  BY <1>1, <1>2 DEF Types, Memory
<1>8. ~Created => batch.filter = watched
  BY <1>1 DEF OrderInv, FilterKept
<1>9. \A b \in Queued \cup Started \cup Failed : b < batch.job.from /\ b \notin WithLogs
  <2>1. ASSUME NEW b \in Queued \cup Started \cup Failed
        PROVE  b < batch.job.from /\ b \in Int
    <3>1. b \in Pushed /\ b \in Block
      BY <1>2, <2>1, AwaitingTyped
    <3> QED
      BY <1>1, <1>3, <3>1 DEF OnceInv, Within
  <2> QED
    BY <1>2, <1>3, <2>1
<1>10. ASSUME ~Created, NEW x \in 1..batch.end
       PROVE  Done(x)' \/ x \in Awaiting' \/ (x > creation /\ "pool" \notin watched)
  <2>1. CASE x < batch.job.from
    <3>1. x \in 1..(NextFrom - 1)
      BY <1>2, <1>6, <1>10, <2>1
    <3> QED
      BY <1>1, <1>2, <1>5, <1>10, <3>1, DoneKept DEF OrderInv, Covered
  <2>2. CASE x >= batch.job.from /\ x \in WithLogs
    BY <1>5, <2>2
  <2>3. CASE x >= batch.job.from /\ x \notin WithLogs
    <3>1. x \in batch.job.from..batch.end /\ x \in Height /\ x \in Int
      <4>1. x \in batch.job.from..batch.end /\ x \in Int
        BY <1>2, <1>10, <2>3
      <4> QED
        BY <1>2, <1>3, <1>10, <4>1, HistoryAssumption DEF Height
    <3>2. Emits(x) \cap watched = {}
      BY <1>8, <1>10, <2>3, <3>1 DEF WithLogs
    <3>3. /\ "factory" \in watched /\ Emits(x) \subseteq Contract /\ creation \in Block
          /\ "factory" \in Emits(creation)
      BY <1>2, <3>1, EmitsTyped DEF Types
    <3>4. "factory" \notin Emits(x) /\ x # creation
      BY <3>2, <3>3
    <3>5. CASE "pool" \in Emits(x)
      <4>1. x >= creation /\ "pool" \notin watched
        BY <3>2, <3>5 DEF Emits
      <4> QED
        BY <1>3, <3>1, <3>3, <3>4, <4>1
    <3>6. CASE "pool" \notin Emits(x)
      <4>1. Emits(x) = {}
        BY <3>3, <3>4, <3>6 DEF Contract
      <4>2. Done(x)
        BY <4>1 DEF Done
      <4> QED
        BY <1>1, <4>2, DoneKept
    <3> QED
      BY <3>5, <3>6
  <2> QED
    BY <1>2, <1>10, <2>1, <2>2, <2>3
<1>11. Covered'
  BY <1>1, <1>2, <1>5, <1>6, <1>10 DEF Covered
<1>12. RowsKept'
  <2>1. ASSUME ~Created, NEW x \in Awaiting'
        PROVE  /\ "factory" \in Emits(x) => "factory" \in rows'[x]
               /\ x > creation /\ "pool" \in watched => Emits(x) \subseteq rows'[x]
    <3>1. CASE x \in WithLogs
      <4>1. rows'[x] = Emits(x) \cap watched
        BY <1>1, <1>3, <1>8, <2>1, <3>1
      <4>2. Emits(x) \subseteq Contract /\ "factory" \in watched
        BY <1>2, <1>3, <3>1, EmitsTyped DEF Types
      <4> QED
        BY <4>1, <4>2 DEF Contract
    <3>2. CASE x \notin WithLogs
      <4>1. x \in Awaiting /\ x \in Height
        BY <1>2, <1>5, <2>1, <3>2, AwaitingTyped
      <4>2. rows'[x] = rows[x]
        BY <1>1, <3>2, <4>1
      <4> QED
        BY <2>1, <4>1, <4>2 DEF OrderInv, RowsKept
    <3> QED
      BY <3>1, <3>2
  <2>2. \A x : Emits(x)' = Emits(x)
    BY <1>1 DEF Emits
  <2> QED
    BY <1>1, <1>5, <2>1, <2>2 DEF RowsKept
<1>13. InOrder'
  <2>1. \A b \in Started \cup Queued, c \in WithLogs : b < c
    <3> SUFFICES ASSUME NEW b \in Started \cup Queued, NEW c \in WithLogs
                 PROVE  b < c
      OBVIOUS
    <3>1. b < batch.job.from /\ b \in Int
      BY <1>2, <1>3, <1>9, AwaitingTyped
    <3> QED
      BY <1>2, <1>3, <3>1
  <2>2. events' = events
    BY <1>1
  <2> QED
    BY <1>5, <2>1, <2>2 DEF OrderInv, InOrder
<1>14. BelowDone'
  BY <1>1, BelowDoneKept DEF OrderInv
<1>15. OneToken'
  BY <1>1, <1>2, <1>4, EmptySeq DEF OneToken
<1>16. InStep' /\ WaitsAlone' /\ RetriedAlone' /\ FilterKept' /\ Ended'
  BY <1>1, <1>2, <1>4, <1>5, <1>7
  DEF InStep, WaitsAlone, Waits, RetriedAlone, FilterKept, Ended
<1> QED
  BY <1>11, <1>12, <1>13, <1>14, <1>15, <1>16 DEF OrderInv

LEMMA OrderFetchRetried ==
    ASSUME OnceInv, OrderInv, FetchFails
    PROVE  OrderInv'
<1>1. /\ batch # NoJob /\ batch.at = "fetch" /\ batch' = NoJob
      /\ queue' = IF batch.deleted THEN queue ELSE Append(queue, batch.job)
      /\ UNCHANGED <<creation, rows, complete, applied, status, watched, events,
                     retrying, event, memory, server>>
  BY DEF FetchFails, dbVars
<1>2. /\ Types /\ batch.deleted = FALSE /\ queue = <<>>
      /\ ~Retrying /\ memory.hasError = FALSE /\ server.realtime = NoBlock
  BY <1>1, Fetched
<1>3. queue' = <<batch.job>> /\ queue' # <<>> /\ Len(queue') = 1
      /\ queue'[1] = batch.job
  BY <1>1, <1>2
<1>4. /\ Queued' = Queued /\ Failed' = Failed /\ Started' = Started
      /\ Left = {} /\ Left' = {} /\ Awaiting' = Awaiting
      /\ Created' = Created /\ Retrying' = Retrying
  BY <1>1 DEF Queued, Failed, Started, Left, Awaiting, Created, Retrying
<1>5. NextFrom' = NextFrom
  BY <1>1, <1>2, <1>3 DEF NextFrom
<1>6. Covered'
  BY <1>1, <1>4, <1>5, DoneKept DEF OrderInv, Covered
<1>7. BelowDone'
  BY <1>1, BelowDoneKept DEF OrderInv
<1>8. OneToken' /\ WaitsAlone' /\ FilterKept' /\ Ended'
  BY <1>1, <1>2, <1>3 DEF OneToken, WaitsAlone, Waits, FilterKept, Ended
<1>9. InStep'
  BY <1>1, <1>3, <1>4 DEF OrderInv, InStep
<1>10. RetriedAlone'
  BY <1>1, <1>2, <1>4 DEF RetriedAlone
<1>11. InOrder'
  BY <1>1, <1>4 DEF OrderInv, InOrder
<1>12. RowsKept'
  BY <1>1, <1>4 DEF OrderInv, RowsKept, Emits
<1> QED
  BY <1>6, <1>7, <1>8, <1>9, <1>10, <1>11, <1>12 DEF OrderInv

LEMMA OrderEventsPushed ==
    ASSUME OnceInv, OrderInv, PushEvents
    PROVE  OrderInv'
<1>1. PICK b \in batch.left :
          /\ \A c \in batch.left : b <= c
          /\ events' = Append(events, b)
          /\ batch' = [batch EXCEPT !.left = batch.left \ {b}]
  BY DEF PushEvents
<1>2. /\ batch # NoJob /\ batch.at = "push"
      /\ UNCHANGED <<creation, rows, complete, applied, status, watched, queue,
                     retrying, event, memory, server>>
  BY DEF PushEvents, dbVars
<1>3. /\ Types /\ batch \in Batch /\ batch.deleted = FALSE /\ queue = <<>>
      /\ batch.left \subseteq Block /\ events \in Seq(Block)
      /\ ~Retrying /\ memory.hasError = FALSE /\ server.realtime = NoBlock
  BY <1>2, Fetched DEF Types
<1>4. /\ b \in Block /\ b \in Left /\ b \in Int /\ Block \subseteq Int
  BY <1>1, <1>2, <1>3 DEF Left, Block
<1>5. /\ batch' \in Batch /\ batch' # NoJob /\ batch'.at = "push"
      /\ batch'.left = batch.left \ {b} /\ batch'.end = batch.end
      /\ batch'.deleted = FALSE
  <2>1. batch' \in Batch
    BY <1>1, <1>3 DEF Batch
  <2> QED
    BY <1>1, <1>2, <1>3, <2>1, HistoryAssumption DEF Batch
<1>6. /\ events' \in Seq(Block) /\ DOMAIN events' = 1..(Len(events) + 1)
      /\ DOMAIN events = 1..Len(events) /\ Len(events) \in Nat
      /\ events'[Len(events) + 1] = b
      /\ \A i \in DOMAIN events : events'[i] = events[i]
  BY <1>1, <1>3, <1>4
<1>7. Queued' = Queued \cup {b}
  BY <1>6 DEF Queued
<1>8. /\ Failed' = Failed /\ Started' = Started /\ Left' = Left \ {b}
      /\ Created' = Created /\ Retrying' = Retrying
  BY <1>2, <1>5 DEF Failed, Started, Left, Created, Retrying
<1>9. Awaiting' = Awaiting
  BY <1>4, <1>7, <1>8 DEF Awaiting
<1>10. NextFrom' = NextFrom
  BY <1>2, <1>3, <1>5 DEF NextFrom
<1>11. Covered'
  BY <1>2, <1>8, <1>9, <1>10, DoneKept DEF OrderInv, Covered
<1>12. BelowDone'
  BY <1>2, BelowDoneKept DEF OrderInv
<1>13. OneToken' /\ WaitsAlone' /\ FilterKept' /\ Ended' /\ InStep'
  BY <1>2, <1>3, <1>5, EmptySeq DEF OneToken, WaitsAlone, Waits, FilterKept, Ended, InStep
<1>14. RetriedAlone'
  BY <1>2, <1>3, <1>8 DEF RetriedAlone
<1>15. InOrder'
  <2>1. \A x \in Started \cup Queued : x < b
    BY <1>4 DEF OrderInv, InOrder
  <2>2. ASSUME NEW i \in DOMAIN events', NEW j \in DOMAIN events', i < j
        PROVE  events'[i] < events'[j]
    <3>1. i \in DOMAIN events
      BY <1>6, <2>2
    <3>2. CASE j \in DOMAIN events
      BY <1>6, <2>2, <3>1, <3>2 DEF OrderInv, InOrder
    <3>3. CASE j = Len(events) + 1
      BY <1>6, <2>1, <3>1, <3>3 DEF Queued
    <3> QED
      BY <1>6, <3>2, <3>3
  <2>3. ASSUME NEW c \in Left'
        PROVE  c \in Left /\ b < c
    <3>1. c \in batch.left /\ c # b /\ c \in Left /\ c \in Int
      BY <1>4, <1>8, <2>3 DEF Left
    <3> QED
      BY <1>1, <1>4, <3>1
  <2>4. \A x \in Started', c \in Queued' : x < c
    BY <1>7, <1>8, <2>1 DEF OrderInv, InOrder
  <2>5. \A x \in Started' \cup Queued', c \in Left' : x < c
    BY <1>7, <1>8, <2>3 DEF OrderInv, InOrder
  <2> QED
    BY <2>2, <2>4, <2>5 DEF InOrder
<1>16. RowsKept'
  BY <1>2, <1>8, <1>9 DEF OrderInv, RowsKept, Emits
<1> QED
  BY <1>11, <1>12, <1>13, <1>14, <1>15, <1>16 DEF OrderInv

LEMMA OrderStatusUpdated ==
    ASSUME OnceInv, OrderInv, UpdateStatus
    PROVE  OrderInv'
<1>1. /\ batch # NoJob /\ batch.at = "push" /\ batch.left = {}
      /\ status' = [status EXCEPT !.head = batch.end]
      /\ memory' = [memory EXCEPT !.completedUpto = batch.end]
      /\ batch' = [batch EXCEPT !.at = "next"]
      /\ UNCHANGED <<creation, rows, complete, applied, watched, queue, events,
                     retrying, event, server>>
  BY DEF UpdateStatus
<1>2. /\ Types /\ batch \in Batch /\ batch.deleted = FALSE /\ queue = <<>>
      /\ ~Retrying /\ memory.hasError = FALSE /\ server.realtime = NoBlock
  BY <1>1, Fetched
<1>3. /\ batch' # NoJob /\ batch'.at = "next" /\ batch'.end = batch.end
      /\ batch'.deleted = FALSE
  <2>1. batch' \in Batch
    BY <1>1, <1>2 DEF Batch
  <2> QED
    BY <1>1, <1>2, <2>1, HistoryAssumption DEF Batch
<1>4. /\ memory'.completedUpto = batch.end /\ memory'.hasError = FALSE
      /\ status'.head = batch.end /\ status'.processed = status.processed
  BY <1>1, <1>2 DEF Types, Memory
<1>5. /\ Queued' = Queued /\ Failed' = Failed /\ Started' = Started
      /\ Left = {} /\ Left' = {} /\ Awaiting' = Awaiting
      /\ Created' = Created /\ Retrying' = Retrying
  BY <1>1, <1>3 DEF Queued, Failed, Started, Left, Awaiting, Created, Retrying
<1>6. NextFrom' = NextFrom
  BY <1>1, <1>2, <1>3 DEF NextFrom
<1>7. Covered'
  BY <1>1, <1>5, <1>6, DoneKept DEF OrderInv, Covered
<1>8. BelowDone'
  BY <1>1, <1>4, BelowDoneKept DEF OrderInv
<1>9. OneToken' /\ WaitsAlone' /\ FilterKept' /\ Ended' /\ InStep'
  BY <1>1, <1>2, <1>3, <1>4, EmptySeq
  DEF OneToken, WaitsAlone, Waits, FilterKept, Ended, InStep
<1>10. RetriedAlone'
  BY <1>2, <1>4, <1>5 DEF RetriedAlone
<1>11. InOrder'
  BY <1>1, <1>5 DEF OrderInv, InOrder
<1>12. RowsKept'
  BY <1>1, <1>5 DEF OrderInv, RowsKept, Emits
<1> QED
  BY <1>7, <1>8, <1>9, <1>10, <1>11, <1>12 DEF OrderInv

LEMMA OrderBatchFinished ==
    ASSUME OnceInv, OrderInv, FinishBatch
    PROVE  OrderInv'
<1>1. /\ batch # NoJob /\ batch.at = "next" /\ batch' = NoJob
      /\ queue' = IF batch.end < batch.job.to
                  THEN Append(queue, Job(batch.end + 1, batch.job.to, 0)) ELSE queue
      /\ UNCHANGED <<creation, rows, complete, applied, status, watched, events,
                     retrying, event, memory, server>>
  BY DEF FinishBatch, dbVars
<1>2. /\ Types /\ batch.deleted = FALSE /\ queue = <<>>
      /\ ~Retrying /\ memory.hasError = FALSE /\ server.realtime = NoBlock
  BY <1>1, Fetched
<1>3. status.head = batch.end /\ memory.completedUpto = batch.end
  BY <1>1 DEF OrderInv, InStep
<1>4. /\ Len(queue') <= 1
      /\ queue' # <<>> => queue'[1].from = batch.end + 1
  <2>1. CASE batch.end < batch.job.to
    <3>1. queue' = <<Job(batch.end + 1, batch.job.to, 0)>>
      BY <1>1, <1>2, <2>1
    <3> QED
      BY <3>1 DEF Job
  <2>2. CASE ~(batch.end < batch.job.to)
    BY <1>1, <1>2, <2>2, EmptySeq
  <2> QED
    BY <2>1, <2>2
<1>5. /\ Queued' = Queued /\ Failed' = Failed /\ Started' = Started
      /\ Left = {} /\ Left' = {} /\ Awaiting' = Awaiting
      /\ Created' = Created /\ Retrying' = Retrying
  BY <1>1 DEF Queued, Failed, Started, Left, Awaiting, Created, Retrying
<1>6. NextFrom' = NextFrom
  BY <1>1, <1>2, <1>3, <1>4 DEF NextFrom
<1>7. Covered'
  BY <1>1, <1>5, <1>6, DoneKept DEF OrderInv, Covered
<1>8. BelowDone'
  BY <1>1, BelowDoneKept DEF OrderInv
<1>9. OneToken' /\ WaitsAlone' /\ FilterKept' /\ Ended' /\ InStep'
  BY <1>1, <1>2, <1>3, <1>4 DEF OneToken, WaitsAlone, Waits, FilterKept, Ended, InStep
<1>10. RetriedAlone'
  BY <1>1, <1>2, <1>5 DEF RetriedAlone
<1>11. InOrder'
  BY <1>1, <1>5 DEF OrderInv, InOrder
<1>12. RowsKept'
  BY <1>1, <1>5 DEF OrderInv, RowsKept, Emits
<1> QED
  BY <1>7, <1>8, <1>9, <1>10, <1>11, <1>12 DEF OrderInv

LEMMA OrderEventsStarted ==
    ASSUME OnceInv, OrderInv, StartEvents
    PROVE  OrderInv'
<1>1. /\ event = NoJob
      /\ UNCHANGED <<creation, rows, complete, applied, status, watched, queue, batch,
                     memory, server>>
      /\ Types /\ events \in Seq(Block) /\ retrying \in {NoJob} \cup Block
      /\ Block \subseteq Int
  BY DEF StartEvents, OnceInv, Types, dbVars, Block
<1>2. /\ Left' = Left /\ NextFrom' = NextFrom /\ Started = {} /\ ~Created
      /\ OneToken'
  BY <1>1 DEF Left, NextFrom, Started, Created, OrderInv, OneToken
<1>3. Awaiting # {} => ~Waits /\ server.realtime = NoBlock
  BY <1>1, EmptySeq DEF OrderInv, WaitsAlone, Ended, EventsQueueEmpty, Awaiting, Queued,
                        Failed, Left, Started
<1>4. CASE /\ events # <<>>
           /\ event' = Handling(Head(events), FALSE)
           /\ events' = Tail(events)
           /\ UNCHANGED retrying
  <2> DEFINE b == Head(events)
  <2>1. /\ events' \in Seq(Block) /\ b \in Block /\ b = events[1]
        /\ DOMAIN events = 1..Len(events) /\ Len(events) \in Nat \ {0}
        /\ DOMAIN events' = 1..(Len(events) - 1)
        /\ \A i \in DOMAIN events' : events'[i] = events[i + 1]
    BY <1>1, <1>4
  <2>2. /\ event' # NoJob /\ event'.block = b /\ event'.at = "process"
        /\ event'.retry = FALSE
    <3>1. Handling(b, FALSE) \in EventJob
      BY <2>1 DEF Handling, EventJob
    <3>2. event' \in EventJob /\ event' = Handling(b, FALSE)
      BY <1>4, <3>1
    <3> QED
      BY <3>2, HistoryAssumption DEF Handling
  <2>3. retrying = NoJob /\ ~Retrying /\ ~Retrying' /\ ~Created'
    BY <1>1, <1>4, <2>2 DEF OrderInv, RetriedAlone, Retrying, Created
  <2>4. \A x : x \in Queued <=> (x = b \/ x \in Queued')
    <3>1. ASSUME NEW i \in DOMAIN events
          PROVE  events[i] = b \/ events[i] \in Queued'
      <4>1. CASE i = 1
        BY <2>1, <4>1
      <4>2. CASE i # 1
        <5>1. i - 1 \in DOMAIN events' /\ events'[i - 1] = events[i]
          BY <2>1, <3>1, <4>2
        <5> QED
          BY <5>1 DEF Queued
      <4> QED
        BY <4>1, <4>2
    <3>2. ASSUME NEW i \in DOMAIN events'
          PROVE  events'[i] \in Queued
      BY <2>1, <3>2 DEF Queued
    <3>3. b \in Queued
      BY <2>1 DEF Queued
    <3> QED
      BY <3>1, <3>2, <3>3 DEF Queued
  <2>5. Started' = {b} /\ Failed' = Failed
    BY <1>4, <2>1, <2>2 DEF Started, Failed
  <2>6. Awaiting' = Awaiting /\ Awaiting # {}
    BY <1>2, <2>4, <2>5 DEF Awaiting
  <2>7. Covered'
    BY <1>1, <1>2, <2>3, <2>6, DoneKept DEF OrderInv, Covered
  <2>8. BelowDone'
    <3>1. \A n : AllDone(n)' <=> AllDone(n)
      BY <1>1, DoneKept DEF AllDone
    <3> QED
      BY <1>1, <1>4, <2>2, <2>3, <3>1 DEF OrderInv, BelowDone
  <2>9. InStep'
    BY <1>1, <2>3, <2>6 DEF OrderInv, InStep
  <2>10. WaitsAlone' /\ FilterKept' /\ Ended'
    BY <1>1, <1>2, <1>3, <2>6 DEF OrderInv, WaitsAlone, Waits, FilterKept, Ended
  <2>11. RetriedAlone'
    BY <1>1, <2>3 DEF OrderInv, RetriedAlone
  <2>12. InOrder'
    <3>1. \A i, j \in DOMAIN events' : i < j => events'[i] < events'[j]
      <4>1. \A i \in DOMAIN events' : i \in Int /\ i + 1 \in DOMAIN events
        BY <2>1
      <4> QED
        BY <2>1, <4>1 DEF OrderInv, InOrder
    <3>2. \A c \in Queued' : b < c
      <4>1. ASSUME NEW i \in DOMAIN events'
            PROVE  b < events'[i]
        <5>1. i + 1 \in DOMAIN events /\ 1 \in DOMAIN events /\ 1 < i + 1
          BY <2>1, <4>1
        <5> QED
          BY <2>1, <4>1, <5>1 DEF OrderInv, InOrder
      <4> QED
        BY <4>1 DEF Queued
    <3> QED
      BY <1>2, <2>4, <2>5, <3>1, <3>2 DEF OrderInv, InOrder
  <2>13. RowsKept'
    BY <1>1, <1>2, <2>6 DEF OrderInv, RowsKept, Emits
  <2> QED
    BY <1>2, <2>7, <2>8, <2>9, <2>10, <2>11, <2>12, <2>13 DEF OrderInv
<1>5. CASE /\ retrying # NoJob
           /\ event' = Handling(retrying, TRUE)
           /\ retrying' = NoJob
           /\ UNCHANGED events
  <2>1. /\ event' # NoJob /\ event'.block = retrying /\ event'.at = "process"
        /\ event'.retry = TRUE /\ retrying \in Block
    <3>1. retrying \in Block /\ Handling(retrying, TRUE) \in EventJob
      BY <1>1, <1>5 DEF Handling, EventJob
    <3>2. event' \in EventJob /\ event' = Handling(retrying, TRUE)
      BY <1>5, <3>1
    <3> QED
      BY <3>1, <3>2, HistoryAssumption DEF Handling
  <2>2. /\ Retrying /\ Retrying' /\ ~Created' /\ events = <<>>
        /\ queue = <<>> /\ batch = NoJob
    BY <1>1, <1>5, <2>1 DEF OrderInv, RetriedAlone, Retrying, Created
  <2>3. /\ DOMAIN events = {} /\ Queued = {} /\ Queued' = {} /\ Failed' = {}
        /\ Started' = {retrying} /\ Failed = {retrying} /\ Left = {}
    <3>1. DOMAIN events = {} /\ events' = events
      BY <1>5, <2>2, EmptySeq
    <3> QED
      BY <1>1, <1>5, <2>1, <2>2, <3>1 DEF Queued, Failed, Started, Left
  <2>4. Awaiting' = Awaiting /\ Awaiting # {}
    BY <1>2, <2>3 DEF Awaiting
  <2>5. BelowDone'
    <3>1. \A n : AllDone(n)' <=> AllDone(n)
      BY <1>1, DoneKept DEF AllDone
    <3> QED
      BY <1>1, <1>5, <2>1, <3>1 DEF OrderInv, BelowDone
  <2>6. Covered' /\ InStep'
    BY <1>1, <1>2, <2>1, <2>2, <2>4 DEF OrderInv, Covered, InStep, Created
  <2>7. WaitsAlone' /\ FilterKept' /\ Ended'
    BY <1>1, <1>3, <2>2, <2>4 DEF WaitsAlone, Waits, FilterKept, Ended
  <2>8. RetriedAlone'
    BY <1>1, <1>5, <2>1, <2>2 DEF RetriedAlone
  <2>9. InOrder'
    BY <1>2, <1>5, <2>2, <2>3 DEF OrderInv, InOrder
  <2>10. RowsKept'
    BY <1>1, <1>2, <2>4 DEF OrderInv, RowsKept, Emits
  <2> QED
    BY <1>2, <2>5, <2>6, <2>7, <2>8, <2>9, <2>10 DEF OrderInv
<1> QED
  BY <1>4, <1>5 DEF StartEvents

\* the events of the first block that is not done are processed, all of them
LEMMA OrderEventsProcessed ==
    ASSUME OnceInv, OnceInv', OrderInv, ProcessEvents
    PROVE  OrderInv'
<1>0. PICK b : b = event.block
  OBVIOUS
<1>1. /\ event # NoJob /\ event.block = b /\ event.at = "process" /\ event \in EventJob
      /\ applied' = [applied EXCEPT ![b] =
             [c \in Contract |-> IF c \in Logs(b) THEN applied[b][c] + 1
                                                ELSE applied[b][c]]]
      /\ rows' = [rows EXCEPT ![b] = Logs(b)]
      /\ complete' = complete \cup {b}
      /\ watched' = IF b = creation THEN Contract ELSE watched
      /\ memory' = [memory EXCEPT !.blocks = memory.blocks \ {b}]
      /\ event' = [event EXCEPT !.at = IF Creates(b) THEN "created" ELSE "status"]
      /\ UNCHANGED <<creation, status, queue, batch, events, retrying, server>>
      /\ Types
  BY <1>0 DEF ProcessEvents, OnceInv, Types
<1>2. /\ b \in Block /\ b \in Height /\ b \in Started /\ b \in Awaiting
      /\ b \in Nat \ {0} /\ b \notin complete /\ ~Created /\ Awaiting # {}
  <2>1. b \in Block
    BY <1>1 DEF EventJob
  <2>2. b \in Started /\ ~Created
    BY <1>1, <2>1 DEF Started, Created
  <2> QED
    BY <1>1, <2>1, <2>2, AwaitingTyped DEF Block, Awaiting, OnceInv, Fresh
<1>3. AllDone(b - 1)
  BY <1>1, FirstInLine
<1>4. /\ event' # NoJob /\ event'.block = b /\ event'.retry = event.retry
      /\ event'.at = IF Creates(b) THEN "created" ELSE "status"
  <2>1. event' \in EventJob
    BY <1>1, <1>2 DEF EventJob
  <2> QED
    BY <1>1, <2>1, HistoryAssumption DEF EventJob
<1>5. creation \in Block /\ creation \in Nat \ {0} /\ "factory" \in Emits(creation)
      /\ Emits(b) \subseteq Contract
  BY <1>1, <1>2, EmitsTyped DEF Block
\* all of its logs are seen
<1>6. Emits(b) \subseteq Logs(b)
  <2>1. /\ "factory" \in Emits(b) => "factory" \in rows[b]
        /\ b > creation /\ "pool" \in watched => Emits(b) \subseteq rows[b]
    BY <1>2 DEF OrderInv, RowsKept
  <2>2. CASE b > creation
    <3>1. creation \in 1..(b - 1)
      BY <1>2, <1>5, <2>2
    <3>2. "pool" \in watched
      BY <1>3, <3>1, CreationDone DEF AllDone
    <3> QED
      BY <2>1, <2>2, <3>2 DEF Logs
  <2>3. CASE b = creation
    <3>1. "pool" \notin watched
      BY <1>2, <2>3 DEF OnceInv, Database
    <3> QED
      BY <1>5, <2>1, <2>3, <3>1 DEF Logs, Creates, Contract
  <2>4. CASE b < creation
    BY <1>2, <1>5, <2>1, <2>4 DEF Logs, Emits, Contract
  <2> QED
    BY <1>2, <1>5, <2>2, <2>3, <2>4
<1>7. \A c \in Contract : applied[b][c] = 0
  BY <1>2, FreshApplied
<1>8. Done(b)'
  <2>1. ASSUME NEW c \in Emits(b)
        PROVE  applied'[b][c] = 1
    BY <1>1, <1>2, <1>5, <1>6, <1>7, <2>1 DEF Types
  <2> QED
    BY <1>1, <2>1 DEF Done, Emits
<1>9. ASSUME NEW x \in 1..Tip, Done(x)
      PROVE  Done(x)'
  <2>1. CASE x = b
    BY <1>8, <2>1
  <2>2. CASE x # b
    <3>1. applied'[x] = applied[x]
      BY <1>1, <1>2, <1>9, <2>2 DEF Types, Height
    <3> QED
      BY <1>1, <1>9, <3>1 DEF Done, Emits
  <2> QED
    BY <2>1, <2>2
<1>10. \A n \in Height : AllDone(n) => AllDone(n)'
  <2>1. \A n \in Height : \A x \in 1..n : x \in 1..Tip
    BY HistoryAssumption DEF Height
  <2> QED
    BY <1>9, <2>1 DEF AllDone
<1>11. AllDone(b)'
  <2>1. ASSUME NEW x \in 1..b
        PROVE  Done(x)'
    <3>1. CASE x = b
      BY <1>8, <3>1
    <3>2. CASE x # b
      <4>1. x \in 1..(b - 1) /\ x \in 1..Tip
        BY <1>2, <2>1, <3>2, HistoryAssumption DEF Block
      <4> QED
        BY <1>3, <1>9, <4>1 DEF AllDone
    <3> QED
      BY <3>1, <3>2
  <2> QED
    BY <2>1 DEF AllDone
<1>12. /\ Queued' = Queued /\ Failed' = Failed /\ Started' = {} /\ Left' = Left
       /\ Retrying' = Retrying /\ NextFrom' = NextFrom
  BY <1>1, <1>4 DEF Queued, Failed, Started, Left, Retrying, NextFrom
<1>13. /\ Awaiting' \subseteq Awaiting \ {b}
       /\ \A x \in Awaiting : x # b => x \in Awaiting'
  BY <1>1, <1>2, <1>12 DEF OnceInv, OneJob, Awaiting, Started
<1>14. ~Created' => watched' = watched
  <2>1. CASE b = creation
    <3>1. "pool" \notin watched
      BY <1>2, <2>1 DEF OnceInv, Database
    <3> QED
      BY <1>4, <2>1, <3>1 DEF Creates, Created
  <2> QED
    BY <1>1, <2>1
<1>15. Covered'
  <2>1. ASSUME ~Created', ~Retrying', NEW x \in 1..(NextFrom' - 1)
        PROVE  Done(x)' \/ x \in Awaiting' \/ (x > creation /\ "pool" \notin watched')
    <3>1. NextFrom \in 1..(Tip + 1) /\ Tip \in Nat
      BY <1>1, NextFromTyped, HistoryAssumption
    <3>2. x \in 1..(NextFrom - 1) /\ x \in 1..Tip
      BY <1>12, <2>1, <3>1
    <3>3. Done(x) \/ x \in Awaiting \/ (x > creation /\ "pool" \notin watched)
      BY <1>2, <1>12, <2>1, <3>2 DEF OrderInv, Covered
    <3> QED
      BY <1>8, <1>9, <1>13, <1>14, <2>1, <3>2, <3>3
  <2> QED
    BY <1>1, <2>1 DEF Covered
<1>16. BelowDone'
  <2>1. AllDone(status.processed)'
    <3>1. PICK p \in Height : p = status.processed
      BY <1>1 DEF Types
    <3>2. AllDone(p)'
      BY <1>10, <3>1 DEF OrderInv, BelowDone
    <3>3. p = status'.processed
      BY <1>1, <3>1
    <3> QED
      BY <3>2, <3>3 DEF AllDone
  <2>2. event'.retry => AllDone(event.block - 1)'
    <3>1. event'.block - 1 = b - 1 /\ b - 1 \in Height /\ AllDone(b - 1)'
      <4>1. b - 1 \in Height
        BY <1>2, HistoryAssumption DEF Height
      <4> QED
        BY <1>3, <1>4, <1>10, <4>1
    <3> QED
      BY <3>1 DEF AllDone
  <2>3. AllDone(event.block)'
    BY <1>4, <1>11 DEF AllDone
  <2>4. retrying' = NoJob
    BY <1>1 DEF OrderInv, RetriedAlone, Retrying
  <2> QED
    BY <2>1, <2>2, <2>3, <2>4 DEF BelowDone
<1>17. /\ memory'.completedUpto = memory.completedUpto
       /\ memory'.hasError = memory.hasError
  BY <1>1 DEF Types, Memory
<1>18. OneToken' /\ InStep'
  BY <1>1, <1>2, <1>17 DEF OrderInv, OneToken, InStep
<1>19. ~Waits /\ server.realtime = NoBlock
  BY <1>1, <1>2 DEF OrderInv, WaitsAlone, Ended, EventsQueueEmpty
<1>20. WaitsAlone' /\ Ended'
  BY <1>1, <1>19 DEF WaitsAlone, Waits, Ended
<1>21. RetriedAlone'
  BY <1>1, <1>4, <1>12, <1>17 DEF OrderInv, RetriedAlone
<1>22. InOrder'
  BY <1>1, <1>2, <1>12 DEF OrderInv, InOrder
<1>23. RowsKept'
  <2>1. ASSUME ~Created', NEW x \in Awaiting'
        PROVE  /\ "factory" \in Emits(x) => "factory" \in rows'[x]
               /\ x > creation /\ "pool" \in watched' => Emits(x) \subseteq rows'[x]
    <3>1. x \in Awaiting /\ x # b /\ x \in Height
      BY <1>1, <1>13, <2>1, AwaitingTyped
    <3>2. rows'[x] = rows[x]
      BY <1>1, <1>2, <3>1 DEF Types
    <3> QED
      BY <1>2, <1>14, <2>1, <3>1, <3>2 DEF OrderInv, RowsKept
  <2>2. \A x : Emits(x)' = Emits(x)
    BY <1>1 DEF Emits
  <2> QED
    BY <1>1, <2>1, <2>2 DEF RowsKept
<1>24. FilterKept'
  BY <1>1, <1>2, <1>14 DEF OrderInv, FilterKept
<1> QED
  BY <1>15, <1>16, <1>18, <1>20, <1>21, <1>22, <1>23, <1>24 DEF OrderInv

LEMMA OrderCreationHandled ==
    ASSUME OnceInv, OrderInv, ContractCreated, ~overlapped'
    PROVE  OrderInv'
<1>0. PICK b : b = event.block
  OBVIOUS
<1>1. /\ event # NoJob /\ event.at = "created" /\ event \in EventJob /\ event.block = b
      /\ b \in Block /\ b \in Nat \ {0}
      /\ queue' = IF memory.completedUpto > b
                  THEN <<Job(b + 1, memory.lastEnd, 1)>> ELSE queue
      /\ events' = <<>> /\ retrying' = NoJob
      /\ event' = [event EXCEPT !.at = "status"]
      /\ UNCHANGED <<creation, rows, complete, applied, status, watched, batch, memory,
                     server>>
      /\ ~Overlaps /\ Types /\ memory.completedUpto \in Nat
  <2>1. event \in EventJob /\ Types /\ memory.completedUpto \in Height
    BY DEF ContractCreated, OnceInv, Types, Memory
  <2> QED
    <3>1. b \in Block /\ b \in Nat \ {0} /\ memory.completedUpto \in Nat
      BY <1>0, <2>1 DEF EventJob, Block, Height
    <3> QED
      BY <1>0, <2>1, <3>1 DEF ContractCreated, RestartAfter, dbVars
<1>2. Created
  BY <1>1 DEF Created
<1>3. batch = NoJob
  BY <1>1, <1>2 DEF OrderInv, WaitsAlone, Waits, Overlaps
<1>4. /\ event' # NoJob /\ event'.block = b /\ event'.at = "status"
      /\ event'.retry = event.retry
  <2>1. event' \in EventJob
    BY <1>1 DEF EventJob
  <2> QED
    BY <1>1, <2>1, HistoryAssumption DEF EventJob
<1>5. /\ DOMAIN events' = {} /\ Queued' = {} /\ Failed' = {} /\ Started' = {}
      /\ Left' = {} /\ Awaiting' = {} /\ ~Created' /\ ~Waits'
  BY <1>1, <1>3, <1>4, EmptySeq
  DEF Queued, Failed, Started, Left, Awaiting, Created, Waits
<1>6. /\ status.head = memory.completedUpto
      /\ queue # <<>> => queue[1].from = memory.completedUpto + 1
      /\ AllDone(b) /\ AllDone(status.processed)
  BY <1>1, <1>2, <1>3 DEF OrderInv, InStep, BelowDone
<1>7. retrying = NoJob
  BY <1>1 DEF OrderInv, RetriedAlone, Retrying
<1>8. Retrying' <=> Retrying
  BY <1>1, <1>4, <1>7 DEF Retrying
<1>9. NextFrom' = IF memory.completedUpto > b THEN b + 1 ELSE memory.completedUpto + 1
  <2>1. CASE memory.completedUpto > b
    <3>1. queue' = <<Job(b + 1, memory.lastEnd, 1)>>
      BY <1>1, <2>1
    <3>2. queue' # <<>> /\ queue'[1].from = b + 1
      BY <3>1 DEF Job
    <3> QED
      BY <2>1, <3>2 DEF NextFrom
  <2>2. CASE ~(memory.completedUpto > b)
    BY <1>1, <1>3, <1>6, <2>2 DEF NextFrom
  <2> QED
    BY <2>1, <2>2
<1>10. Len(queue') <= 1
  <2>1. CASE memory.completedUpto > b
    BY <1>1, <2>1
  <2>2. CASE ~(memory.completedUpto > b)
    BY <1>1, <2>2 DEF OrderInv, OneToken
  <2> QED
    BY <2>1, <2>2
<1>11. OneToken' /\ InStep' /\ WaitsAlone' /\ FilterKept' /\ RowsKept' /\ InOrder'
  BY <1>1, <1>3, <1>5, <1>10
  DEF OneToken, InStep, WaitsAlone, FilterKept, RowsKept, InOrder
<1>12. Covered'
  <2>1. ASSUME NEW x \in 1..(NextFrom' - 1)
        PROVE  Done(x)'
    <3>1. x \in 1..b
      BY <1>1, <1>9, <2>1
    <3> QED
      BY <1>1, <1>6, <3>1, DoneKept DEF AllDone
  <2> QED
    BY <2>1 DEF Covered
<1>13. BelowDone'
  <2>1. \A n : AllDone(n)' <=> AllDone(n)
    BY <1>1, DoneKept DEF AllDone
  <2>2. event.retry => AllDone(b - 1)
    BY <1>1 DEF OrderInv, BelowDone
  <2> QED
    BY <1>1, <1>4, <1>6, <2>1, <2>2 DEF BelowDone
<1>14. RetriedAlone'
  <2>1. ASSUME Retrying
        PROVE  queue' # <<>> => NextFrom' = b + 1 /\ memory.completedUpto > b
    <3>1. queue = <<>>
      BY <1>1, <2>1 DEF OrderInv, RetriedAlone
    <3> QED
      BY <1>1, <1>9, <3>1
  <2> QED
    BY <1>1, <1>3, <1>4, <1>8, <2>1 DEF OrderInv, RetriedAlone
<1>15. Ended'
  BY <1>1 DEF OrderInv, Ended, EventsQueueEmpty
<1> QED
  BY <1>11, <1>12, <1>13, <1>14, <1>15 DEF OrderInv

LEMMA OrderEventsEnd ==
    ASSUME OnceInv, OrderInv, EventsDone
    PROVE  OrderInv'
<1>0. PICK b : b = event.block
  OBVIOUS
<1>1. /\ event # NoJob /\ event.at = "status" /\ event \in EventJob /\ event.block = b
      /\ b \in Block /\ b \in Nat \ {0} /\ b \in complete /\ b \in Height
      /\ memory' = [memory EXCEPT !.hasError = FALSE]
      /\ event' = NoJob
      /\ UNCHANGED <<creation, queue, batch, events, retrying, server>>
      /\ Types /\ AllDone(b) /\ AllDone(status.processed) /\ status.processed \in Height
  <2>1. event \in EventJob /\ Types /\ status.processed \in Height
    BY DEF EventsDone, OnceInv, Types
  <2>2. event # NoJob /\ event.at = "status"
    BY DEF EventsDone
  <2>3. b \in complete /\ AllDone(b) /\ AllDone(status.processed)
    BY <1>0, <2>2 DEF OnceInv, Database, OrderInv, BelowDone
  <2> QED
    BY <1>0, <2>1, <2>2, <2>3 DEF EventsDone, EventJob, Block, Types
<1>2. retrying = NoJob /\ ~Created /\ ~Created' /\ ~Retrying'
  BY <1>1 DEF OrderInv, RetriedAlone, Retrying, Created
<1>3. /\ memory'.completedUpto = memory.completedUpto /\ memory'.hasError = FALSE
  BY <1>1 DEF Types, Memory
<1>4. /\ Queued' = Queued /\ Failed' = Failed /\ Started' = {} /\ Started = {}
      /\ Left' = Left /\ Awaiting' = Awaiting
  BY <1>1 DEF Queued, Failed, Started, Left, Awaiting
<1>5. /\ server.realtime = NoBlock
  BY <1>1 DEF OrderInv, Ended, EventsQueueEmpty
<1>6. OneToken' /\ WaitsAlone' /\ RetriedAlone' /\ InOrder' /\ Ended'
  BY <1>1, <1>2, <1>3, <1>4, <1>5
  DEF OrderInv, OneToken, WaitsAlone, Waits, RetriedAlone, InOrder, Ended
<1>7. CASE event.retry
  <2>1. /\ events = <<>> /\ (batch = NoJob \/ batch.at = "wait")
        /\ (queue # <<>> \/ batch # NoJob) => NextFrom = b + 1
    BY <1>1, <1>7 DEF OrderInv, RetriedAlone, Retrying
  <2>2. /\ resetWatcherToBlock(b, b)
    BY <1>1, <1>7 DEF EventsDone
  <2>3. /\ \A x \in 1..b : Done(x)' <=> Done(x)
        /\ status'.head = b /\ status'.processed \in Height /\ status'.processed <= b
        /\ \A m \in Height : m <= b => (AllDone(m)' <=> AllDone(m))
    BY <1>1, <2>2, DoneKeptByReset
  <2>4. Awaiting = {}
    <3>1. DOMAIN events = {}
      BY <2>1, EmptySeq
    <3> QED
      BY <1>2, <1>4, <2>1, <3>1 DEF Awaiting, Queued, Failed, Left
  <2>5. NextFrom' = b + 1
    <3>1. CASE queue # <<>> \/ batch # NoJob
      BY <1>1, <2>1, <3>1 DEF NextFrom
    <3>2. CASE queue = <<>> /\ batch = NoJob
      BY <1>1, <2>3, <3>2 DEF NextFrom
    <3> QED
      BY <3>1, <3>2
  <2>6. Covered'
    BY <1>1, <2>3, <2>5 DEF AllDone, Covered
  <2>7. BelowDone'
    <3>1. \A x \in 1..b : Done(x)'
      BY <1>1, <2>3 DEF AllDone
    <3>2. \A x \in 1..status'.processed : x \in 1..b
      BY <1>1, <2>3 DEF Height
    <3> QED
      BY <1>1, <1>2, <3>1, <3>2 DEF BelowDone, AllDone
  <2>8. InStep' /\ RowsKept' /\ FilterKept'
    BY <1>1, <1>2, <1>4, <2>1, <2>4 DEF InStep, RowsKept, FilterKept
  <2> QED
    BY <1>6, <2>6, <2>7, <2>8 DEF OrderInv
<1>8. CASE ~event.retry
  <2>1. /\ status' = [status EXCEPT !.processed = Max({status.processed, b})]
        /\ UNCHANGED <<rows, complete, applied, watched>>
    BY <1>1, <1>8 DEF EventsDone
  <2>2. status'.head = status.head /\ status'.processed \in {status.processed, b}
    <3>1. status.processed \in Int /\ b \in Int
      BY <1>1 DEF Height
    <3> QED
      BY <1>1, <2>1, <3>1, MaxOfTwo DEF Types
  <2>3. NextFrom' = NextFrom /\ ~Retrying
    BY <1>1, <1>2, <1>8, <2>2 DEF NextFrom, Retrying
  <2>4. Covered'
    BY <1>1, <1>2, <1>4, <2>1, <2>3, DoneKept DEF OrderInv, Covered
  <2>5. BelowDone'
    <3>1. \A n : AllDone(n)' <=> AllDone(n)
      BY <1>1, <2>1, DoneKept DEF AllDone
    <3> QED
      BY <1>1, <1>2, <2>2, <3>1 DEF BelowDone
  <2>6. InStep'
    BY <1>1, <1>2, <1>3, <1>4, <2>2 DEF OrderInv, InStep
  <2>7. RowsKept'
    BY <1>1, <1>2, <1>4, <2>1 DEF OrderInv, RowsKept, Emits
  <2>8. FilterKept'
    BY <1>1, <1>2, <2>1 DEF OrderInv, FilterKept
  <2> QED
    BY <1>6, <2>4, <2>5, <2>6, <2>7, <2>8 DEF OrderInv
<1> QED
  BY <1>7, <1>8

\* the failed events job is the first in line, and the only one that stays
LEMMA OrderEventsRetried ==
    ASSUME OnceInv, OrderInv, EventsFail, ~overlapped'
    PROVE  OrderInv'
<1>0. PICK b : b = event.block
  OBVIOUS
<1>1. /\ event # NoJob /\ event.at = "process" /\ event.block = b /\ b \in Block
      /\ memory' = [memory EXCEPT !.hasError = TRUE]
      /\ applied' = Cleared(b)
      /\ watched' = IF b = creation THEN watched \ {"pool"} ELSE watched
      /\ events' = <<>> /\ queue' = <<>> /\ retrying' = b /\ event' = NoJob
      /\ batch' = IF batch = NoJob THEN NoJob ELSE [batch EXCEPT !.deleted = TRUE]
      /\ UNCHANGED <<creation, rows, complete, status, server>>
      /\ ~Overlaps /\ Types
  <2>1. event \in EventJob /\ Types
    BY DEF EventsFail, OnceInv, Types
  <2>2. b \in Block
    BY <1>0, <2>1 DEF EventJob
  <2> QED
    BY <1>0, <2>1, <2>2 DEF EventsFail
<1>2. b \in Height /\ b \in Awaiting /\ b \notin complete /\ b # NoJob /\ ~Created
  <2>1. b \in Height /\ b \in Started
    BY <1>1, AwaitingTyped DEF Started
  <2> QED
    BY <1>1, <2>1, HistoryAssumption DEF Awaiting, OnceInv, Fresh, Created
<1>3. batch = NoJob /\ batch' = NoJob
  BY <1>1, <1>2 DEF OrderInv, WaitsAlone, Waits, Overlaps
<1>4. \A x \in Height : applied'[x] = applied[x]
  <2>1. \A c \in Contract : applied[b][c] = 0
    BY <1>2, FreshApplied
  <2>2. applied \in [Height -> [Contract -> Nat]]
    BY <1>1 DEF Types
  <2>3. applied[b] = Nothing[b]
    <3>1. Nothing[b] = [c \in Contract |-> 0]
      BY <1>2 DEF Nothing
    <3>2. applied[b] = [c \in Contract |-> applied[b][c]]
      BY <1>2, <2>2
    <3> QED
      BY <2>1, <3>1, <3>2
  <2> QED
    BY <1>1, <1>2, <2>2, <2>3 DEF Cleared
<1>5. \A n \in Height : AllDone(n) => AllDone(n)'
  <2>1. ASSUME NEW x \in Height
        PROVE  Done(x)' <=> Done(x)
    BY <1>1, <1>4, <2>1 DEF Done, Emits
  <2>2. \A n \in Height : \A x \in 1..n : x \in Height
    BY HistoryAssumption DEF Height
  <2> QED
    BY <2>1, <2>2 DEF AllDone
<1>6. /\ DOMAIN events' = {} /\ Queued' = {} /\ Failed' = {b} /\ Started' = {}
      /\ Left' = {} /\ Awaiting' = {b} /\ ~Created' /\ Retrying'
  BY <1>1, <1>2, <1>3, EmptySeq
  DEF Queued, Failed, Started, Left, Awaiting, Created, Retrying
<1>7. Covered'
  BY <1>6 DEF Covered
<1>8. BelowDone'
  <2>1. AllDone(b - 1)'
    <3>1. AllDone(b - 1)
      BY <1>1, FirstInLine
    <3>2. b - 1 \in Height
      BY <1>1, HistoryAssumption DEF Block, Height
    <3> QED
      BY <1>5, <3>1, <3>2
  <2>2. AllDone(status.processed)'
    <3>1. PICK p \in Height : p = status.processed
      BY <1>1 DEF Types
    <3>2. AllDone(p)'
      BY <1>5, <3>1 DEF OrderInv, BelowDone
    <3>3. p = status'.processed
      BY <1>1, <3>1
    <3> QED
      BY <3>2, <3>3 DEF AllDone
  <2> QED
    BY <1>1, <2>1, <2>2 DEF BelowDone, AllDone
<1>9. /\ memory'.completedUpto = memory.completedUpto
  BY <1>1 DEF Types, Memory
<1>10. InStep'
  BY <1>1, <1>2, <1>3, <1>9 DEF OrderInv, InStep
<1>11. OneToken' /\ WaitsAlone' /\ RetriedAlone' /\ InOrder' /\ FilterKept'
  BY <1>1, <1>3, <1>6, EmptySeq
  DEF OneToken, WaitsAlone, Waits, RetriedAlone, InOrder, FilterKept
<1>12. RowsKept'
  <2>1. "pool" \in watched' => "pool" \in watched
    BY <1>1
  <2> QED
    BY <1>1, <1>2, <1>6, <2>1 DEF OrderInv, RowsKept, Emits
<1>13. Ended'
  BY <1>1 DEF OrderInv, Ended, EventsQueueEmpty
<1> QED
  BY <1>7, <1>8, <1>10, <1>11, <1>12, <1>13 DEF OrderInv

\* block by block processing starts when all below is done
LEMMA OrderHistoryStarts ==
    ASSUME OnceInv, ServerTypes, OrderInv, startBlockProcessing
    PROVE  OrderInv'
<1>1. /\ events = <<>> /\ retrying = NoJob /\ event = NoJob
      /\ events' = events /\ retrying' = retrying /\ event' = event
      /\ UNCHANGED <<creation, rows, complete, applied, status, watched, batch, memory>>
      /\ Types /\ status.head \in Height /\ status.head \in Nat
  BY DEF startBlockProcessing, EventsQueueEmpty, dbVars, OnceInv, Types, Height
<1>2. /\ DOMAIN events = {} /\ Queued = {} /\ Failed = {} /\ Started = {}
      /\ Queued' = {} /\ Failed' = {} /\ Started' = {} /\ Left' = Left
      /\ Awaiting = Left /\ Awaiting' = Left
      /\ ~Created /\ ~Created' /\ ~Retrying /\ ~Retrying'
  BY <1>1, EmptySeq DEF Queued, Failed, Started, Left, Awaiting, Created, Retrying
<1>3. BelowDone'
  BY <1>1, BelowDoneKept DEF OrderInv
<1>4. WaitsAlone' /\ RetriedAlone' /\ InOrder' /\ RowsKept' /\ FilterKept'
  BY <1>1, <1>2
  DEF OrderInv, WaitsAlone, Waits, RetriedAlone, InOrder, RowsKept, FilterKept, Emits
<1>5. CASE UNCHANGED <<queue, server>>
  <2>1. NextFrom' = NextFrom
    BY <1>1, <1>5 DEF NextFrom
  <2>2. Covered'
    BY <1>1, <1>2, <2>1, DoneKept DEF OrderInv, Covered
  <2>3. OneToken' /\ InStep'
    BY <1>1, <1>2, <1>5 DEF OrderInv, OneToken, InStep
  <2>4. Ended'
    BY <1>1, <1>5, DoneKept DEF OrderInv, Ended, EventsQueueEmpty, AllDone
  <2> QED
    BY <1>3, <1>4, <2>2, <2>3, <2>4 DEF OrderInv
<1>6. CASE ~UNCHANGED <<queue, server>>
  <2> DEFINE start == status.head + 1
             end == Min({start + FetchAhead, Tip})
  <2>1. /\ queue = <<>> /\ (batch = NoJob \/ batch.deleted)
        /\ server.realtime = NoBlock
        /\ \/ /\ server' = [server EXCEPT !.end = end]
              /\ queue' = Append(queue, Job(start, end, 1))
           \/ server' = [server EXCEPT !.realtime = start] /\ queue' = queue
    BY <1>6 DEF startBlockProcessing
  <2>2. batch = NoJob /\ batch' = NoJob /\ Left = {}
    BY <1>1, <2>1 DEF OrderInv, OneToken, Left
  <2>3. NextFrom = status.head + 1
    BY <2>1, <2>2 DEF NextFrom
  <2>9. Job(start, end, 1).from = start
    BY DEF Job
  <2> HIDE DEF start, end
  <2>10. Len(queue') <= 1 /\ (queue' # <<>> => queue'[1].from = start)
    <3>1. CASE queue' = Append(queue, Job(start, end, 1))
      <4>1. queue' = <<Job(start, end, 1)>>
        BY <2>1, <3>1
      <4> QED
        BY <2>9, <4>1
    <3>2. CASE queue' = queue
      BY <2>1, <3>2, EmptySeq
    <3> QED
      BY <2>1, <3>1, <3>2
  <2>4. Len(queue') <= 1 /\ (queue' # <<>> => queue'[1].from = status.head + 1)
    BY <2>10 DEF start
  <2>5. NextFrom' = NextFrom
    BY <1>1, <2>2, <2>3, <2>4 DEF NextFrom
  <2>6. Covered'
    BY <1>1, <1>2, <2>5, DoneKept DEF OrderInv, Covered
  <2>7. OneToken' /\ InStep'
    BY <1>2, <2>2, <2>4 DEF OneToken, InStep
  <2>8. Ended'
    <3>1. CASE server' = [server EXCEPT !.end = end]
      <4>1. server'.realtime = NoBlock
        BY <2>1, <3>1 DEF ServerTypes
      <4> QED
        BY <4>1 DEF Ended
    <3>2. CASE server' = [server EXCEPT !.realtime = start] /\ queue' = queue
      <4>1. \A x \in 1..status.head : Done(x) \/ (x > creation /\ "pool" \notin watched)
        BY <1>1, <1>2, <2>2, <2>3 DEF OrderInv, Covered
      <4>2. ASSUME NEW x \in 1..status.head, x > creation, "pool" \notin watched
            PROVE  FALSE
        <5>1. creation \in Nat \ {0}
          BY <1>1, EmitsTyped DEF Block
        <5>2. creation \in 1..status.head /\ ~(creation > creation)
          BY <1>1, <4>2, <5>1
        <5>3. Done(creation)
          BY <4>1, <5>2
        <5> QED
          BY <4>2, <5>3, CreationDone
      <4>3. AllDone(status.head)
        BY <4>1, <4>2 DEF AllDone
      <4>4. AllDone(status.head)'
        BY <1>1, <4>3, DoneKept DEF AllDone
      <4>5. ASSUME server'.realtime # NoBlock
            PROVE  server'.realtime = status.head + 1
        BY <3>2, <4>5 DEF ServerTypes, start
      <4>6. server'.realtime # NoBlock => AllDone(server.realtime - 1)'
        <5>1. status.head + 1 - 1 = status.head
          BY <1>1
        <5> QED
          BY <1>1, <4>4, <4>5, <5>1 DEF AllDone
      <4> QED
        BY <1>1, <2>1, <2>2, <3>2, <4>6 DEF Ended, EventsQueueEmpty
    <3> QED
      BY <2>1, <3>1, <3>2
  <2> QED
    BY <1>3, <1>4, <2>6, <2>7, <2>8 DEF OrderInv
<1> QED
  BY <1>5, <1>6

\* the steps that change nothing the invariant is about
LEMMA OrderUnchanged ==
    ASSUME OrderInv,
           UNCHANGED <<dbVars, queue, batch, events, retrying, event, memory, server>>
    PROVE  OrderInv'
<1>1. UNCHANGED <<creation, rows, complete, applied, status, watched, queue, batch, events,
                  retrying, event, memory, server>>
  BY DEF dbVars
<1>2. /\ Queued' = Queued /\ Failed' = Failed /\ Started' = Started /\ Left' = Left
      /\ Awaiting' = Awaiting /\ Created' = Created /\ Retrying' = Retrying
      /\ NextFrom' = NextFrom
  BY <1>1 DEF Queued, Failed, Started, Left, Awaiting, Created, Retrying, NextFrom
<1>3. Covered' /\ BelowDone'
  BY <1>1, <1>2, DoneKept, BelowDoneKept DEF OrderInv, Covered
<1>4. OneToken' /\ InStep' /\ WaitsAlone' /\ RetriedAlone' /\ InOrder' /\ FilterKept'
  BY <1>1, <1>2
  DEF OrderInv, OneToken, InStep, WaitsAlone, Waits, RetriedAlone, InOrder, FilterKept
<1>5. RowsKept'
  BY <1>1, <1>2 DEF OrderInv, RowsKept, Emits
<1>6. Ended'
  BY <1>1, DoneKept DEF OrderInv, Ended, EventsQueueEmpty, AllDone
<1> QED
  BY <1>3, <1>4, <1>5, <1>6 DEF OrderInv

\* after a crash the history starts again from the processed block, and all is done
\* up to there
LEMMA OrderCrashForgets ==
    ASSUME OnceInv, OrderInv, Crash
    PROVE  OrderInv'
<1>0. PICK n : n = status.processed
  OBVIOUS
<1>1. /\ n \in complete /\ resetWatcherToBlock(n, n) /\ AllDone(n)
      /\ queue' = <<>> /\ batch' = NoJob
      /\ events' = <<>> /\ retrying' = NoJob /\ event' = NoJob
      /\ memory' = [completedUpto |-> 0, lastEnd |-> 0, hasError |-> FALSE, blocks |-> {}]
      /\ server' = [end |-> 0, realtime |-> NoBlock] /\ creation' = creation
  BY <1>0 DEF Crash, CanReset, OrderInv, BelowDone
<1>2. /\ n \in Height /\ \A x \in 1..n : Done(x)'
      /\ status'.head = n /\ status'.processed \in Height /\ status'.processed <= n
  BY <1>1, DoneKeptByReset DEF AllDone
<1>3. /\ DOMAIN events' = {} /\ Queued' = {} /\ Failed' = {} /\ Started' = {}
      /\ Left' = {} /\ Awaiting' = {} /\ ~Created' /\ ~Retrying'
  BY <1>1, EmptySeq DEF Queued, Failed, Started, Left, Awaiting, Created, Retrying
<1>4. NextFrom' = n + 1
  BY <1>1, <1>2 DEF NextFrom
<1>5. Covered'
  <2>1. NextFrom' - 1 = n
    BY <1>2, <1>4 DEF Height
  <2> QED
    BY <1>2, <2>1 DEF Covered
<1>6. BelowDone'
  <2>1. \A x \in 1..status'.processed : x \in 1..n
    BY <1>2 DEF Height
  <2> QED
    BY <1>1, <1>2, <2>1 DEF BelowDone, AllDone
<1>7. /\ OneToken' /\ InStep' /\ WaitsAlone' /\ RetriedAlone' /\ InOrder' /\ FilterKept'
      /\ RowsKept' /\ Ended'
  BY <1>1, <1>3, EmptySeq
  DEF OneToken, InStep, WaitsAlone, Waits, RetriedAlone, InOrder, FilterKept, RowsKept, Ended
<1> QED
  BY <1>5, <1>6, <1>7 DEF OrderInv

LEMMA OrderInit ==
    ASSUME Init
    PROVE  OrderInv
<1>1. /\ queue = <<>> /\ batch = NoJob /\ events = <<>> /\ retrying = NoJob /\ event = NoJob
      /\ status.head = 0 /\ status.processed = 0 /\ memory.hasError = FALSE
      /\ server.realtime = NoBlock
  BY DEF Init
<1>2. /\ DOMAIN events = {} /\ Awaiting = {} /\ ~Created /\ ~Retrying /\ NextFrom = 1
      /\ Queued = {} /\ Started = {} /\ Left = {}
  BY <1>1, EmptySeq
  DEF Queued, Failed, Started, Left, Awaiting, Created, Retrying, NextFrom
<1>3. Covered /\ BelowDone
  BY <1>1, <1>2 DEF Covered, BelowDone, AllDone
<1> QED
  BY <1>1, <1>2, <1>3, EmptySeq
  DEF OrderInv, OneToken, InStep, WaitsAlone, Waits, RetriedAlone, InOrder, FilterKept,
      RowsKept, Ended

LEMMA OrderStep ==
    ASSUME OnceInv, OnceInv', ServerTypes, OrderInv, [Next]_vars, Regular'
    PROVE  OrderInv'
<1>1. ~overlapped' /\ ~dropped'
  BY DEF Regular
<1>2. CASE Historical
  BY <1>1, <1>2, OrderHistoricalStarts, OrderRestarts, OrderBlocksSaved, OrderFetchRetried,
     OrderEventsPushed, OrderStatusUpdated, OrderBatchFinished DEF Historical
<1>3. CASE Events
  BY <1>1, <1>3, OrderEventsStarted, OrderEventsProcessed, OrderCreationHandled,
     OrderEventsEnd DEF Events
<1>4. CASE EventsFail
  BY <1>1, <1>4, OrderEventsRetried
<1>5. CASE Server
  <2>1. CASE startBlockProcessing
    BY <2>1, OrderHistoryStarts
  <2>2. CASE historicalProcessingCompleteHandler \/ eventProcessingCompleteHandler
    BY <2>2, OrderUnchanged
    DEF historicalProcessingCompleteHandler, eventProcessingCompleteHandler
  <2> QED
    BY <1>5, <2>1, <2>2 DEF Server
<1>6. CASE Crash
  BY <1>6, OrderCrashForgets
<1>7. CASE UNCHANGED vars
  BY <1>7, OrderUnchanged DEF vars
<1> QED
  BY <1>2, <1>3, <1>4, <1>5, <1>6, <1>7 DEF Next

\* no step forgets that the history was not regular
LEMMA RegularBefore ==
    ASSUME [Next]_vars, Regular'
    PROVE  Regular
<1>1. ~overlapped' /\ ~dropped'
  BY DEF Regular
<1>2. ~overlapped
  <2>1. UNCHANGED overlapped \/ overlapped' = (overlapped \/ Overlaps)
    BY DEF Next, vars, history, Historical, Events, Server, StartHistorical, Restart,
           SaveBlocks, FetchFails, PushEvents, UpdateStatus, FinishBatch, StartEvents,
           ProcessEvents, ContractCreated, EventsDone, EventsFail, startBlockProcessing,
           historicalProcessingCompleteHandler, eventProcessingCompleteHandler, Crash
  <2> QED
    BY <1>1, <2>1
<1>3. ~dropped
  <2>1. UNCHANGED dropped \/ dropped' = TRUE
    BY DEF Next, vars, history, Historical, Events, Server, StartHistorical, Restart,
           SaveBlocks, FetchFails, PushEvents, UpdateStatus, FinishBatch, StartEvents,
           ProcessEvents, ContractCreated, EventsDone, EventsFail, startBlockProcessing,
           historicalProcessingCompleteHandler, eventProcessingCompleteHandler, Crash
  <2> QED
    BY <1>1, <2>1
<1> QED
  BY <1>2, <1>3 DEF Regular

LEMMA HistoryInvariant ==
    Spec => [](OnceInv /\ ServerTypes /\ (Regular => OrderInv))
<1>1. Init => (Regular => OrderInv)
  BY OrderInit
<1>2. ASSUME OnceInv, ServerTypes, Regular => OrderInv, [Next]_vars, OnceInv'
      PROVE  (Regular => OrderInv)'
  <2>1. ASSUME Regular'
        PROVE  OrderInv'
    BY <1>2, <2>1, OrderStep, RegularBefore
  <2> QED
    BY <2>1
<1> QED
  BY <1>1, <1>2, OnceInvariant, PTL DEF Spec

\* As long as no events job creates a contract or fails while a historical job is in
\* progress, and none is dropped, no event of the history is skipped: whatever ranges
\* are retried or start again, and wherever the deployment crashes, all logs up to the
\* processed block are in the entities, and block by block processing takes over after
\* the last of them, with nothing in progress (processHistoricalBlocks, _processEvents,
\* startBlockProcessing).  In every history the processed block is one the watcher can
\* be reset to, so that the assertions of resetWatcherToBlock hold after a crash.
THEOREM HistoryStaysComplete == Spec => []HistoryComplete
<1>1. ASSUME OnceInv, ServerTypes, Regular => OrderInv
      PROVE  HistoryComplete
  <2>1. TypeOK
    BY <1>1 DEF OnceInv, TypeOK, Types, Database, CanReset
  <2>2. NothingSkipped
    BY <1>1 DEF OrderInv, BelowDone, AllDone, NothingSkipped
  <2>3. Handover
    BY <1>1 DEF OrderInv, Ended, AllDone, EventsQueueEmpty, Handover
  <2> QED
    BY <2>1, <2>2, <2>3 DEF HistoryComplete
<1> QED
  BY <1>1, HistoryInvariant, PTL

===============================================================================
