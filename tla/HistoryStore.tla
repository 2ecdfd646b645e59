----------------------------- MODULE HistoryStore -----------------------------
(***************************************************************************)
(* The readings of sensors: history_store.rs.  A reading enters a ring     *)
(* buffer in memory at once; its row in the history table and its share of *)
(* the five-minute statistics are written by two blocking jobs, which take *)
(* the connection's mutex in any order.  A reading is [ts, value]; a       *)
(* number is counted in thousandths.                                       *)
(***************************************************************************)
EXTENDS Naturals, Sequences, FiniteSets, SequencesExt, Lists

CONSTANTS
    SENSOR,        \* entity ids with readings
    CAPACITY,      \* history.capacity
    BUCKET,        \* seconds in a statistics bucket (300)
    None

ASSUME HistoryStoreAssumption ==
    CAPACITY \in Nat /\ BUCKET \in Nat \ {0} /\ IsFiniteSet(SENSOR) /\ None \notin Nat

VARIABLES
    now,           \* the clock, in seconds
    ring,          \* HistoryStore.inner: entity |-> its buffer, oldest first
    rows,          \* table history: entity |-> its rows in index order
    stats,         \* table stats: <<entity, bucket>> |-> its row, or None
    jobs,          \* blocking writes that have not run
    missed         \* whether a job failed or died with the process: history

historyVars == <<now, ring, rows, stats, jobs, missed>>

BucketOf(ts) == ts - (ts % BUCKET)

HistoryInit ==
    /\ now = 0
    /\ ring = [e \in SENSOR |-> << >>]
    /\ rows = [e \in SENSOR |-> << >>]
    /\ stats = << >>
    /\ jobs = << >>
    /\ missed = FALSE

\* RingBuffer.push: with a capacity of zero a buffer holds one reading.
PushReading(buffer, reading) ==
    Append(IF Len(buffer) >= CAPACITY /\ buffer # << >> THEN Tail(buffer) ELSE buffer,
           reading)

\* record_and_aggregate for each entity of a handler's samples, entity |-> value.
\* Any job may run next: the order in which they are queued means nothing.
Record(samples) ==
    LET reading(e) == [ts |-> now, value |-> samples[e]]
        order == SetToSeq(DOMAIN samples)
        queue(kind) == [i \in 1..Len(order) |->
            [kind |-> kind, entity |-> order[i], reading |-> reading(order[i])]]
    IN  /\ ring' = [e \in SENSOR |->
               IF e \in DOMAIN samples THEN PushReading(ring[e], reading(e)) ELSE ring[e]]
        /\ jobs' = jobs \o (queue("row") \o queue("stat"))
        /\ UNCHANGED <<now, rows, stats, missed>>

\* Mutant: a table read in the order the jobs ran in.
InsertUnordered(table, reading) == Append(table, reading)

\* The index on (entity_id, ts) keeps rows of one second in insertion order.
Insert(table, reading) ==
    LET before == Cardinality({i \in DOMAIN table : table[i].ts <= reading.ts})
    IN  InsertAt(table, before + 1, reading)

\* INSERT .. ON CONFLICT DO UPDATE; the mean is the sum divided by the count.
Aggregate(table, e, reading) ==
    LET k == <<e, BucketOf(reading.ts)>>
        v == reading.value
        new == IF k \notin DOMAIN table
               THEN [count |-> 1, min |-> v, max |-> v, sum |-> v]
               ELSE [count |-> table[k].count + 1,
                     min |-> IF v < table[k].min THEN v ELSE table[k].min,
                     max |-> IF v > table[k].max THEN v ELSE table[k].max,
                     sum |-> table[k].sum + v]
    IN  [x \in DOMAIN table \cup {k} |-> IF x = k THEN new ELSE table[x]]

\* Some blocking job gets the connection; an SQL error is only logged.
RunJob(i, ok) ==
    LET j == jobs[i]
    IN  /\ jobs' = RemoveAt(jobs, i)
        /\ rows' = IF ok /\ j.kind = "row"
                   THEN [rows EXCEPT ![j.entity] = Insert(@, j.reading)] ELSE rows
        /\ stats' = IF ok /\ j.kind = "stat"
                    THEN Aggregate(stats, j.entity, j.reading) ELSE stats
        /\ missed' = (missed \/ ~ok)
        /\ UNCHANGED <<now, ring>>

Tick == now' = now + 1 /\ UNCHANGED <<ring, rows, stats, jobs, missed>>

\* try_open fills each buffer from the table, oldest row first.
Warmed(table) ==
    LET buffer[n \in 0..Len(table)] ==
            IF n = 0 THEN << >> ELSE PushReading(buffer[n - 1], table[n])
    IN  buffer[Len(table)]

\* Mutant: one of the readings of the first second.
EarliestValues(e) ==
    {rows[e][i].value :
        i \in {j \in DOMAIN rows[e] : rows[e][j].ts = rows[e][1].ts}}

\* latest_values: one of the readings of the last second that has any.
LatestValues(e) ==
    {rows[e][i].value :
        i \in {j \in DOMAIN rows[e] : rows[e][j].ts = Last(rows[e]).ts}}

\* The process ends and opens the database again.
Reopen ==
    /\ jobs' = << >>
    /\ ring' = [e \in SENSOR |-> Warmed(rows[e])]
    /\ missed' = (missed \/ jobs # << >>)
    /\ UNCHANGED <<now, rows, stats>>

(***************************************************************************)
(* What is read: the buffers by sparklines, the tables by the history page. *)
(***************************************************************************)
\* RingBuffer.last_n.
LastN(e, n) ==
    LET first == IF n < Len(ring[e]) THEN Len(ring[e]) - n ELSE 0
    IN  SubSeq(ring[e], first + 1, Len(ring[e]))

Since(e, ts) == Pick(rows[e], {i \in DOMAIN rows[e] : rows[e][i].ts >= ts})

StatsSince(e, ts) == {k \in DOMAIN stats : k[1] = e /\ k[2] >= ts}

EntityIdsSince(ts) == {e \in SENSOR : Since(e, ts) # << >>}

\* api_history: a query is [since, last], where since is None for a sparkline.
Readings(e, query) ==
    IF query.since # None THEN Since(e, query.since)
    ELSE LastN(e, IF query.last < 1000 THEN query.last ELSE 1000)

\* api_statistics, with both ends of the window included.
Statistics(e, start, end) ==
    [k \in {j \in StatsSince(e, start) : (j[2] <= end)} |-> stats[k]]

Settled == jobs = << >> /\ ~missed
Times(readings) == [i \in DOMAIN readings |-> readings[i].ts]

\* Once its jobs have run, a sparkline ends the chart: the last n readings in
\* memory, as far as a page asks for them, are as old as the last n rows of the
\* table, whichever job ran first, and a restart, which fills the buffers from
\* the table, changes neither.
RingIsWarm ==
    Settled => \A e \in SENSOR, n \in 0..CAPACITY : n <= 1000 =>
        LET line == Readings(e, [since |-> None, last |-> n])
            chart == Readings(e, [since |-> 0])
            k == IF n < Len(chart) THEN n ELSE Len(chart)
        IN  /\ Times(line) = SubSeq(Times(chart), Len(chart) - k + 1, Len(chart))
            /\ ToSet(line) \subseteq ToSet(chart)
            /\ Times(Warmed(rows[e])) = Times(ring[e])

\* Once its jobs have run, the statistics of any window are the summary of the
\* readings in it, bucket by bucket, and the entities with statistics are those
\* the history page offers: both tables saw each reading once.
StatsAgree ==
    Settled => \A start, end \in {BucketOf(s) : s \in 0..now} :
        LET in(r) == BucketOf(r.ts) \in start..end
        IN  /\ {e \in SENSOR : StatsSince(e, start) # {}} = EntityIdsSince(start)
            /\ \A e \in SENSOR :
                  LET table == Statistics(e, start, end)
                      own(t) == {i \in DOMAIN rows[e] : BucketOf(rows[e][i].ts) = t}
                      worth(t) == [i \in DOMAIN rows[e] |->
                                      IF i \in own(t) THEN rows[e][i].value ELSE 0]
                  IN  /\ {k[2] : k \in DOMAIN table} =
                            {BucketOf(r.ts) : r \in {q \in ToSet(Since(e, start)) : in(q)}}
                      /\ \A k \in DOMAIN table :
                            LET values == {rows[e][i].value : i \in own(k[2])}
                            IN  /\ table[k].count = Cardinality(own(k[2]))
                                /\ table[k].sum = Total(worth(k[2]))
                                /\ {table[k].min, table[k].max} \subseteq values
                                /\ \A v \in values : table[k].min <= v /\ v <= table[k].max

\* Once its jobs have run, in whatever order, the three copies of the readings
\* agree: buffer, table and statistics (history_store.rs, record and open).
HistoryAgrees == RingIsWarm /\ StatsAgree
===============================================================================
