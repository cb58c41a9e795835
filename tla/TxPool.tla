------------------------------- MODULE TxPool -------------------------------
(***************************************************************************)
(* The transaction pool, internal/core/txpool/pool.go.                     *)
(*                                                                         *)
(* AddTx, RemoveTx and cleanupExpired hold p.mu for writing and are one    *)
(* action each.  GetPending holds it for reading only and yet pops the     *)
(* priority queues, so the calls of several readers interleave and race on *)
(* the queues: what a racing pop returns and leaves behind is any of the   *)
(* outcomes of container/heap's unsynchronised swaps and slice updates,    *)
(* a panic among them.  As in sync.RWMutex, a writer that waits holds back *)
(* new readers.                                                            *)
(*                                                                         *)
(* Time is the order of addition: `pending' lists the transactions as they *)
(* were added, and the first `aged' of them are past MaxTxLifetime.  A     *)
(* queue is listed in the order in which heap.Pop takes its items.         *)
(***************************************************************************)
EXTENDS Integers, Sequences, FiniteSets

CONSTANTS
    Txs,               \* transactions: hash, sender, nonce, hash and signature good
    Priorities,        \* the priorities callers of AddTx give
    Readers,           \* concurrent callers of GetPending
    Limits,            \* the limits they give
    MaxSize,           \* TxPoolConfig.MaxSize
    MaxTxPerAccount,   \* TxPoolConfig.MaxTxPerAccount
    MaxQueued          \* bound: items in the three queues

ASSUME TxPoolAssumption ==
    /\ \A tx \in Txs : tx.valid \in BOOLEAN /\ tx.nonce \in Nat
    /\ \A x, y \in Txs : x.hash = y.hash => x = y
    /\ Priorities \subseteq Int
    /\ Limits \subseteq Nat \ {0}
    /\ MaxSize \in Nat
    /\ MaxTxPerAccount \in Nat
    /\ MaxQueued \in Nat

Levels == 1..3   \* highPriority, normalQueue, lowPriority
Senders == {tx.from : tx \in Txs}
Nonces == {tx.nonce : tx \in Txs}
Items == [tx: Txs, priority: Priorities]
Idle == [limit |-> 0, level |-> 1, txs |-> <<>>]

VARIABLES
    pending,   \* the pending transactions, oldest first
    aged,      \* how many of them are older than MaxTxLifetime
    all,       \* all[sender] is the map from nonce to transaction
    queue,     \* the priority queues
    reader,    \* the GetPending call of each reader, Idle for none
    cleaning   \* cleanupExpired is asking for the lock

vars == <<pending, aged, all, queue, reader, cleaning>>

Elems(s) == {s[i] : i \in DOMAIN s}
EmptyMap == [x \in {} |-> 0]
Put(f, k, v) == [x \in DOMAIN f \cup {k} |-> IF x = k THEN v ELSE f[x]]
Without(f, k) == [x \in DOMAIN f \ {k} |-> f[x]]

Init ==
    /\ pending = <<>>
    /\ aged = 0
    /\ all = [s \in Senders |-> EmptyMap]
    /\ queue = [l \in Levels |-> <<>>]
    /\ reader = [r \in Readers |-> Idle]
    /\ cleaning = FALSE

Reading == {r \in Readers : reader[r] # Idle}

----------------------------------------------------------------------------
\* The queue a priority belongs to.
Level(priority) ==
    CASE priority >= 10 -> 1
      [] priority \in 5..9 -> 2
      [] OTHER -> 3

\* heap.Push: behind the items of the same or a higher priority.
Push(q, item) ==
    LET k == Cardinality({i \in DOMAIN q : q[i].priority >= item.priority})
    IN  SubSeq(q, 1, k) \o <<item>> \o SubSeq(q, k + 1, Len(q))

ValidateTx(tx) ==
    /\ tx.valid
    /\ Cardinality(DOMAIN all[tx.from]) < MaxTxPerAccount

Queued == Len(queue[1]) + Len(queue[2]) + Len(queue[3])

\* MUTANT: a transaction that is pending is added again.
AddTxAgain(tx, priority) ==
    /\ Reading = {}
    /\ Len(pending) < MaxSize
    /\ ValidateTx(tx)
    /\ Queued < MaxQueued
    /\ pending' = Append(pending, tx)
    /\ all' = [all EXCEPT ![tx.from] = Put(@, tx.nonce, tx)]
    /\ queue' = [queue EXCEPT
         ![Level(priority)] = Push(@, [tx |-> tx, priority |-> priority])]
    /\ UNCHANGED <<aged, reader, cleaning>>

\* A transaction with the sender and nonce of another takes its place in `all'
\* and leaves it pending.
AddTx(tx, priority) ==
    /\ Reading = {}
    /\ tx \notin Elems(pending)
    /\ Len(pending) < MaxSize
    /\ ValidateTx(tx)
    /\ Queued < MaxQueued
    /\ pending' = Append(pending, tx)
    /\ all' = [all EXCEPT ![tx.from] = Put(@, tx.nonce, tx)]
    /\ queue' = [queue EXCEPT
         ![Level(priority)] = Push(@, [tx |-> tx, priority |-> priority])]
    /\ UNCHANGED <<aged, reader, cleaning>>

\* MUTANT: the sender's map is left as it is.
ForgetNothing(m, gone) == m

\* The sender's map without the nonces of the transactions that go.
Forget(m, gone) ==
    [s \in Senders |->
        [k \in DOMAIN m[s] \ {tx.nonce : tx \in {t \in gone : t.from = s}} |-> m[s][k]]]

\* The queue items of the transaction stay.
RemoveTx(tx) ==
    /\ Reading = {}
    /\ tx \in Elems(pending)
    /\ LET i == CHOOSE i \in DOMAIN pending : pending[i] = tx IN
       /\ pending' = SubSeq(pending, 1, i - 1) \o SubSeq(pending, i + 1, Len(pending))
       /\ aged' = IF i <= aged THEN aged - 1 ELSE aged
    /\ all' = Forget(all, {tx})
    /\ UNCHANGED <<queue, reader, cleaning>>

\* MaxTxLifetime has passed for the oldest transaction that it had not yet.
TimePasses ==
    /\ aged < Len(pending)
    /\ aged' = aged + 1
    /\ UNCHANGED <<pending, all, queue, reader, cleaning>>

\* The cleanup loop's ticker fires and Lock is called: from here on no new
\* reader gets in.
CleanupTick ==
    /\ ~cleaning
    /\ cleaning' = TRUE
    /\ UNCHANGED <<pending, aged, all, queue, reader>>

\* MUTANT: the last one that expired is passed over.
ExpiredButLast == SubSeq(pending, 1, aged - 1)

\* The transactions that have expired.
Expired == SubSeq(pending, 1, aged)

CleanupExpired ==
    /\ cleaning
    /\ Reading = {}
    /\ pending' = SubSeq(pending, Len(Expired) + 1, Len(pending))
    /\ all' = Forget(all, Elems(Expired))
    /\ aged' = aged - Len(Expired)
    /\ cleaning' = FALSE
    /\ UNCHANGED <<queue, reader>>

----------------------------------------------------------------------------
\* GetPending takes the read lock ...
GetPending(r, limit) ==
    /\ ~cleaning
    /\ reader[r] = Idle
    /\ reader' = [reader EXCEPT ![r] = [limit |-> limit, level |-> 1, txs |-> <<>>]]
    /\ UNCHANGED <<pending, aged, all, queue, cleaning>>

\* MUTANT: an item is returned whether its transaction is pending or not.
CollectAny(txs, item) == Append(txs, item)

\* An item whose transaction has gone is dropped.
Collect(txs, item) == IF item.tx \in Elems(pending) THEN Append(txs, item) ELSE txs

Wants(r) == reader[r] # Idle /\ Len(reader[r].txs) < reader[r].limit

\* ... pops the next item of the queue it is at ...
Pop(r) ==
    LET l == reader[r].level IN
    /\ Wants(r)
    /\ l \in Levels
    /\ queue[l] # <<>>
    /\ reader' = [reader EXCEPT ![r].txs = Collect(@, Head(queue[l]))]
    /\ queue' = [queue EXCEPT ![l] = Tail(@)]
    /\ UNCHANGED <<pending, aged, all, cleaning>>

\* ... while another reader does the same: any item may be popped, and swaps
\* and slice updates that overwrite each other may keep it or lose others.
RacingPop(r) ==
    LET l == reader[r].level IN
    /\ Wants(r)
    /\ l \in Levels
    /\ queue[l] # <<>>
    /\ \E o \in Reading \ {r} : reader[o].level = l
    /\ \E i \in DOMAIN queue[l], left \in {queue[l], Tail(queue[l]), <<>>} :
         /\ reader' = [reader EXCEPT ![r].txs = Collect(@, queue[l][i])]
         /\ queue' = [queue EXCEPT ![l] = left]
    /\ UNCHANGED <<pending, aged, all, cleaning>>

\* An index out of range in the race: the deferred RUnlock runs, the HTTP
\* server recovers and the call returns nothing.
PopPanics(r) ==
    /\ Wants(r)
    /\ \E o \in Reading \ {r} : reader[o].level = reader[r].level
    /\ reader' = [reader EXCEPT ![r] = Idle]
    /\ UNCHANGED <<pending, aged, all, queue, cleaning>>

\* ... goes on to the next queue when one is empty ...
NextQueue(r) ==
    /\ Wants(r)
    /\ reader[r].level \in Levels
    /\ queue[reader[r].level] = <<>>
    /\ reader' = [reader EXCEPT ![r].level = @ + 1]
    /\ UNCHANGED <<pending, aged, all, queue, cleaning>>

Finished(r) ==
    reader[r] # Idle /\ (reader[r].level \notin Levels \/ ~Wants(r))

\* ... and returns.
Return(r) ==
    /\ Finished(r)
    /\ reader' = [reader EXCEPT ![r] = Idle]
    /\ UNCHANGED <<pending, aged, all, queue, cleaning>>

Step(r) == Pop(r) \/ NextQueue(r) \/ Return(r)

Next ==
    \/ \E tx \in Txs, priority \in Priorities : AddTx(tx, priority)
    \/ \E tx \in Txs : RemoveTx(tx)
    \/ TimePasses
    \/ CleanupTick
    \/ CleanupExpired
    \/ \E r \in Readers :
         \/ \E limit \in Limits : GetPending(r, limit)
         \/ Pop(r)
         \/ RacingPop(r)
         \/ PopPanics(r)
         \/ NextQueue(r)
         \/ Return(r)

Spec == Init /\ [][Next]_vars

\* Time passes, the cleanup loop's ticker fires, and goroutines run.
FairSpec ==
    /\ Spec
    /\ WF_vars(TimePasses)
    /\ WF_vars(CleanupTick)
    /\ WF_vars(CleanupExpired)
    /\ \A r \in Readers : WF_vars(Step(r))

----------------------------------------------------------------------------
\* The variables have their types, and nothing is pending twice.
TypeOK ==
    /\ pending \in Seq(Txs)
    /\ \A i, j \in DOMAIN pending : pending[i] = pending[j] => i = j
    /\ aged \in 0..Len(pending)
    /\ \A s \in Senders :
         /\ DOMAIN all[s] \subseteq Nonces
         /\ \A k \in DOMAIN all[s] : all[s][k] \in Txs
    /\ \A l \in Levels : queue[l] \in Seq(Items)
    /\ \A r \in Readers :
         /\ reader[r].limit \in Limits \cup {0}
         /\ reader[r].level \in 1..4
         /\ reader[r].txs \in Seq(Items)
    /\ cleaning \in BOOLEAN

\* Whatever is added over a nonce in use, removed and expired: what the
\* sender's map holds is pending, under its sender and nonce, and no map has
\* more entries than MaxTxPerAccount.  That is less than the limit promises,
\* see AccountLimitKept.
AccountsSound ==
    \A s \in Senders :
        /\ Cardinality(DOMAIN all[s]) <= MaxTxPerAccount
        /\ \A k \in DOMAIN all[s] :
             /\ all[s][k] \in Elems(pending)
             /\ all[s][k].from = s
             /\ all[s][k].nonce = k

\* "Maximum transactions per account" (pool.go:22): no sender has more pending.
\* The code breaks it: validateTx counts the entries of the sender's map, and a
\* transaction that reuses a nonce takes over the entry of the one before.
AccountLimitKept ==
    \A s \in Senders : Cardinality({tx \in Elems(pending) : tx.from = s}) <= MaxTxPerAccount

\* A GetPending call, racing or not, hands out only transactions that are
\* pending until it returns, though the queues keep items of removed ones.
OnlyPendingReturned ==
    \A r \in Readers : \A i \in DOMAIN reader[r].txs :
        reader[r].txs[i].tx \in Elems(pending)

\* No transaction stays pending for ever: it is removed or it expires.
PendingExpires ==
    \A tx \in Txs : tx \in Elems(pending) ~> tx \notin Elems(pending)

\* "GetPending returns pending transactions" (pool.go:206): a call that comes
\* back with fewer than it asked for has seen all of them.
PendingReturned ==
    \A r \in Readers :
        Finished(r) /\ Len(reader[r].txs) < reader[r].limit =>
            Elems(pending) = {reader[r].txs[i].tx : i \in DOMAIN reader[r].txs}
=============================================================================
