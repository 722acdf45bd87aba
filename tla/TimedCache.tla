----------------------------- MODULE TimedCache -----------------------------
(***************************************************************************)
(* utils/cache.py: timed_cache around a coroutine that takes one argument  *)
(* all its callers agree on (the key set of the Access team, the rate of   *)
(* the yen).  A process keeps one entry; a call that misses it awaits the  *)
(* wrapped coroutine, and any number of calls may be awaiting it at once.  *)
(***************************************************************************)
EXTENDS Integers

CONSTANTS
    Callers,
    Values,         \* what the wrapped coroutine may return
    Seconds         \* how long an entry is used

ASSUME SecondsAssumption == Seconds \in Nat \ {0}

VARIABLES
    now,
    entry,          \* cache[key] with, as history, when its value was read
    call            \* per caller: the wrapper it is executing

cacheVars == <<now, entry, call>>

Empty == [full |-> FALSE]
Idle == [pc |-> "idle"]

Entries ==
    {Empty}
    \union [full : {TRUE}, value : Values, stamp : Nat, read : Nat]
Calls ==
    {Idle}
    \union [pc : {"waiting", "failed"}, start : Nat]
    \union [pc : {"received", "answered"}, start : Nat, value : Values, read : Nat]

CacheInit ==
    /\ now = 0
    /\ entry = Empty
    /\ call = [c \in Callers |-> Idle]

Tick == now' = now + 1 /\ UNCHANGED <<entry, call>>

\* cache[key] is there and young enough.
UsedForever(e, time) == e.full
Usable(e, time) == e.full /\ time - e.stamp < Seconds

\* What the wrapper stores: the result and the time read at its first line.
\* StampedLate stores the time of the answer instead.
StampedLate(c) ==
    [full |-> TRUE, value |-> call[c].value, stamp |-> now, read |-> call[c].read]
Stamped(c) ==
    [full |-> TRUE, value |-> call[c].value, stamp |-> call[c].start,
     read |-> call[c].read]

\* The first lines of async_wrapper, up to its await.
Lookup(c) ==
    /\ call[c] = Idle
    /\ call' = [call EXCEPT ![c] =
                   IF Usable(entry, now)
                   THEN [pc |-> "answered", start |-> now,
                         value |-> entry.value, read |-> entry.read]
                   ELSE [pc |-> "waiting", start |-> now]]
    /\ UNCHANGED <<now, entry>>

\* The service reads the value it answers with; the answer is on its way.
ServiceReads(c, value) ==
    /\ call[c].pc = "waiting"
    /\ call' = [call EXCEPT ![c] = [pc |-> "received", start |-> call[c].start,
                                    value |-> value, read |-> now]]
    /\ UNCHANGED <<now, entry>>

\* An exception of the wrapped coroutine leaves the wrapper; nothing is kept.
CallFails(c) ==
    /\ call[c].pc = "waiting"
    /\ call' = [call EXCEPT ![c] = [pc |-> "failed", start |-> call[c].start]]
    /\ UNCHANGED <<now, entry>>

\* The await returns: the entry is replaced whatever happened meanwhile.
Store(c) ==
    /\ call[c].pc = "received"
    /\ entry' = Stamped(c)
    /\ call' = [call EXCEPT ![c].pc = "answered"]
    /\ UNCHANGED now

Return(c) ==
    /\ call[c].pc \in {"answered", "failed"}
    /\ call' = [call EXCEPT ![c] = Idle]
    /\ UNCHANGED <<now, entry>>

CacheNext ==
    \/ Tick
    \/ \E c \in Callers :
        \/ Lookup(c) \/ CallFails(c) \/ Store(c) \/ Return(c)
        \/ \E value \in Values : ServiceReads(c, value)

CacheSpec == CacheInit /\ [][CacheNext]_cacheVars

-----------------------------------------------------------------------------
(* Properties *)

CacheTypeOK ==
    /\ now \in Nat
    /\ entry \in Entries
    /\ call \in [Callers -> Calls]

\* Whatever calls overlap and whichever of them stores last, an answer was read
\* at the service less than Seconds before its call began, or after (the stamp
\* of an entry is taken before the await, cache.py:49, so that a slow answer
\* counts as old as it may be).
AnswersFresh ==
    \A c \in Callers :
        call[c].pc = "answered" => call[c].read > call[c].start - Seconds

EntryOlderThanItsValue ==
    entry.full => entry.stamp <= entry.read /\ entry.read <= now

=============================================================================
