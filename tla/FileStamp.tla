------------------------------ MODULE FileStamp ------------------------------
(***************************************************************************)
(* The dates and times in SdFat's directory entries: packed when a file is *)
(* created and when it is synchronised, by the program's callback if it    *)
(* has given one, and by timestamp().  Two files, whose entries are seen   *)
(* through the cache.  The calendar of the callback is that of the Time    *)
(* library (external).                                                     *)
(***************************************************************************)
EXTENDS Integers

CONSTANTS
    StampFiles,
    Times,          \* what the calendar says, and what timestamp() is given
    MaxStamps

VARIABLES
    dateTime,       \* whether there is a callback: m_dateTime
    entries,        \* the fields of each file's entry
    dirty,          \* files whose entry has to be written: F_FILE_DIR_DIRTY
    meant,          \* what each entry's stamps stand for
    calls

stampVars == <<dateTime, entries, dirty, meant, calls>>

Default == [year |-> 2000, month |-> 1, day |-> 1, hour |-> 1, minute |-> 0, second |-> 0]
NoEntry == [creationDate |-> 0, creationTime |-> 0, creationTimeTenths |-> 0,
            lastAccessDate |-> 0, lastWriteDate |-> 0, lastWriteTime |-> 0]
Unknown == [created |-> Default, accessed |-> Default, written |-> Default, exact |-> FALSE]

-----------------------------------------------------------------------------
\* The fields are of 16 bits: a year before 1980 wraps.
FAT_DATE(t) == ((t.year - 1980) * 512 + t.month * 32 + t.day) % 65536
FAT_TIME(t) == (t.hour * 2048 + t.minute * 32 + (t.second \div 2)) % 65536

FAT_YEAR(d) == 1980 + (d \div 512)
FAT_MONTH(d) == (d \div 32) % 16
FAT_DAY(d) == d % 32
FAT_HOUR(t) == t \div 2048
FAT_MINUTE(t) == (t \div 32) % 64
FAT_SECOND(t) == 2 * (t % 32)

Live == {f \in StampFiles : entries[f] # NoEntry}
Called == calls < MaxStamps /\ calls' = calls + 1

\* open() of a new file: the callback's time, or the one of the build.
Open(f, now) ==
    /\ Called /\ f \notin Live
    /\ LET t == IF dateTime THEN now ELSE Default IN
         /\ entries' = [entries EXCEPT ![f] =
              [NoEntry EXCEPT !.creationDate = FAT_DATE(t), !.creationTime = FAT_TIME(t),
                              !.lastAccessDate = FAT_DATE(t), !.lastWriteDate = FAT_DATE(t),
                              !.lastWriteTime = FAT_TIME(t)]]
         /\ meant' = [meant EXCEPT ![f] =
              [created |-> t, accessed |-> t, written |-> t, exact |-> FALSE]]
    /\ UNCHANGED <<dateTime, dirty>>

\* A file that is written to has its entry to be written at the next sync().
Write(f) ==
    /\ Called /\ f \in Live
    /\ dirty' = dirty \cup {f}
    /\ UNCHANGED <<dateTime, entries, meant>>

\* sync(): the time of the last write is that of the sync().
SyncedEntry(f, now) ==
    IF f \in dirty /\ dateTime
    THEN [entries[f] EXCEPT !.lastWriteDate = FAT_DATE(now), !.lastWriteTime = FAT_TIME(now),
                            !.lastAccessDate = FAT_DATE(now)]
    ELSE entries[f]
SyncedMeant(f, now) ==
    IF f \in dirty /\ dateTime THEN [meant[f] EXCEPT !.written = now, !.accessed = now]
    ELSE meant[f]

Sync(f, now) ==
    /\ Called /\ f \in Live
    /\ entries' = [entries EXCEPT ![f] = SyncedEntry(f, now)]
    /\ meant' = [meant EXCEPT ![f] = SyncedMeant(f, now)]
    /\ dirty' = dirty \ {f}
    /\ UNCHANGED dateTime

\* timestamp() with a time: what the flags name.
Valid(t) == t.year \in 1980 .. 2107
Timestamp(f, flags, t, now) ==
    /\ Called /\ f \in Live
    /\ IF ~Valid(t) THEN UNCHANGED <<entries, meant, dirty>>
       ELSE LET old == SyncedEntry(f, now)
                was == SyncedMeant(f, now)
                access == IF "access" \in flags THEN FAT_DATE(t) ELSE old.lastAccessDate
            IN
         /\ entries' = [entries EXCEPT ![f] =
              [lastAccessDate |-> access,
               creationDate |-> IF "create" \in flags THEN FAT_DATE(t) ELSE old.creationDate,
               creationTime |-> IF "create" \in flags THEN FAT_TIME(t) ELSE old.creationTime,
               creationTimeTenths |-> IF "create" \notin flags THEN old.creationTimeTenths
                                      ELSE IF t.second % 2 = 1 THEN 100 ELSE 0,
               lastWriteDate |-> IF "write" \in flags THEN FAT_DATE(t) ELSE old.lastWriteDate,
               lastWriteTime |-> IF "write" \in flags THEN FAT_TIME(t) ELSE old.lastWriteTime]]
         /\ meant' = [meant EXCEPT ![f] =
              [accessed |-> IF "access" \in flags THEN t ELSE was.accessed,
               created |-> IF "create" \in flags THEN t ELSE was.created,
               exact |-> IF "create" \in flags THEN TRUE ELSE was.exact,
               written |-> IF "write" \in flags THEN t ELSE was.written]]
         /\ dirty' = dirty \ {f}
    /\ UNCHANGED dateTime

\* timestamp() with another file: both are synchronised, and its stamps are copied.
CopyStamps(f, g, now) ==
    /\ Called /\ f \in Live /\ g \in Live /\ f # g
    /\ entries' = [entries EXCEPT ![f] = SyncedEntry(g, now), ![g] = SyncedEntry(g, now)]
    /\ meant' = [meant EXCEPT ![f] = SyncedMeant(g, now), ![g] = SyncedMeant(g, now)]
    /\ dirty' = dirty \ {f, g}
    /\ UNCHANGED dateTime

InitStamps ==
    /\ dateTime \in BOOLEAN
    /\ entries = [f \in StampFiles |-> NoEntry] /\ meant = [f \in StampFiles |-> Unknown]
    /\ dirty = {} /\ calls = 0

NextStamps ==
    \E f \in StampFiles, now \in Times :
        \/ Open(f, now) \/ Write(f) \/ Sync(f, now)
        \/ \E flags \in SUBSET {"access", "create", "write"}, t \in Times :
             Timestamp(f, flags, t, now)
        \/ \E g \in StampFiles : CopyStamps(f, g, now)

-----------------------------------------------------------------------------
IsDate(d, t) ==
    Valid(t) => FAT_YEAR(d) = t.year /\ FAT_MONTH(d) = t.month /\ FAT_DAY(d) = t.day
IsTime(d, t) ==
    FAT_HOUR(d) = t.hour /\ FAT_MINUTE(d) = t.minute /\ FAT_SECOND(d) = t.second - (t.second % 2)

\* Every date and time of a file is read as it was meant, to two seconds, whatever sync()s
\* and stamps followed each other; to one second where timestamp() set the creation.  Only
\* the year of a clock that is not set, before 1980, becomes another.
StampsAreMeant ==
    \A f \in Live :
        LET e == entries[f]
            m == meant[f] IN
        /\ IsDate(e.creationDate, m.created) /\ IsTime(e.creationTime, m.created)
        /\ m.exact => FAT_SECOND(e.creationTime) + (e.creationTimeTenths \div 100)
                        = m.created.second
        /\ IsDate(e.lastAccessDate, m.accessed)
        /\ IsDate(e.lastWriteDate, m.written) /\ IsTime(e.lastWriteTime, m.written)
=============================================================================
