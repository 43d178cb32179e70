------------------------------ MODULE MCReadPath ------------------------------
(* Cursors and catalogs for the runs of ReadPath.                             *)
EXTENDS ReadPath

Cursor(op, boot, first, last, next) ==
    [op |-> op, boot |-> boot, first |-> first, last |-> last,
     next |-> next, from |-> next, finished |-> FALSE]

EntryRequests == {Cursor("entry", 0, 0, id, id) : id \in {FirstIdOf(1) + 2}}
RangeRequests == {Cursor("range", 0, 0, r[2], r[1]) :
                    r \in {<<0, LastIdOf(BootMask)>>, <<FirstIdOf(1) + 2, FirstIdOf(2) + 1>>,
                          <<FirstIdOf(2), LastIdOf(1)>>}}
UptimeRequests == {Cursor("uptime", r[1], r[2], r[3], 0) :
                    r \in {<<1, 0, MaxTime>>, <<1, 2, 3>>, <<2, 2, 4>>}}
UtcRequests == {Cursor("utc", 0, r[1], r[2], 0) : r \in {<<0, MaxTime>>, <<2, 3>>}}

MCRequests == EntryRequests \cup RangeRequests \cup UptimeRequests \cup UtcRequests

Epoch(boot, first, last, mono, utc) ==
    [boot |-> boot, first |-> first, last |-> last, mono |-> mono, utc |-> utc]

\* One anchor, close to the end of time; two anchors of one boot, the clock set
\* back in between; anchors of two boots.
MCCatalogs ==
    {<<Epoch(1, 0, MaxTime, 2, MaxTime)>>,
     <<Epoch(1, 0, 1, 1, 3), Epoch(1, 2, MaxTime, 2, 1)>>,
     <<Epoch(1, 0, MaxTime, 1, 4), Epoch(2, 0, MaxTime, 1, 3)>>}
=============================================================================
