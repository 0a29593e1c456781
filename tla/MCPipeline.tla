------------------------------ MODULE MCPipeline ------------------------------
(***************************************************************************)
(* Units for each client.  A caller's: every one of up to MaxCalled        *)
(* chunks, which parse and fail in any combination.  read()'s: up to       *)
(* MaxRead chunks, with or without text in each column.  write()'s: up to  *)
(* MaxOdd batches, and for write(scan()) MaxItems chunks, of which at most *)
(* one cannot be parsed; a batch of the caller's own reader may be odd.    *)
(***************************************************************************)
EXTENDS Pipeline

CONSTANTS MaxCalled, MaxRead, MaxOdd, MaxItems

NoText == [column \in Columns |-> 0]

Job(client, stream, items, text, odd, large) ==
    [client |-> client, stream |-> stream, items |-> items, text |-> text,
     odd |-> odd, large |-> large]

Plain(client, stream, items) ==
    Job(client, stream, items, [i \in DOMAIN items |-> NoText], {}, FALSE)

Called == BoundedSeq({"batch", "bad"}, MaxCalled)

CallerJobs ==
    {Plain("caller", s, items) : s \in BOOLEAN, items \in Called}
    \cup {Plain("caller", TRUE, Append(items, "readError")) :
             items \in {g \in Called : Len(g) < MaxCalled}}

(* Two of the first or of the second column fit, and one of each.           *)
Texts == [Columns -> {0, Cap - 1}]

ReadChunks == {<<"batch", text>> : text \in Texts} \cup {<<"bad", NoText>>}

ReadJobs == {Job("read", s, [i \in DOMAIN u |-> u[i][1]], [i \in DOMAIN u |-> u[i][2]],
                 {}, FALSE) :
                 s \in BOOLEAN, u \in BoundedSeq(ReadChunks, MaxRead)}

Unit(n, bad, kind) == [i \in 1 .. n |-> IF i = bad THEN kind ELSE "batch"]

OwnJobs == {Job("write", FALSE, Unit(n, bad, "bad"), [i \in 1 .. n |-> NoText],
                odd \cap 1 .. n, large) :
                n \in 0 .. MaxOdd, bad \in 0 .. MaxOdd,
                odd \in {{}} \cup {{i} : i \in 1 .. MaxOdd}, large \in BOOLEAN}

ScanJobs ==
    {Plain("writeScan", s, Unit(n, bad, "bad")) :
         s \in BOOLEAN, n \in 0 .. MaxItems, bad \in 0 .. MaxItems}
    \cup {Plain("writeScan", TRUE, Unit(n, n, "readError")) : n \in 1 .. MaxItems}

AllJobs == UNION {CallerJobs, ReadJobs, OwnJobs, ScanJobs}

\* A definition of its own, so that TLC evaluates the union once.
MCJobs == AllJobs
==============================================================================
