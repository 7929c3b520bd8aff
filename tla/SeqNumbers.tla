----------------------------- MODULE SeqNumbers -----------------------------
(***************************************************************************)
(* Sequence numbers of one session: even for rows of messages_in, odd for  *)
(* rows of messages_out, so that a number shown to the agent names one     *)
(* row.  Every number is MAX(seq) and a step; the host takes it in the     *)
(* statement that inserts, the container reads first and inserts later,    *)
(* from several processes: the loop, and the tools of each open query.     *)
(* The number is also how a turn finds its rows: its usage is written to   *)
(* the chat rows above the mark taken when the query started.              *)
(*                                                                         *)
(* A failed insert throws.  In a tool the agent is told; in the loop it    *)
(* ends the query with an error row, though the provider, which nothing    *)
(* aborts, keeps running its turn; in the error row it ends the container. *)
(* The container's view of messages_in may lag.                            *)
(***************************************************************************)
EXTENDS Naturals, FiniteSets

CONSTANTS
    MaxIn,       \* bound: rows of messages_in
    MaxOut,      \* bound: rows of messages_out
    MaxQueries,  \* bound: queries of a behaviour
    MaxTurns,    \* bound: turns of a query
    MaxFaults,   \* bound: denials, failed writes and crashes
    None

ASSUME Bounds == {MaxIn, MaxOut, MaxQueries, MaxFaults} \subseteq Nat /\ MaxTurns \in Nat \ {0}

Queries == 1..MaxQueries
Turns == Queries \X (1..MaxTurns)
Loop == 0                       \* the writer that is no query's tools
Writers == {Loop} \cup Queries

ASSUME NoneIsNew == None \notin Turns \cup Writers

VARIABLES
    inbound,   \* numbers of messages_in
    outbound,  \* rows of messages_out: number, writer (None: the host), kind, turn and usage
    plan,      \* of a writer: the number it read and is about to insert, or 0
    loop,      \* "idle", "reading" the events of the query, "replying", "failed", "dead"
    provider,  \* of a query: "off", "turn", "rest"
    query,     \* the last query, 0 before the first
    turn,      \* of a query: its last turn
    mark,      \* maxSeqBeforeTurn
    shown,     \* rows whose number the agent was told: <<"in" or "out", number>>
    faults,
    orphans,   \* history: queries that failed while the provider ran a turn
    cut        \* history: queries of this container a row of which could not be written

vars == <<inbound, outbound, plan, loop, provider, query, turn, mark, shown, faults, orphans, cut>>

Fault == faults < MaxFaults /\ faults' = faults + 1

MaxOf(S) == IF S = {} THEN 0 ELSE CHOOSE n \in S : \A m \in S : m <= n
Numbers == {r.seq : r \in outbound}
Kinds == {"trace", "reply", "send", "error"}

------------------------------------------------------------------------------
(* Host.                                                                   *)

\* nextEvenSeq.
NextEven == IF MaxOf(inbound) < 2 THEN 2 ELSE MaxOf(inbound) + 2 - (MaxOf(inbound) % 2)

HostInserts ==
    /\ Cardinality(inbound) < MaxIn
    /\ inbound' = inbound \cup {NextEven}
    /\ UNCHANGED <<outbound, plan, loop, provider, query, turn, mark, shown, faults, orphans, cut>>

\* writeOutboundDirect, when the gate denies a command: a chat row of no turn.
HostDenies ==
    /\ Cardinality(outbound) < MaxOut /\ Fault
    /\ outbound' = outbound \cup {[seq |-> MaxOf(Numbers) + 2, by |-> None, kind |-> "send",
                                   turn |-> None, usage |-> None]}
    /\ UNCHANGED <<inbound, plan, loop, provider, query, turn, mark, shown, orphans, cut>>

------------------------------------------------------------------------------
(* writeMessageOut.                                                        *)

\* Mutant: the next number above both, whatever its parity.
NextOdd_Any(m) == m + 1

NextOdd(m) == IF m % 2 = 0 THEN m + 1 ELSE m + 2

\* The larger of the two maxima; that of messages_in may be an old one.
Reads(w) ==
    \E old \in SUBSET inbound : plan' = [plan EXCEPT ![w] = NextOdd(MaxOf(Numbers \cup old))]

\* The row goes in, under its number.
Writes(w, kind, q, usage) ==
    /\ plan[w] # 0 /\ plan[w] \notin Numbers /\ Cardinality(outbound) < MaxOut
    /\ outbound' = outbound \cup {[seq |-> plan[w], by |-> w, kind |-> kind, turn |-> <<q, turn[q]>>, usage |-> usage]}
    /\ plan' = [plan EXCEPT ![w] = 0]

\* The number was taken in the meantime, or the write was refused twenty times.
Throws(w) ==
    /\ plan[w] # 0
    /\ \/ plan[w] \in Numbers /\ UNCHANGED faults
       \/ Fault
    /\ plan' = [plan EXCEPT ![w] = 0]

\* A transient refusal: everything is read again.
Rereads(w) ==
    /\ plan[w] # 0 /\ Fault /\ Reads(w)
    /\ UNCHANGED <<inbound, outbound, loop, provider, query, turn, mark, shown, orphans, cut>>

------------------------------------------------------------------------------
(* The tools of a query, in a process of their own.                        *)

ToolPlans(q) ==
    /\ provider[q] = "turn" /\ plan[q] = 0 /\ Reads(q)
    /\ UNCHANGED <<inbound, outbound, loop, provider, query, turn, mark, shown, faults, orphans, cut>>

\* The agent is given the number.
ToolWrites(q) ==
    /\ provider[q] = "turn" /\ Writes(q, "send", q, None)
    /\ shown' = shown \cup {<<"out", plan[q]>>}
    /\ UNCHANGED <<inbound, loop, provider, query, turn, mark, faults, orphans, cut>>

ToolThrows(q) ==
    /\ provider[q] = "turn" /\ Throws(q)
    /\ UNCHANGED <<inbound, outbound, loop, provider, query, turn, mark, shown, orphans, cut>>

------------------------------------------------------------------------------
(* The loop.                                                               *)

\* Mutant: the mark of an earlier query is kept.
MarkAtStart_Kept == mark

\* Mutant: the number the next row will have, though rows are compared with >.
MarkAtStart_Next == NextOdd(MaxOf(Numbers))

MarkAtStart == MaxOf(Numbers)

QueryStarts ==
    /\ loop = "idle" /\ plan[Loop] = 0 /\ query < MaxQueries /\ inbound # {}
    /\ query' = query + 1
    /\ loop' = "reading" /\ provider' = [provider EXCEPT ![query'] = "turn"]
    /\ turn' = [turn EXCEPT ![query'] = 1]
    /\ mark' = MarkAtStart
    /\ shown' = shown \cup {<<"in", n>> : n \in inbound}
    /\ UNCHANGED <<inbound, outbound, plan, faults, orphans, cut>>

\* Follow-ups pushed into the open query: into its turn, or as the next turn.
FollowUps ==
    /\ loop = "reading" /\ provider[query] # "off"
    /\ shown' = shown \cup {<<"in", n>> : n \in inbound}
    /\ \/ provider[query] = "turn" /\ UNCHANGED <<provider, turn>>
       \/ /\ provider[query] = "rest" /\ turn[query] < MaxTurns /\ plan[Loop] = 0
          /\ provider' = [provider EXCEPT ![query] = "turn"]
          /\ turn' = [turn EXCEPT ![query] = @ + 1]
    /\ UNCHANGED <<inbound, outbound, plan, loop, query, mark, faults, orphans, cut>>

\* A row the loop owes: a trace event of a running turn, the reply, or the error.
LoopPlans ==
    /\ loop \in {"reading", "replying", "failed"} /\ plan[Loop] = 0 /\ Reads(Loop)
    /\ loop = "reading" => provider[query] = "turn"
    /\ UNCHANGED <<inbound, outbound, loop, provider, query, turn, mark, shown, faults, orphans, cut>>

LoopTraces ==
    /\ loop = "reading" /\ Writes(Loop, "trace", query, None)
    /\ UNCHANGED <<inbound, loop, provider, query, turn, mark, shown, faults, orphans, cut>>

\* backfillUsage.
Backfilled(rows) ==
    {IF r.seq > mark /\ r.kind # "trace" /\ r.usage = None
     THEN [r EXCEPT !.usage = <<query, turn[query]>>] ELSE r : r \in rows}

\* The turn is over; its reply, if there is one, is written next.
Result ==
    /\ loop = "reading" /\ provider[query] = "turn" /\ plan[query] = 0 /\ plan[Loop] = 0
    /\ provider' = [provider EXCEPT ![query] = "rest"]
    /\ \/ loop' = "replying" /\ UNCHANGED outbound
       \/ loop' = "reading" /\ outbound' = Backfilled(outbound)
    /\ UNCHANGED <<inbound, plan, query, turn, mark, shown, faults, orphans, cut>>

\* One of the messages of the reply; after the last, the usage goes to the rows of the turn.
LoopReplies ==
    /\ loop = "replying" /\ Writes(Loop, "reply", query, <<query, turn[query]>>)
    /\ UNCHANGED <<inbound, loop, provider, query, turn, mark, shown, faults, orphans, cut>>

Replied ==
    /\ loop = "replying" /\ plan[Loop] = 0
    /\ loop' = "reading" /\ outbound' = Backfilled(outbound)
    /\ UNCHANGED <<inbound, plan, provider, query, turn, mark, shown, faults, orphans, cut>>

\* Mutant: the failure is only logged.
Failed_Logged == "idle"

Failed == "failed"

\* processQuery throws; the provider is not aborted.
LoopThrows ==
    /\ loop \in {"reading", "replying"} /\ Throws(Loop)
    /\ loop' = Failed
    /\ orphans' = IF provider[query] = "turn" THEN orphans \cup {query} ELSE orphans
    /\ cut' = cut \cup {query}
    /\ UNCHANGED <<inbound, outbound, provider, query, turn, mark, shown>>

ErrorWritten ==
    /\ loop = "failed" /\ Writes(Loop, "error", query, None)
    /\ loop' = "idle"
    /\ UNCHANGED <<inbound, provider, query, turn, mark, shown, faults, orphans, cut>>

\* The provider reports an error, which is only logged, or ends, or the stream is ended for a command.
QueryEnds ==
    /\ loop = "reading" /\ plan[Loop] = 0 /\ plan[query] = 0
    /\ loop' = "idle" /\ provider' = [provider EXCEPT ![query] = "off"]
    /\ UNCHANGED <<inbound, outbound, plan, query, turn, mark, shown, faults, orphans, cut>>

\* The turn of an abandoned query ends; its result goes nowhere.
OrphanEnds(q) ==
    /\ q \in orphans /\ provider[q] = "turn" /\ plan[q] = 0
    /\ provider' = [provider EXCEPT ![q] = "off"]
    /\ UNCHANGED <<inbound, outbound, plan, loop, query, turn, mark, shown, faults, orphans, cut>>

Ends ==
    /\ plan' = [w \in Writers |-> 0]
    /\ provider' = [q \in Queries |-> "off"] /\ cut' = {}
    /\ UNCHANGED <<inbound, outbound, query, turn, mark, shown, orphans>>

\* The container is killed, or the error row could not be written.
Dies ==
    /\ loop # "dead" /\ loop' = "dead" /\ Ends
    /\ \/ Fault
       \/ loop = "failed" /\ plan[Loop] \in Numbers /\ UNCHANGED faults

Respawns ==
    /\ loop = "dead" /\ loop' = "idle"
    /\ UNCHANGED <<inbound, outbound, plan, provider, query, turn, mark, shown, faults, orphans, cut>>

------------------------------------------------------------------------------
Init ==
    /\ inbound = {} /\ outbound = {} /\ plan = [w \in Writers |-> 0]
    /\ loop = "idle" /\ provider = [q \in Queries |-> "off"]
    /\ query = 0 /\ turn = [q \in Queries |-> 0] /\ mark = 0
    /\ shown = {} /\ faults = 0 /\ orphans = {} /\ cut = {}

Tools(q) == ToolPlans(q) \/ ToolWrites(q) \/ ToolThrows(q) \/ OrphanEnds(q)
Runner == QueryStarts \/ FollowUps \/ LoopPlans \/ LoopTraces \/ Result \/ LoopReplies \/ Replied
    \/ LoopThrows \/ ErrorWritten \/ QueryEnds

Next ==
    \/ HostInserts \/ HostDenies
    \/ \E w \in Writers : Rereads(w)
    \/ \E q \in Queries : Tools(q)
    \/ Runner \/ Dies \/ Respawns

Spec == Init /\ [][Next]_vars

------------------------------------------------------------------------------
(* Properties.                                                             *)

\* getMessageIdBySeq and getRoutingBySeq: messages_in first.
Lookup(n) == IF n \in inbound THEN <<"in", n>> ELSE IF n \in Numbers THEN <<"out", n>> ELSE None

\* Every variable keeps its type.
TypeOK ==
    /\ inbound \subseteq Nat
    /\ outbound \subseteq [seq : Nat, by : Writers \cup {None}, kind : Kinds,
                           turn : Turns \cup {None}, usage : Turns \cup {None}]
    /\ plan \in [Writers -> Nat]
    /\ loop \in {"idle", "reading", "replying", "failed", "dead"}
    /\ provider \in [Queries -> {"off", "turn", "rest"}]
    /\ query \in 0..MaxQueries /\ turn \in [Queries -> 0..MaxTurns] /\ mark \in Nat
    /\ shown \subseteq {"in", "out"} \X Nat /\ faults \in 0..MaxFaults
    /\ orphans \subseteq Queries /\ cut \subseteq Queries

\* A number the agent was shown keeps naming the row it was shown for, whoever writes rows
\* meanwhile, and although the host may take an even number in messages_out.
LookupIsRight == \A s \in shown : Lookup(s[2]) = s

\* A row's usage is that of the turn it was written in, unless its query had been abandoned.
UsageIsOfItsTurn ==
    \A r \in outbound : r.turn # None /\ r.usage # None => r.usage = r.turn \/ r.turn[1] \in orphans

\* When a turn has been answered, every chat row it wrote has its usage.
TurnIsPriced ==
    loop = "reading" /\ provider[query] = "rest" =>
        \A r \in outbound : r.turn = <<query, turn[query]>> /\ r.kind # "trace" => r.usage # None

\* A reply that could not be written, or was not written because of a trace event, leaves an error
\* row for the user, unless the container ends.
CutIsReported ==
    \A q \in cut : \/ loop = "failed" /\ q = query
                   \/ \E r \in outbound : r.kind = "error" /\ r.turn[1] = q
=============================================================================
