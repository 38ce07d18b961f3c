------------------------------ MODULE CliLoop -------------------------------
(***************************************************************************)
(* The daemon of src/apps/pfstack.c: the event loop (pf_loop_once of       *)
(* src/src/netdev/loop_linux.c) with its devices, and the operators'       *)
(* command line (src/src/cli/cli.c) whose connections the loop serves.     *)
(*                                                                         *)
(* One iteration polls every descriptor once, and then acts on what poll   *)
(* said while devices, operators and signals go on.  A command line comes  *)
(* in pieces: Script[c] is what operator c types, a sequence of characters *)
(* of which "nl" ends a line and "exit" at its start ends the session.     *)
(* What the commands do to the routing table is in Fib.                    *)
(***************************************************************************)
EXTENDS Integers, Sequences, FiniteSets, FiniteSetsExt

CONSTANTS
    NDevs,              \* devices
    Operators,          \* who connects to the command line
    Script,             \* what each of them types
    Hasty,              \* those who may leave without exit
    RX_BATCH,           \* frames taken from one device in an iteration
    CLI_MAX_CLIENTS,    \* connections served at a time
    CLI_LINE_MAX,       \* line buffer, its terminator included
    READ_MAX,           \* characters taken by one read
    SOMAX,              \* connections waiting to be accepted
    OUT_MAX,            \* replies a connection holds that are not read yet
    RXQ_MAX,            \* bound: frames waiting in a device
    None

ASSUME CliConstants ==
    /\ {CLI_MAX_CLIENTS, CLI_LINE_MAX, READ_MAX} \subseteq Nat \ {0}
    /\ {NDevs, RX_BATCH, SOMAX, OUT_MAX, RXQ_MAX} \subseteq Nat
    /\ None \notin Operators
    /\ Script \in [Operators -> Seq(STRING)]

VARIABLES
    pc,         \* where the loop is
    at,         \* the device or slot it is at
    budget,     \* frames rx_drain may still take
    buf,        \* what cli_client_input has read and not looked at
    ready,      \* what poll reported
    rxq,        \* frames waiting in each device
    pending,    \* connections not accepted
    slots,      \* clients[] of struct cli_server
    conn,       \* each operator's connection
    typed,      \* characters each operator has typed
    taken,      \* characters the daemon has read from each
    out,        \* replies each operator has not read
    g_stop,     \* SIGINT or SIGTERM came
    ran         \* history: the lines run for each operator

loop == <<pc, at, budget, buf, ready>>
world == <<rxq, pending, slots, conn, typed, taken, out, g_stop, ran>>
vars == <<loop, world>>

Devs == 1..NDevs
Slots == 1..CLI_MAX_CLIENTS
FreeSlot == [fd |-> None, line |-> <<>>]

\* A typed character, known by who typed it and when.
Typed(c) == {<<c, k>> : k \in 1..Len(Script[c])}
Char(x) == Script[x[1]][x[2]]
AllTyped == UNION {Typed(c) : c \in Operators}

\* "left": the operator has closed the connection and the daemon has not.
ConnStates == {"out", "waiting", "served", "left", "closed"}
Over == pc \in {"done", "killed"}

TypeOK ==
    /\ pc \in {"poll", "rx", "accept", "slot", "run", "tick", "done", "killed"}
    /\ at \in 0..Max({NDevs, CLI_MAX_CLIENTS})
    /\ budget \in 0..RX_BATCH
    /\ buf \in Seq(AllTyped) /\ Len(buf) <= READ_MAX
    /\ ready \subseteq ({"dev"} \X Devs) \cup {<<"listen", 0>>} \cup ({"slot"} \X Slots)
    /\ rxq \in [Devs -> 0..RXQ_MAX]
    /\ pending \in Seq(Operators) /\ Len(pending) <= SOMAX
    /\ \A s \in Slots : /\ slots[s].fd \in Operators \cup {None}
                        /\ slots[s].line \in Seq(AllTyped)
                        /\ Len(slots[s].line) < CLI_LINE_MAX
    /\ conn \in [Operators -> ConnStates]
    /\ \A c \in Operators : 0 <= taken[c] /\ taken[c] <= typed[c] /\ typed[c] <= Len(Script[c])
    /\ out \in [Operators -> 0..OUT_MAX]
    /\ g_stop \in BOOLEAN

Init ==
    /\ pc = "poll" /\ at = 0 /\ budget = 0 /\ buf = <<>> /\ ready = {}
    /\ rxq = [d \in Devs |-> 0]
    /\ pending = <<>>
    /\ slots = [s \in Slots |-> FreeSlot]
    /\ conn = [c \in Operators |-> "out"]
    /\ typed = [c \in Operators |-> 0]
    /\ taken = [c \in Operators |-> 0]
    /\ out = [c \in Operators |-> 0]
    /\ g_stop = FALSE
    /\ ran = [c \in Operators |-> <<>>]

-----------------------------------------------------------------------------
(* One iteration of the loop.                                              *)

Served == {s \in Slots : slots[s].fd # None}

Readable(c) == typed[c] > taken[c] \/ conn[c] = "left"

\* Fault variant: only the first connection in use is polled.
Polled_first ==
    {<<"dev", d>> : d \in {e \in Devs : rxq[e] > 0}}
    \cup (IF pending # <<>> THEN {<<"listen", 0>>} ELSE {})
    \cup {<<"slot", s>> : s \in {t \in Served : t = Min(Served) /\ Readable(slots[t].fd)}}

Polled ==
    {<<"dev", d>> : d \in {e \in Devs : rxq[e] > 0}}
    \cup (IF pending # <<>> THEN {<<"listen", 0>>} ELSE {})
    \cup {<<"slot", s>> : s \in {t \in Served : Readable(slots[t].fd)}}

\* poll returns what is ready, or nothing when its 10 ms are over or a signal
\* came first; then only the timers run.
poll ==
    /\ pc = "poll"
    /\ ~g_stop
    /\ ready' = Polled
    /\ pc' = IF Polled = {} THEN "tick" ELSE "rx"
    /\ at' = 1 /\ budget' = RX_BATCH
    /\ UNCHANGED <<buf, world>>

\* Fault variant: the frames taken are not counted.
LeftAfter_uncounted(n) == n

LeftAfter(n) == n - 1

\* One turn of rx_drain, or the end of it.
rx_drain ==
    /\ pc = "rx"
    /\ IF <<"dev", at>> \in ready /\ budget > 0 /\ rxq[at] > 0
       THEN /\ rxq' = [rxq EXCEPT ![at] = @ - 1]
            /\ budget' = LeftAfter(budget)
            /\ UNCHANGED <<pc, at>>
            /\ UNCHANGED ready
       ELSE /\ budget' = RX_BATCH
            /\ ready' = ready \ {<<"dev", at>>}
            /\ IF at < NDevs THEN pc' = pc /\ at' = at + 1 ELSE pc' = "accept" /\ at' = 0
            /\ UNCHANGED rxq
    /\ UNCHANGED <<buf, pending, slots, conn, typed, taken, out, g_stop, ran>>

\* A reply written to c.  There is no handler for SIGPIPE: a write to an
\* operator who has closed the connection ends the daemon.
Write(c, next) ==
    IF conn[c] = "left"
    THEN pc' = "killed" /\ UNCHANGED out
    ELSE pc' = next /\ out[c] < OUT_MAX /\ out' = [out EXCEPT ![c] = @ + 1]

\* Fault variant: len is not reset.
NewClient_stale(s, c) == [fd |-> c, line |-> slots[s].line]

NewClient(s, c) == [fd |-> c, line |-> <<>>]

FirstFree(s) == s \notin Served /\ \A t \in Slots \ Served : s <= t

cli_accept ==
    /\ pc = "accept"
    /\ at' = 1
    /\ ready' = ready \ {<<"listen", 0>>}
    /\ IF <<"listen", 0>> \notin ready
       THEN /\ pc' = "slot"
            /\ UNCHANGED <<pending, slots, conn, out>>
       ELSE LET c == Head(pending)
            IN  /\ pending' = Tail(pending)
                /\ IF Served = Slots
                   THEN /\ conn' = [conn EXCEPT ![c] = "closed"]
                        /\ pc' = "slot"
                        /\ UNCHANGED <<slots, out>>
                   ELSE /\ \E s \in Slots :
                              /\ FirstFree(s)
                              /\ slots' = [slots EXCEPT ![s] = NewClient(s, c)]
                        /\ conn' = IF conn[c] = "waiting"
                                   THEN [conn EXCEPT ![c] = "served"] ELSE conn
                        /\ Write(c, "slot")
    /\ UNCHANGED <<budget, buf, rxq, typed, taken, g_stop, ran>>

\* The next slot, or the timers.
NextSlot ==
    /\ ready' = ready \ {<<"slot", at>>}
    /\ IF at < CLI_MAX_CLIENTS
       THEN pc' = "slot" /\ at' = at + 1
       ELSE pc' = "tick" /\ at' = 0

\* Fault variant: the slot keeps the closed descriptor.
Close_kept(s, line) ==
    /\ slots' = [slots EXCEPT ![s].line = line]
    /\ conn' = [conn EXCEPT ![slots[s].fd] = "closed"]

\* The connection of slot s is closed; what is in its line buffer stays.
Close(s, line) ==
    /\ slots' = [slots EXCEPT ![s] = [fd |-> None, line |-> line]]
    /\ conn' = [conn EXCEPT ![slots[s].fd] = "closed"]

\* Connections are blocking: a read with nothing to read waits for ever.
cli_client_read ==
    /\ pc = "slot"
    /\ IF <<"slot", at>> \notin ready
       THEN NextSlot /\ UNCHANGED <<buf, slots, conn, taken>>
       ELSE LET c == slots[at].fd
                n == Min({READ_MAX, typed[c] - taken[c]})
            IN  /\ Readable(c)
                /\ IF n = 0
                   THEN NextSlot /\ Close(at, slots[at].line) /\ UNCHANGED <<buf, taken>>
                   ELSE /\ buf' = [k \in 1..n |-> <<c, taken[c] + k>>]
                        /\ taken' = [taken EXCEPT ![c] = @ + n]
                        /\ pc' = "run"
                        /\ UNCHANGED <<at, ready, slots, conn>>
    /\ UNCHANGED <<budget, rxq, pending, typed, out, g_stop, ran>>

IsNl(x) == Char(x) = "nl"

\* The line buffer takes what fits.
Stored(line, more) ==
    LET all == line \o more
    IN  SubSeq(all, 1, Min({Len(all), CLI_LINE_MAX - 1}))

\* The rest of what was read holds no end of a line.
line_grows ==
    /\ pc = "run"
    /\ \A k \in DOMAIN buf : ~IsNl(buf[k])
    /\ slots' = [slots EXCEPT ![at].line = Stored(@, buf)]
    /\ buf' = <<>>
    /\ NextSlot
    /\ UNCHANGED <<budget, rxq, pending, conn, typed, taken, out, g_stop, ran>>

IsExit(line) == line # <<>> /\ Char(line[1]) = "exit"

\* The next line is complete: cli_dispatch runs and answers it; the answer
\* and the prompt wait for room in the connection.
line_runs ==
    \E end \in DOMAIN buf :
    LET c == slots[at].fd
        line == Stored(slots[at].line, SubSeq(buf, 1, end - 1))
        rest == SubSeq(buf, end + 1, Len(buf))
    IN  /\ pc = "run"
        /\ IsNl(buf[end]) /\ \A k \in 1..(end - 1) : ~IsNl(buf[k])
        /\ ran' = [ran EXCEPT ![c] = Append(@, line)]
        /\ IF conn[c] = "left"
           THEN pc' = "killed" /\ UNCHANGED <<at, buf, ready, slots, conn, out>>
           ELSE /\ out[c] < OUT_MAX
                /\ out' = [out EXCEPT ![c] = IF IsExit(line) THEN 0 ELSE @ + 1]
                /\ IF IsExit(line)
                   THEN /\ Close(at, <<>>)
                        /\ buf' = <<>>
                        /\ NextSlot
                   ELSE /\ slots' = [slots EXCEPT ![at].line = <<>>]
                        /\ buf' = rest
                        /\ IF rest = <<>> THEN NextSlot ELSE UNCHANGED <<pc, at, ready>>
                        /\ UNCHANGED conn
        /\ UNCHANGED <<budget, rxq, pending, typed, taken, g_stop>>

\* pf_tick, and what main does between two iterations.
pf_tick ==
    /\ pc = "tick"
    /\ pc' = "poll"
    /\ at' = 0 /\ ready' = {}
    /\ UNCHANGED <<budget, buf, rxq, pending, slots, conn, typed, taken, out, g_stop, ran>>

\* Fault variant: the daemon waits for its operators to leave.
shutdown_idle ==
    /\ pc = "poll"
    /\ g_stop
    /\ Served = {}
    /\ pc' = "done"
    /\ UNCHANGED <<at, budget, buf, ready, world>>

\* Every connection is closed, and so is the socket operators wait at.
cli_close ==
    /\ slots' = [s \in Slots |-> FreeSlot]
    /\ conn' = [c \in Operators |-> IF conn[c] = "out" THEN "out" ELSE "closed"]
    /\ pending' = <<>>

\* The end of main.
shutdown ==
    /\ pc = "poll"
    /\ g_stop
    /\ pc' = "done"
    /\ cli_close
    /\ UNCHANGED <<at, budget, buf, ready, rxq, typed, taken, out, g_stop, ran>>

Loop ==
    \/ poll
    \/ rx_drain
    \/ cli_accept
    \/ cli_client_read
    \/ line_grows
    \/ line_runs
    \/ pf_tick
    \/ shutdown

-----------------------------------------------------------------------------
(* Devices, operators and signals.                                         *)

arrive(d) ==
    /\ rxq[d] < RXQ_MAX
    /\ rxq' = [rxq EXCEPT ![d] = @ + 1]
    /\ UNCHANGED <<loop, pending, slots, conn, typed, taken, out, g_stop, ran>>

connect(c) ==
    /\ conn[c] = "out"
    /\ Len(pending) < SOMAX
    /\ conn' = [conn EXCEPT ![c] = "waiting"]
    /\ pending' = Append(pending, c)
    /\ UNCHANGED <<loop, rxq, slots, typed, taken, out, g_stop, ran>>

type(c) ==
    /\ conn[c] \in {"waiting", "served"}
    /\ typed[c] < Len(Script[c])
    /\ typed' = [typed EXCEPT ![c] = @ + 1]
    /\ UNCHANGED <<loop, rxq, pending, slots, conn, taken, out, g_stop, ran>>

read_reply(c) ==
    /\ conn[c] = "served"
    /\ out[c] > 0
    /\ out' = [out EXCEPT ![c] = 0]
    /\ UNCHANGED <<loop, rxq, pending, slots, conn, typed, taken, g_stop, ran>>

leave(c) ==
    /\ c \in Hasty
    /\ conn[c] \in {"waiting", "served"}
    /\ conn' = [conn EXCEPT ![c] = "left"]
    /\ out' = [out EXCEPT ![c] = 0]
    /\ UNCHANGED <<loop, rxq, pending, slots, typed, taken, g_stop, ran>>

app_on_signal ==
    /\ ~g_stop
    /\ g_stop' = TRUE
    /\ UNCHANGED <<loop, rxq, pending, slots, conn, typed, taken, out, ran>>

Environment ==
    /\ ~Over
    /\ \/ \E d \in Devs : arrive(d)
       \/ \E c \in Operators : connect(c) \/ type(c) \/ read_reply(c) \/ leave(c)
       \/ app_on_signal

Next == Loop \/ Environment

\* The loop is one thread that never waits for a lock; an operator reads
\* what is written to them.
Fairness ==
    /\ WF_vars(Loop)
    /\ \A c \in Operators : WF_vars(~Over /\ read_reply(c))

Spec == Init /\ [][Next]_vars /\ Fairness

-----------------------------------------------------------------------------
(* Properties.                                                             *)

IsEnd(c, k) == Script[c][k] = "nl"
EndsTo(c, n) == {k \in 1..n : IsEnd(c, k)}
Ends(c) == EndsTo(c, typed[c])

\* What c types in one line up to position k, as far as the line buffer
\* keeps it.
LineTo(c, k) ==
    LET from == Max({0} \cup EndsTo(c, k - 1))
    IN  [i \in 1..Min({k - 1 - from, CLI_LINE_MAX - 1}) |-> <<c, from + i>>]

\* The commands run for an operator are the lines that operator typed, in
\* order, cut to the line buffer: no line is run twice, none is mixed with
\* another operator's or with what an earlier one left in the slot, and
\* nothing is run after exit, however the input is cut into reads.
RunsWhatWasTyped ==
    \A c \in Operators :
        /\ \A j \in DOMAIN ran[c] :
              \E k \in Ends(c) : /\ j = Cardinality(EndsTo(c, k))
                                 /\ ran[c][j] = LineTo(c, k)
        /\ \A j \in DOMAIN ran[c] : IsExit(ran[c][j]) => j = Len(ran[c])

\* A connection that was accepted and not closed has one slot, and a slot in
\* use has one open connection: no descriptor leaks, none is used after it
\* was closed.  No line outgrows its buffer, the terminator included.
SlotsMatchConnections ==
    /\ TypeOK
    /\ \/ Over
       \/ /\ \A s, t \in Served : s # t => slots[s].fd # slots[t].fd
          /\ \A s \in Served : conn[slots[s].fd] \in {"served", "left"}
          /\ \A c \in Operators :
                /\ conn[c] = "served" => \E s \in Served : slots[s].fd = c
                /\ conn[c] = "left" => \/ \E s \in Served : slots[s].fd = c
                                      \/ \E k \in DOMAIN pending : pending[k] = c

\* The timers of the protocols keep running, however many frames arrive and
\* whatever operators do, as long as they read their replies.
TimersRun == []<>(pc = "tick" \/ Over)

\* Every operator who connects is served or turned away and every line that
\* is completed is run, unless its connection ends first: again and again
\* nobody waits.
NobodyWaits ==
    []<>(\/ Over
         \/ /\ pending = <<>>
            /\ \A c \in Operators : conn[c] = "served" => Len(ran[c]) = Cardinality(Ends(c)))

\* A signal ends the daemon.
StopStops == g_stop ~> Over
=============================================================================
