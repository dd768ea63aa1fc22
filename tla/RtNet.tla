------------------------------- MODULE RtNet -------------------------------
(***************************************************************************)
(* The UDP network and the clock between rt_srv and its rt_rcv clients (p2). *)
(* Time is a number of ticks.  Every client has the same latency window, so   *)
(* the WINDOW_SIZE and LatencyWindow of a request are constants.             *)
(***************************************************************************)
EXTENDS Integers, FiniteSets, Datagrams

CONSTANTS
    Clients,          \* the rt_rcv processes, each with an address of its own
    WINDOW_SIZE,
    NACK_SIZE,
    Latency,          \* the latency window
    Estimates,        \* what the running means may come to: see DeltaAverage
    StartTime,        \* the clock at the start; 0 is the epoch
    Report_Interval,
    Stale,            \* what the bytes of a NACK nobody wrote may hold
    CliCap,           \* bound: datagrams in flight to the clients
    SrvCap,           \* bound: datagrams in flight to the server
    MaxSeq,           \* bound: packets the application sends
    AppTime,          \* bound: the application sends until then
    MaxTime           \* bound: the clock stops then

ASSUME RtNetAssumption ==
    /\ WINDOW_SIZE \in Nat \ {0}
    /\ NACK_SIZE \in Nat \ {0}
    /\ Latency \in Nat
    /\ StartTime \in Nat
    /\ Estimates \subseteq 0..StartTime
    /\ Stale \subseteq Int
    /\ Report_Interval \in Nat \ {0}
    /\ MayDuplicate \in BOOLEAN
    /\ {CliCap, SrvCap, MaxSeq, AppTime, MaxTime} \subseteq Nat

VARIABLES
    toCli,   \* datagrams in flight to the clients
    toSrv,   \* datagrams in flight to the server
    now      \* gettimeofday()

rtNetVars == <<toCli, toSrv, now>>

\* package.type
DATA    == 0
ACKACK  == 1
ACK     == 2
REQUEST == 3
PERMIT  == 4
DECLINE == 5
RESENT  == 6

NackArray == [1..NACK_SIZE -> Int]

ToCliMsg == [dst : Clients, type : {DATA, ACKACK, PERMIT, DECLINE, RESENT}, seq : Int, ts : Int]

ToSrvMsg == [src : Clients, type : {ACK, REQUEST}, nack : NackArray, half : Nat]

RtNetTypeOK ==
    /\ toCli \subseteq ToCliMsg
    /\ toSrv \subseteq ToSrvMsg
    /\ now \in Nat

\* Packet s lives in this cell of a window, at either end.
Slot(s) == s % WINDOW_SIZE

Slots == 0..(WINDOW_SIZE - 1)

\* What sendto_dbg makes of a burst.
SentToCli(burst) == toCli' \in Carried(toCli, burst, CliCap)

SentToSrv(burst) == toSrv' \in Carried(toSrv, burst, SrvCap)

RtNetInit ==
    /\ toCli = {}
    /\ toSrv = {}
    /\ now = StartTime

\* Time passes.
Tick ==
    /\ now < MaxTime
    /\ now' = now + 1
    /\ UNCHANGED <<toCli, toSrv>>
=============================================================================
