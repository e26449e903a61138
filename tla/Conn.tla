--------------------------------- MODULE Conn ---------------------------------
(***************************************************************************)
(* The sending half of src/conn.c.  Two threads send over one socket: main *)
(* with conn_send_str, which waits for the send mutex, the reader with     *)
(* conn_try_send_str, which does not.  The socket is the blocking one that *)
(* accept returns: write copies into the socket's buffer until the whole   *)
(* string is in, and only a signal makes it return earlier.  The client    *)
(* takes bytes out when it likes, and may go away.                         *)
(***************************************************************************)
EXTENDS Integers, Sequences

CONSTANTS
    Room,        \* size of the socket's send buffer, in bytes
    MaxLen,      \* bound: length of a string that main sends
    MaxSends,    \* bound: strings each thread sends
    Polls,       \* CONN_SEND_TIMEOUT_MS / CONN_SEND_POLL_MS
    MaxSignals   \* bound: signals that interrupt a poll or a write

ASSUME ConnAssumption ==
    /\ {Room, MaxLen, MaxSends, Polls} \subseteq Nat \ {0}
    /\ MaxSignals \in Nat

Thread == {"main", "reader"}

VARIABLES
    pc,          \* per thread: "idle", "lock", "poll", "write" or "unlock"
    left,        \* per thread: bytes of its string not yet written
    waited,      \* per thread: total_waited, in poll intervals
    sends,       \* per thread: how many strings it has begun
    send_mutex,  \* the thread that holds it, or "free"
    buffered,    \* bytes in the socket's send buffer
    broken,      \* the client has gone away
    signals,     \* signals so far
    wire         \* history: every byte that went into the socket

local == <<pc, left, waited, sends>>
vars == <<local, send_mutex, buffered, broken, signals, wire>>

Init ==
    /\ pc = [t \in Thread |-> "idle"]
    /\ left = [t \in Thread |-> 0]
    /\ waited = [t \in Thread |-> 0]
    /\ sends = [t \in Thread |-> 0]
    /\ send_mutex = "free"
    /\ buffered = 0 /\ broken = FALSE /\ signals = 0
    /\ wire = <<>>

At(t, l) == pc[t] = l
Goto(t, l) == pc' = [pc EXCEPT ![t] = l]

\* __conn_send_str begins with a string of n bytes.
Begin(t, n) ==
    /\ left' = [left EXCEPT ![t] = n]
    /\ waited' = [waited EXCEPT ![t] = 0]
    /\ sends' = [sends EXCEPT ![t] = @ + 1]

----------------------------------------------------------------------------
\* conn_send_str(str), with n bytes
conn_send_str(n) ==
    /\ At("main", "idle")
    /\ sends["main"] < MaxSends
    /\ Begin("main", n)
    /\ Goto("main", "lock")
    /\ UNCHANGED <<send_mutex, buffered, broken, signals, wire>>

\* pthread_mutex_lock
Lock(t) ==
    /\ At(t, "lock")
    /\ send_mutex = "free"
    /\ send_mutex' = t
    /\ Goto(t, "poll")
    /\ UNCHANGED <<left, waited, sends, buffered, broken, signals, wire>>

\* Mutant: the result of pthread_mutex_trylock is not looked at.
TrySendUnlocked ==
    /\ At("reader", "idle")
    /\ sends["reader"] < MaxSends
    /\ Begin("reader", 1)
    /\ Goto("reader", "poll")
    /\ UNCHANGED <<send_mutex, buffered, broken, signals, wire>>

\* Mutant: pthread_mutex_lock instead of pthread_mutex_trylock.
TrySendLocks ==
    /\ At("reader", "idle")
    /\ sends["reader"] < MaxSends
    /\ Begin("reader", 1)
    /\ Goto("reader", "lock")
    /\ UNCHANGED <<send_mutex, buffered, broken, signals, wire>>

\* conn_try_send_str(STR_ACK): without the mutex there is no ACK.
conn_try_send_str ==
    /\ At("reader", "idle")
    /\ sends["reader"] < MaxSends
    /\ Begin("reader", 1)
    /\ IF send_mutex = "free"
         THEN send_mutex' = "reader" /\ Goto("reader", "poll")
         ELSE UNCHANGED <<send_mutex, pc>>
    /\ UNCHANGED <<buffered, broken, signals, wire>>

----------------------------------------------------------------------------
(* __conn_send_str.                                                        *)

timeout(t) == IF t = "main" THEN Polls ELSE 0

\* The string is out: return true.
SendDone(t) ==
    /\ At(t, "poll")
    /\ left[t] = 0
    /\ Goto(t, "unlock")
    /\ UNCHANGED <<left, waited, sends, send_mutex, buffered, broken, signals,
                   wire>>

\* socket_writable: room for a byte, or an error to be had from write.
PollWritable(t) ==
    /\ At(t, "poll")
    /\ left[t] > 0
    /\ buffered < Room \/ broken
    /\ Goto(t, "write")
    /\ UNCHANGED <<left, waited, sends, send_mutex, buffered, broken, signals,
                   wire>>

\* 100 ms have passed, or a signal makes poll return -1 whether or not the
\* socket is writable, which counts as 100 ms; give up when that was the last of
\* them.
PollTimeout(t) ==
    /\ At(t, "poll")
    /\ left[t] > 0
    /\ \/ buffered = Room /\ ~broken /\ UNCHANGED signals
       \/ signals < MaxSignals /\ signals' = signals + 1
    /\ waited' = [waited EXCEPT ![t] = @ + 1]
    /\ Goto(t, IF waited[t] + 1 >= timeout(t) THEN "unlock" ELSE "poll")
    /\ UNCHANGED <<left, sends, send_mutex, buffered, broken, wire>>

\* write copies one more byte.  (total_waited is reset when write returns;
\* nobody looks at it before.)
WriteByte(t) ==
    /\ At(t, "write")
    /\ ~broken /\ left[t] > 0 /\ buffered < Room
    /\ wire' = Append(wire, [by |-> t, send |-> sends[t], left |-> left[t]])
    /\ buffered' = buffered + 1
    /\ left' = [left EXCEPT ![t] = @ - 1]
    /\ waited' = [waited EXCEPT ![t] = 0]
    /\ UNCHANGED <<pc, sends, send_mutex, broken, signals>>

\* write returns when everything has been copied.
WriteReturns(t) ==
    /\ At(t, "write")
    /\ left[t] = 0
    /\ Goto(t, "poll")
    /\ UNCHANGED <<left, waited, sends, send_mutex, buffered, broken, signals,
                   wire>>

\* A signal: EINTR, or the number of bytes copied so far; the loop goes on.
WriteInterrupted(t) ==
    /\ At(t, "write")
    /\ signals < MaxSignals
    /\ signals' = signals + 1
    /\ Goto(t, "poll")
    /\ UNCHANGED <<left, waited, sends, send_mutex, buffered, broken, wire>>

\* Mutant: the error path leaves without the unlock.
WriteFailsKeepsMutex(t) ==
    /\ At(t, "write")
    /\ broken
    /\ Goto(t, "idle")
    /\ UNCHANGED <<left, waited, sends, send_mutex, buffered, broken, signals,
                   wire>>

\* Mutant: every error is retried, like EINTR.
WriteFailsRetries(t) ==
    /\ At(t, "write")
    /\ broken
    /\ Goto(t, "poll")
    /\ UNCHANGED <<left, waited, sends, send_mutex, buffered, broken, signals,
                   wire>>

\* A fatal error: return false.
WriteFails(t) ==
    /\ At(t, "write")
    /\ broken
    /\ Goto(t, "unlock")
    /\ UNCHANGED <<left, waited, sends, send_mutex, buffered, broken, signals,
                   wire>>

Unlock(t) ==
    /\ At(t, "unlock")
    /\ send_mutex' = "free"
    /\ Goto(t, "idle")
    /\ UNCHANGED <<left, waited, sends, buffered, broken, signals, wire>>

----------------------------------------------------------------------------
\* The client reads a byte, or goes away.
ClientReads ==
    /\ buffered > 0
    /\ buffered' = buffered - 1
    /\ UNCHANGED <<local, send_mutex, broken, signals, wire>>

ClientLeaves ==
    /\ ~broken
    /\ broken' = TRUE
    /\ UNCHANGED <<local, send_mutex, buffered, signals, wire>>

\* A thread inside a send goes on.
Sending(t) ==
    \/ Lock(t)
    \/ SendDone(t) \/ PollWritable(t) \/ PollTimeout(t)
    \/ WriteByte(t) \/ WriteReturns(t) \/ WriteFails(t) \/ Unlock(t)

Next ==
    \/ \E n \in 1..MaxLen : conn_send_str(n)
    \/ conn_try_send_str
    \/ \E t \in Thread : Sending(t) \/ WriteInterrupted(t)
    \/ ClientReads \/ ClientLeaves

Spec == Init /\ [][Next]_vars

\* The reader thread is scheduled; nothing is assumed of main or the client.
ReaderFairSpec == Spec /\ WF_vars(Sending("reader"))

----------------------------------------------------------------------------
\* Bytes i and j of the wire belong to the same string.
SameString(i, j) == wire[i].by = wire[j].by /\ wire[i].send = wire[j].send

\* The bytes of two strings are never interleaved.
NotInterleaved ==
    \A i, k \in DOMAIN wire :
       i < k /\ SameString(i, k) => \A j \in i..k : SameString(i, j)

\* Within a string no byte is repeated, skipped or reordered.
BytesInOrder ==
    \A i \in DOMAIN wire :
       i > 1 /\ SameString(i - 1, i) => wire[i].left = wire[i - 1].left - 1

(***************************************************************************)
(* "Serialize socket writes": whatever the threads' order and across the   *)
(* partial writes, signals and retries of __conn_send_str, what is on the  *)
(* wire is one string, or the beginning of one, after another.             *)
(***************************************************************************)
StringsIntact == NotInterleaved /\ BytesInOrder

(***************************************************************************)
(* The mutex is held exactly by the thread that is inside __conn_send_str: *)
(* every return path releases it, once.                                    *)
(***************************************************************************)
MutexMatches ==
    \A t \in Thread :
       pc[t] \in {"poll", "write", "unlock"} <=> send_mutex = t

(***************************************************************************)
(* "This keeps the reader thread responsive for interrupts": the reader's  *)
(* send of an ACK returns by the reader's own steps, even if main never    *)
(* moves again and the client reads nothing.                               *)
(***************************************************************************)
ReaderResponsive == pc["reader"] # "idle" ~> pc["reader"] = "idle"

(***************************************************************************)
(* A send of main returns, over partial writes, signals, a full buffer and *)
(* a client that goes away, if main is scheduled and the client goes on    *)
(* reading what is buffered.  The second condition is needed: write on the *)
(* blocking socket waits beyond the timeout of conn.c:104.                 *)
(***************************************************************************)
SendReturnsIfRead ==
    WF_vars(Sending("main")) /\ WF_vars(ClientReads)
      => (pc["main"] = "poll" ~> pc["main"] = "idle")
==============================================================================
