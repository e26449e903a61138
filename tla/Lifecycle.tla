------------------------------ MODULE Lifecycle ------------------------------
(***************************************************************************)
(* Setting a stub up and taking it down: gdbstub_init with regbuf_init,    *)
(* pktqueue_init and conn_init, any call of which may fail; gdbstub_run as *)
(* far as it starts the reader thread; gdbstub_close with conn_close.      *)
(* Several stubs, one after another or side by side, use the same address, *)
(* a TCP port or a path for a UNIX socket, and a process may die anywhere. *)
(***************************************************************************)
CONSTANT Stub

VARIABLES mode,   \* the address is a port, or a path that fits sun_path or is too "long": fixed
          pc,     \* per stub: a step of Step or Release, "idle", "ready" or "run"
          held,   \* per stub: the resources it has acquired and not released
          twice,  \* history: a resource was released that was not held
          bound,  \* per stub: its listening socket has the address
          file,   \* the path that bind is given exists
          linger, \* a connection of an earlier stub still occupies the port
          reuse,  \* per stub: SO_REUSEADDR is set
          fresh   \* history, per stub: its unlink was not refused, and no other
                  \* stub has bound since

vars == <<mode, pc, held, twice, bound, file, linger, reuse, fresh>>

tcp == mode = "tcp"

\* What an initialized stub holds
All == {"priv", "regbuf", "q_mutex", "q_cond", "send_mutex", "listen_fd", "socket_fd"}

----------------------------------------------------------------------------
\* The calls that may fail, in their order: what each acquires, the label its
\* failure jumps to and the step behind it.
Acquires(gets, fail, next) == [gets |-> gets, fail |-> fail, next |-> next]

Step ==
    [calloc     |-> Acquires({"priv"}, "idle", "strdup"),
     strdup     |-> Acquires({"addr_str"}, "priv_fail", "port"),
     port       |-> Acquires({}, "addr_fail", "regbuf"),
     regbuf     |-> Acquires({"regbuf"}, "addr_fail", "q_mutex"),
     q_mutex    |-> Acquires({"q_mutex"}, "regbuf_fail", "q_cond"),
     q_cond     |-> Acquires({"q_cond"}, "cond_fail", "send_mutex"),
     send_mutex |-> Acquires({"send_mutex"}, "pktqueue_fail", "socket"),
     socket     |-> Acquires({"listen_fd"}, "mutex_fail", "setsockopt"),
     setsockopt |-> Acquires({}, "fail", "bind"),
     bind       |-> Acquires({}, "fail", "listen"),
     listen     |-> Acquires({}, "fail", "accept"),
     accept     |-> Acquires({"socket_fd"}, "fail", "done"),
     create     |-> Acquires({"reader"}, "ready", "run")]

\* The labels of conn_init, pktqueue_init and gdbstub_init, which fall through
\* one into the next, the end of gdbstub_init, and gdbstub_close.
Frees(frees, next) == [frees |-> frees, next |-> next]

Release ==
    [fail          |-> Frees({"listen_fd"}, "mutex_fail"),
     mutex_fail    |-> Frees({"send_mutex"}, "pktqueue_fail"),
     pktqueue_fail |-> Frees({"q_mutex", "q_cond"}, "regbuf_fail"),
     cond_fail     |-> Frees({"q_mutex"}, "regbuf_fail"),
     regbuf_fail   |-> Frees({"regbuf"}, "addr_fail"),
     addr_fail     |-> Frees({"addr_str"}, "priv_fail"),
     priv_fail     |-> Frees({"priv"}, "idle"),
     done          |-> Frees({"addr_str"}, "ready"),
     join          |-> Frees({"reader"}, "close_queue"),
     close_queue   |-> Frees({"q_mutex", "q_cond"}, "close_regbuf"),
     close_regbuf  |-> Frees({"regbuf"}, "conn_close"),
     conn_close    |-> Frees({"socket_fd", "listen_fd", "send_mutex"}, "close_priv"),
     close_priv    |-> Frees({"priv"}, "idle")]

\* Mutant: a failing accept jumps behind the close of the listening socket.
FailLabelLate(p) == IF p = "accept" THEN "mutex_fail" ELSE Step[p].fail

FailLabel(p) == Step[p].fail

ReleaseNext(p) == Release[p].next

Init ==
    /\ mode \in {"tcp", "path", "long"}
    /\ pc = [s \in Stub |-> "idle"] /\ held = [s \in Stub |-> {}]
    /\ twice = FALSE /\ bound = [s \in Stub |-> FALSE]
    /\ file \in BOOLEAN /\ linger \in BOOLEAN
    /\ reuse = [s \in Stub |-> FALSE] /\ fresh = [s \in Stub |-> FALSE]

----------------------------------------------------------------------------
Goto(s, p) == pc' = [pc EXCEPT ![s] = p]
Keep == UNCHANGED <<mode, twice, bound, file, linger, reuse, fresh>>

gdbstub_init(s) ==
    /\ pc[s] = "idle" /\ Goto(s, "calloc")
    /\ UNCHANGED held /\ Keep

\* The kernel lets a stub have the address: a port as long as no socket is
\* bound to it and, without SO_REUSEADDR, no connection lingers; a path if there
\* is nothing there, whoever made it.
CanBind(s) ==
    IF tcp THEN (\A t \in Stub : ~bound[t]) /\ (reuse[s] \/ ~linger) ELSE ~file

\* Mutant: the old path is not removed.
NoUnlink == FALSE

\* The path unlinked is the one that is bound.  strncpy cuts a path that is too
\* long, unlink is given the whole of it.
Unlinks == mode = "path"

\* unlink, right before socket; its result is not looked at.
Unlink(s) ==
    \E done \in BOOLEAN :
      /\ file' = (file /\ ~(Unlinks /\ done))
      /\ fresh' = [fresh EXCEPT ![s] = done]

\* bind creates the path.
Bind(s) ==
    /\ file' = (file \/ ~tcp)
    /\ fresh' = [t \in Stub |-> fresh[t] /\ t = s]

\* A call succeeds.  setsockopt is skipped in UNIX mode.  The last character of
\* a path that was cut is what happens to be on the stack, so that bind may find
\* nothing there even if an earlier one did not.
Acquire(s) ==
    /\ pc[s] \in DOMAIN Step
    /\ pc[s] = "bind" => CanBind(s) \/ mode = "long"
    /\ held' = [held EXCEPT ![s] = @ \cup Step[pc[s]].gets]
    /\ Goto(s, Step[pc[s]].next)
    /\ reuse' = IF pc[s] = "setsockopt" THEN [reuse EXCEPT ![s] = tcp] ELSE reuse
    /\ bound' = [bound EXCEPT ![s] = @ \/ pc[s] = "bind"]
    /\ CASE pc[s] = "socket" /\ ~tcp -> Unlink(s)
         [] pc[s] = "bind"           -> Bind(s)
         [] OTHER                    -> UNCHANGED <<file, fresh>>
    /\ UNCHANGED <<mode, twice, linger>>

\* A call fails; unlink has been done all the same.
Fail(s) ==
    /\ pc[s] \in DOMAIN Step
    /\ ~(pc[s] = "setsockopt" /\ ~tcp)
    /\ Goto(s, FailLabel(pc[s]))
    /\ IF pc[s] = "socket" /\ ~tcp THEN Unlink(s) ELSE UNCHANGED <<file, fresh>>
    /\ UNCHANGED <<mode, held, twice, bound, linger, reuse>>

\* A label, or a step of gdbstub_close: the address is free once the listening
\* socket is closed, but close of a connection leaves it lingering in the
\* kernel, and close never removes the path.
Free(s) ==
    /\ pc[s] \in DOMAIN Release
    /\ twice' = (twice \/ ~(Release[pc[s]].frees \subseteq held[s]))
    /\ held' = [held EXCEPT ![s] = @ \ Release[pc[s]].frees]
    /\ Goto(s, ReleaseNext(pc[s]))
    /\ bound' = [bound EXCEPT ![s] = @ /\ "listen_fd" \notin Release[pc[s]].frees]
    /\ linger' = (linger \/ (tcp /\ pc[s] = "conn_close"))
    /\ UNCHANGED <<mode, file, reuse, fresh>>

\* gdbstub_run creates the reader thread, unless it has one, and returns.
gdbstub_run(s) ==
    /\ pc[s] = "ready"
    /\ Goto(s, IF "reader" \in held[s] THEN "run" ELSE "create")
    /\ UNCHANGED held /\ Keep

RunReturns(s) == pc[s] = "run" /\ Goto(s, "ready") /\ UNCHANGED held /\ Keep

\* gdbstub_close joins the reader only if there is one.
gdbstub_close(s) ==
    /\ pc[s] = "ready"
    /\ Goto(s, IF "reader" \in held[s] THEN "join" ELSE "close_queue")
    /\ UNCHANGED held /\ Keep

\* The process dies: the kernel takes back everything but the path.
Dies(s) ==
    /\ pc[s] # "idle"
    /\ Goto(s, "idle") /\ held' = [held EXCEPT ![s] = {}]
    /\ bound' = [bound EXCEPT ![s] = FALSE]
    /\ linger' = (linger \/ (tcp /\ "socket_fd" \in held[s]))
    /\ UNCHANGED <<mode, twice, file, reuse, fresh>>

\* The lingering connection times out.
Expires ==
    /\ linger /\ linger' = FALSE
    /\ UNCHANGED <<mode, pc, held, twice, bound, file, reuse, fresh>>

Next ==
    \/ \E s \in Stub : \/ gdbstub_init(s) \/ Acquire(s) \/ Fail(s) \/ Free(s)
                       \/ gdbstub_run(s) \/ RunReturns(s) \/ gdbstub_close(s) \/ Dies(s)
    \/ Expires

Spec == Init /\ [][Next]_vars

----------------------------------------------------------------------------
\* Types; and the copy of the address string lives from its strdup to the end
\* of gdbstub_init, on every path through it.
TypeOK ==
    /\ pc \in [Stub -> DOMAIN Step \cup DOMAIN Release \cup {"idle", "ready", "run"}]
    /\ held \in [Stub -> SUBSET (All \cup {"addr_str", "reader"})]
    /\ mode \in {"tcp", "path", "long"} /\ {twice, file, linger} \subseteq BOOLEAN
    /\ {bound, reuse, fresh} \subseteq [Stub -> BOOLEAN]
    /\ \A s \in Stub :
         "addr_str" \in held[s] <=>
           pc[s] \in (DOMAIN Step \ {"calloc", "strdup", "create"}) \cup
                    {"fail", "mutex_fail", "pktqueue_fail", "cond_fail", "regbuf_fail",
                     "addr_fail", "done"}

\* Wherever gdbstub_init fails, and after gdbstub_close, everything acquired
\* has been released; and a stub that is ready has everything.
NoLeak ==
    \A s \in Stub :
      /\ pc[s] = "idle" => held[s] = {}
      /\ pc[s] \in {"ready", "run"} => held[s] \ {"reader"} = All

\* No path through the labels, and no order of runs before gdbstub_close,
\* releases what is not held.
ReleasedOnce == ~twice

\* What gdbstub_init, gdbstub_run and gdbstub_close acquire is released on
\* every path through them, exactly once.
ResourcesBalanced == TypeOK /\ NoLeak /\ ReleasedOnce

\* A stub that comes after others that were closed, have failed in
\* gdbstub_init at whatever call, or have died, gets the address: every way out
\* of a stub gives up the port, and the connection left lingering and the path
\* left behind do not stop the next one.  Two things do on a path: a stub that
\* binds between this one's unlink and its bind, and an unlink that is refused or
\* names another path than bind (one of more than 107 characters, conn.c:66).
RestartCanBind ==
    \A s \in Stub :
      /\ pc[s] = "bind"
      /\ \/ tcp /\ \A t \in Stub \ {s} : pc[t] = "idle"
         \/ mode = "path" /\ fresh[s]
      => CanBind(s)
==============================================================================
