--------------------------- MODULE LifecycleProofs ---------------------------
(***************************************************************************)
(* For any number of stubs on one address, whichever call fails and        *)
(* whenever a process dies: what gdbstub_init, gdbstub_run and             *)
(* gdbstub_close acquire is released exactly once, and neither a lingering *)
(* connection nor a path left behind stops the next stub.                  *)
(***************************************************************************)
EXTENDS Lifecycle, TLAPS

\* What a stub holds at a label or a call, but for the reader thread: the
\* prefix of the resources acquired before it.
Holds ==
    [idle          |-> {},
     calloc        |-> {},
     strdup        |-> {"priv"},
     port          |-> {"priv", "addr_str"},
     regbuf        |-> {"priv", "addr_str"},
     q_mutex       |-> {"priv", "addr_str", "regbuf"},
     q_cond        |-> {"priv", "addr_str", "regbuf", "q_mutex"},
     send_mutex    |-> {"priv", "addr_str", "regbuf", "q_mutex", "q_cond"},
     socket        |-> {"priv", "addr_str", "regbuf", "q_mutex", "q_cond", "send_mutex"},
     setsockopt    |-> (All \ {"socket_fd"}) \cup {"addr_str"},
     bind          |-> (All \ {"socket_fd"}) \cup {"addr_str"},
     listen        |-> (All \ {"socket_fd"}) \cup {"addr_str"},
     accept        |-> (All \ {"socket_fd"}) \cup {"addr_str"},
     done          |-> All \cup {"addr_str"},
     ready         |-> All,
     create        |-> All,
     run           |-> All,
     join          |-> All,
     close_queue   |-> All,
     close_regbuf  |-> All \ {"q_mutex", "q_cond"},
     conn_close    |-> All \ {"q_mutex", "q_cond", "regbuf"},
     close_priv    |-> {"priv"},
     fail          |-> (All \ {"socket_fd"}) \cup {"addr_str"},
     mutex_fail    |-> {"priv", "addr_str", "regbuf", "q_mutex", "q_cond", "send_mutex"},
     pktqueue_fail |-> {"priv", "addr_str", "regbuf", "q_mutex", "q_cond"},
     cond_fail     |-> {"priv", "addr_str", "regbuf", "q_mutex"},
     regbuf_fail   |-> {"priv", "addr_str", "regbuf"},
     addr_fail     |-> {"priv", "addr_str"},
     priv_fail     |-> {"priv"}]

\* The places where a stub may have a reader thread, and where it must.
MayHaveReader == {"ready", "run", "join"}
MustHaveReader == {"run", "join"}

\* What is held is a matter of the place alone, up to the reader thread.
HeldInv ==
    /\ pc \in [Stub -> DOMAIN Holds]
    /\ held \in [Stub -> SUBSET (All \cup {"addr_str", "reader"})]
    /\ \A s \in Stub :
         /\ held[s] \ {"reader"} = Holds[pc[s]]
         /\ "reader" \in held[s] => pc[s] \in MayHaveReader
         /\ pc[s] \in MustHaveReader => "reader" \in held[s]

FlagsInv ==
    /\ mode \in {"tcp", "path", "long"} /\ {twice, file, linger} \subseteq BOOLEAN
    /\ {bound, reuse, fresh} \subseteq [Stub -> BOOLEAN]

\* Before its bind a stub on a port has set SO_REUSEADDR, and the path is gone
\* if unlink could remove it, unless another stub has bound since.
BindInv ==
    \A s \in Stub :
      /\ pc[s] = "bind" /\ mode = "tcp" => reuse[s]
      /\ pc[s] \in {"setsockopt", "bind"} /\ mode = "path" /\ fresh[s] => ~file

\* A stub has the address only while it holds the listening socket, and not
\* before its bind.
BoundInv ==
    \A s \in Stub :
      bound[s] => "listen_fd" \in held[s] /\ pc[s] \notin {"setsockopt", "bind"}

IInv == HeldInv /\ FlagsInv /\ ReleasedOnce /\ BindInv /\ BoundInv
----------------------------------------------------------------------------
\* The tables have the rows they are written with.
LEMMA Domains ==
  /\ DOMAIN Step = {"calloc", "strdup", "port", "regbuf", "q_mutex", "q_cond",
                     "send_mutex", "socket", "setsockopt", "bind", "listen",
                     "accept", "create"}
  /\ DOMAIN Release = {"fail", "mutex_fail", "pktqueue_fail", "cond_fail",
                        "regbuf_fail", "addr_fail", "priv_fail", "done", "join",
                        "close_queue", "close_regbuf", "conn_close", "close_priv"}
  /\ DOMAIN Holds = DOMAIN Step \cup DOMAIN Release \cup {"idle", "ready", "run"}
  BY DEF Step, Release, Holds

\* A call that succeeds adds what it acquires; one that fails jumps to the
\* label where exactly what has been acquired before is released.
LEMMA StepTable ==
  ASSUME NEW p \in DOMAIN Step
  PROVE
    /\ Step[p].next \in DOMAIN Holds /\ Step[p].fail \in DOMAIN Holds
    /\ Step[p].gets \subseteq All \cup {"addr_str", "reader"}
    /\ Holds[Step[p].next] = Holds[p] \cup (Step[p].gets \ {"reader"})
    /\ Holds[Step[p].fail] = Holds[p]
    /\ "reader" \in Step[p].gets <=> p = "create"
    /\ Step[p].next = "run" <=> p = "create"
    /\ Step[p].next # "join" /\ Step[p].fail \notin MustHaveReader
    /\ Step[p].next = "bind" <=> p = "setsockopt"
    /\ Step[p].next = "setsockopt" <=> p = "socket"
    /\ Step[p].fail \notin {"setsockopt", "bind"}
    /\ "listen_fd" \notin Holds["socket"] /\ "listen_fd" \in Holds["bind"]
<1>1. Holds[Step[p].next] = Holds[p] \cup (Step[p].gets \ {"reader"})
  <2>1. ASSUME NEW r
        PROVE  r \in Holds[Step[p].next] <=> r \in Holds[p] \cup (Step[p].gets \ {"reader"})
    BY Domains DEF Step, Holds, Acquires, All
  <2> QED
    BY <2>1
<1>2. Holds[Step[p].fail] = Holds[p]
  <2>1. ASSUME NEW r PROVE r \in Holds[Step[p].fail] <=> r \in Holds[p]
    BY Domains DEF Step, Holds, Acquires, All
  <2> QED
    BY <2>1
<1>3. Step[p].next \in DOMAIN Holds /\ Step[p].fail \in DOMAIN Holds
  BY Domains DEF Step, Acquires, Release
<1>4. /\ Step[p].gets \subseteq All \cup {"addr_str", "reader"}
      /\ "reader" \in Step[p].gets <=> p = "create"
      /\ Step[p].next = "run" <=> p = "create"
  BY Domains DEF Step, Acquires, All
<1>5. /\ Step[p].next # "join" /\ Step[p].fail \notin MustHaveReader
      /\ Step[p].next = "bind" <=> p = "setsockopt"
      /\ Step[p].next = "setsockopt" <=> p = "socket"
      /\ Step[p].fail \notin {"setsockopt", "bind"}
  BY Domains DEF Step, Acquires, MustHaveReader
<1>6. "listen_fd" \notin Holds["socket"] /\ "listen_fd" \in Holds["bind"]
  BY DEF Holds, All
<1> QED
  BY <1>1, <1>2, <1>3, <1>4, <1>5, <1>6

\* A label releases what is held there, and no more.
LEMMA ReleaseTable ==
  ASSUME NEW p \in DOMAIN Release
  PROVE
    /\ Release[p].next \in DOMAIN Holds
    /\ Release[p].frees \ {"reader"} \subseteq Holds[p]
    /\ Holds[Release[p].next] = Holds[p] \ Release[p].frees
    /\ "reader" \in Release[p].frees <=> p = "join"
    /\ Release[p].next \notin MustHaveReader \cup {"setsockopt", "bind"}
<1>1. Release[p].frees \ {"reader"} \subseteq Holds[p]
  <2>1. ASSUME NEW r
        PROVE  r \in Release[p].frees /\ r # "reader" => r \in Holds[p]
    BY Domains DEF Release, Holds, Frees, All
  <2> QED
    BY <2>1
<1>2. Holds[Release[p].next] = Holds[p] \ Release[p].frees
  <2>1. ASSUME NEW r
        PROVE  r \in Holds[Release[p].next] <=> r \in Holds[p] \ Release[p].frees
    BY Domains DEF Release, Holds, Frees, All
  <2> QED
    BY <2>1
<1>3. Release[p].next \in DOMAIN Holds
  BY Domains DEF Release, Frees, Step
<1>4. /\ "reader" \in Release[p].frees <=> p = "join"
      /\ Release[p].next \notin MustHaveReader \cup {"setsockopt", "bind"}
  BY Domains DEF Release, Frees, MustHaveReader
<1> QED
  BY <1>1, <1>2, <1>3, <1>4
\* The copy of the address string is held where TypeOK says, an idle stub holds
\* nothing, and nobody holds the reader thread by its place alone.
LEMMA HoldsTable ==
  /\ Holds["idle"] = {} /\ Holds["calloc"] = {}
  /\ Holds["ready"] = All /\ Holds["run"] = All /\ Holds["create"] = All
  /\ Holds["join"] = All /\ Holds["close_queue"] = All
  /\ \A p \in DOMAIN Holds :
       /\ "reader" \notin Holds[p]
       /\ "addr_str" \in Holds[p] <=>
            p \in (DOMAIN Step \ {"calloc", "strdup", "create"}) \cup
                  {"fail", "mutex_fail", "pktqueue_fail", "cond_fail", "regbuf_fail",
                   "addr_fail", "done"}
<1>1. /\ Holds["idle"] = {} /\ Holds["calloc"] = {}
      /\ Holds["ready"] = All /\ Holds["run"] = All /\ Holds["create"] = All
      /\ Holds["join"] = All /\ Holds["close_queue"] = All
  BY DEF Holds
<1>2. \A p \in DOMAIN Holds : "reader" \notin Holds[p]
  BY Domains DEF Holds, All
<1>3. \A p \in DOMAIN Holds :
        "addr_str" \in Holds[p] <=>
            p \in (DOMAIN Step \ {"calloc", "strdup", "create"}) \cup
                  {"fail", "mutex_fail", "pktqueue_fail", "cond_fail", "regbuf_fail",
                   "addr_fail", "done"}
  BY Domains DEF Holds, All
<1> QED
  BY <1>1, <1>2, <1>3
----------------------------------------------------------------------------
\* Nothing is acquired before gdbstub_init.
LEMMA InitIInv == Init => IInv
<1> SUFFICES ASSUME Init PROVE IInv
  OBVIOUS
<1>1. HeldInv
  BY Domains, HoldsTable DEF Init, HeldInv, MayHaveReader, MustHaveReader
<1>2. FlagsInv /\ ReleasedOnce /\ BindInv /\ BoundInv
  BY DEF Init, FlagsInv, ReleasedOnce, BindInv, BoundInv
<1> QED
  BY <1>1, <1>2 DEF IInv

\* Every call, label and step of gdbstub_close preserves the invariant.
LEMMA NextIInv == IInv /\ [Next]_vars => IInv'
<1> SUFFICES ASSUME IInv, [Next]_vars PROVE IInv'
  OBVIOUS
<1> USE DEF IInv, Goto, Keep, MayHaveReader, MustHaveReader
<1>1. ASSUME NEW s \in Stub, gdbstub_init(s) PROVE IInv'
  <2>1. HeldInv'
    BY <1>1, Domains, HoldsTable DEF gdbstub_init, HeldInv
  <2>2. FlagsInv' /\ ReleasedOnce' /\ BindInv'
    BY <1>1 DEF gdbstub_init, HeldInv, FlagsInv, ReleasedOnce, BindInv
  <2>3. BoundInv'
    BY <1>1 DEF gdbstub_init, HeldInv, FlagsInv, BoundInv
  <2> QED
    BY <2>1, <2>2, <2>3
<1>2. ASSUME NEW s \in Stub, Acquire(s) PROVE IInv'
  <2> DEFINE p == pc[s]
  <2>1. p \in DOMAIN Step /\ "reader" \notin held[s]
    BY <1>2, Domains DEF Acquire, HeldInv
  <2>2. HeldInv'
    <3>1. pc' = [pc EXCEPT ![s] = Step[p].next] /\ pc' \in [Stub -> DOMAIN Holds]
      BY <1>2, <2>1, StepTable DEF Acquire, HeldInv
    <3>2. /\ held' = [held EXCEPT ![s] = held[s] \cup Step[p].gets]
          /\ held' \in [Stub -> SUBSET (All \cup {"addr_str", "reader"})]
      BY <1>2, <2>1, StepTable DEF Acquire, HeldInv
    <3>3. held'[s] \ {"reader"} = Holds[pc'[s]]
      BY <2>1, <3>1, <3>2, StepTable DEF HeldInv
    <3>4. "reader" \in held'[s] <=> pc'[s] = "run"
      BY <2>1, <3>1, <3>2, StepTable DEF HeldInv
    <3>5. pc'[s] # "join"
      BY <2>1, <3>1, StepTable DEF HeldInv
    <3> QED
      BY <3>1, <3>2, <3>3, <3>4, <3>5 DEF HeldInv
  <2>3. FlagsInv' /\ ReleasedOnce'
    <3>1. reuse' \in [Stub -> BOOLEAN] /\ bound' \in [Stub -> BOOLEAN]
      BY <1>2 DEF Acquire, FlagsInv, tcp
    <3>2. fresh' \in [Stub -> BOOLEAN] /\ file' \in BOOLEAN
      <4>1. CASE p = "socket" /\ ~tcp
        BY <1>2, <4>1 DEF Acquire, Unlink, FlagsInv
      <4>2. CASE p = "bind"
        BY <1>2, <4>2 DEF Acquire, Bind, FlagsInv
      <4>3. CASE ~(p = "socket" /\ ~tcp) /\ p # "bind"
        BY <1>2, <4>3 DEF Acquire, FlagsInv
      <4> QED
        BY <4>1, <4>2, <4>3
    <3>3. UNCHANGED <<mode, twice, linger>>
      BY <1>2 DEF Acquire
    <3> QED
      BY <3>1, <3>2, <3>3 DEF FlagsInv, ReleasedOnce
  <2>4. BindInv'
    <3>1. pc' = [pc EXCEPT ![s] = Step[p].next]
      BY <1>2 DEF Acquire
    <3>2. ASSUME NEW t \in Stub, pc'[t] = "bind", mode' = "tcp"
          PROVE  reuse'[t]
      <4>1. /\ reuse' = IF p = "setsockopt" THEN [reuse EXCEPT ![s] = tcp] ELSE reuse
            /\ reuse \in [Stub -> BOOLEAN] /\ tcp
        BY <1>2, <3>2 DEF Acquire, FlagsInv, tcp
      <4>2. CASE t = s
        <5>1. p = "setsockopt"
          BY <2>1, <3>1, <3>2, <4>2, StepTable DEF HeldInv
        <5> QED
          BY <4>1, <4>2, <5>1
      <4>3. CASE t # s
        <5>1. reuse[t]
          BY <3>1, <3>2, <4>1, <4>3 DEF BindInv, HeldInv, tcp
        <5> QED
          BY <4>1, <4>3, <5>1
      <4> QED
        BY <4>2, <4>3
    <3>3. ASSUME NEW t \in Stub, pc'[t] \in {"setsockopt", "bind"}, mode' = "path", fresh'[t]
          PROVE  ~file'
      <4>1. CASE t = s
        <5>1. p = "socket" \/ p = "setsockopt"
          BY <2>1, <3>1, <3>3, <4>1, StepTable DEF HeldInv
        <5>2. CASE p = "socket"
          BY <1>2, <3>3, <4>1, <5>2 DEF Acquire, Unlink, Unlinks, tcp, FlagsInv
        <5>3. CASE p = "setsockopt"
          BY <1>2, <3>3, <4>1, <5>3 DEF Acquire, BindInv
        <5> QED
          BY <5>1, <5>2, <5>3
      <4>2. CASE t # s
        BY <1>2, <3>1, <3>3, <4>2 DEF Acquire, Unlink, Bind, BindInv, HeldInv, FlagsInv, tcp
      <4> QED
        BY <4>1, <4>2
    <3> QED
      BY <3>2, <3>3 DEF BindInv
  <2>5. BoundInv'
    <3>1. /\ pc' = [pc EXCEPT ![s] = Step[p].next]
          /\ held' = [held EXCEPT ![s] = held[s] \cup Step[p].gets]
          /\ bound' = [bound EXCEPT ![s] = bound[s] \/ p = "bind"]
      BY <1>2 DEF Acquire
    <3>2. ASSUME NEW t \in Stub, t # s, bound'[t]
          PROVE  "listen_fd" \in held'[t] /\ pc'[t] \notin {"setsockopt", "bind"}
      BY <3>1, <3>2 DEF BoundInv, HeldInv, FlagsInv
    <3>3. ASSUME bound'[s]
          PROVE  "listen_fd" \in held'[s] /\ pc'[s] \notin {"setsockopt", "bind"}
      <4>1. "listen_fd" \in held[s] /\ p # "setsockopt"
        BY <2>1, <3>1, <3>3, StepTable DEF BoundInv, HeldInv, FlagsInv
      <4>2. p # "socket"
        BY <2>1, <4>1, StepTable DEF HeldInv
      <4> QED
        BY <2>1, <3>1, <4>1, <4>2, StepTable DEF HeldInv
    <3> QED
      BY <3>2, <3>3 DEF BoundInv
  <2> QED
    BY <2>2, <2>3, <2>4, <2>5
<1>3. ASSUME NEW s \in Stub, Fail(s) PROVE IInv'
  <2> DEFINE p == pc[s]
  <2>1. p \in DOMAIN Step /\ "reader" \notin held[s]
    BY <1>3, Domains DEF Fail, HeldInv
  <2>2. pc' = [pc EXCEPT ![s] = Step[p].fail] /\ pc' \in [Stub -> DOMAIN Holds]
    BY <1>3, <2>1, StepTable DEF Fail, FailLabel, HeldInv
  <2>3. HeldInv'
    BY <1>3, <2>1, <2>2, StepTable DEF Fail, HeldInv
  <2>4. FlagsInv' /\ ReleasedOnce'
    BY <1>3 DEF Fail, Unlink, FlagsInv, ReleasedOnce
  <2>5. BindInv'
    BY <1>3, <2>1, <2>2, StepTable DEF Fail, Unlink, BindInv, HeldInv, FlagsInv
  <2>6. BoundInv'
    BY <1>3, <2>1, <2>2, StepTable DEF Fail, BoundInv, HeldInv, FlagsInv
  <2> QED
    BY <2>3, <2>4, <2>5, <2>6
<1>4. ASSUME NEW s \in Stub, Free(s) PROVE IInv'
  <2> DEFINE p == pc[s]
  <2>1. p \in DOMAIN Release
    BY <1>4 DEF Free
  <2>2. pc' = [pc EXCEPT ![s] = Release[p].next] /\ pc' \in [Stub -> DOMAIN Holds]
    BY <1>4, <2>1, ReleaseTable DEF Free, ReleaseNext, HeldInv
  <2>3. /\ "reader" \in held[s] <=> p = "join"
        /\ Release[p].frees \subseteq held[s]
    BY <2>1, Domains, ReleaseTable DEF HeldInv
  <2>4. HeldInv'
    <3>1. /\ held' = [held EXCEPT ![s] = held[s] \ Release[p].frees]
          /\ held' \in [Stub -> SUBSET (All \cup {"addr_str", "reader"})]
      BY <1>4 DEF Free, HeldInv
    <3>2. held'[s] \ {"reader"} = Holds[pc'[s]] /\ "reader" \notin held'[s]
      BY <2>1, <2>2, <2>3, <3>1, ReleaseTable DEF HeldInv
    <3>3. pc'[s] \notin MustHaveReader
      BY <2>1, <2>2, ReleaseTable DEF HeldInv
    <3> QED
      BY <2>2, <3>1, <3>2, <3>3 DEF HeldInv
  <2>5. FlagsInv' /\ ReleasedOnce'
    BY <1>4, <2>3 DEF Free, FlagsInv, ReleasedOnce, tcp
  <2>6. BindInv'
    BY <1>4, <2>1, <2>2, ReleaseTable DEF Free, BindInv, HeldInv
  <2>7. BoundInv'
    <3>1. /\ held' = [held EXCEPT ![s] = held[s] \ Release[p].frees]
          /\ bound' = [bound EXCEPT ![s] = bound[s] /\ "listen_fd" \notin Release[p].frees]
      BY <1>4 DEF Free
    <3> QED
      BY <2>1, <2>2, <3>1, ReleaseTable DEF BoundInv, HeldInv, FlagsInv
  <2> QED
    BY <2>4, <2>5, <2>6, <2>7
<1>5. ASSUME NEW s \in Stub, gdbstub_run(s) PROVE IInv'
  <2>1. HeldInv'
    BY <1>5, Domains, HoldsTable DEF gdbstub_run, HeldInv
  <2>2. FlagsInv' /\ ReleasedOnce' /\ BindInv'
    BY <1>5 DEF gdbstub_run, HeldInv, FlagsInv, ReleasedOnce, BindInv
  <2>3. BoundInv'
    BY <1>5 DEF gdbstub_run, HeldInv, FlagsInv, BoundInv
  <2> QED
    BY <2>1, <2>2, <2>3
<1>6. ASSUME NEW s \in Stub, RunReturns(s) PROVE IInv'
  <2>1. HeldInv'
    BY <1>6, Domains, HoldsTable DEF RunReturns, HeldInv
  <2>2. FlagsInv' /\ ReleasedOnce' /\ BindInv'
    BY <1>6 DEF RunReturns, HeldInv, FlagsInv, ReleasedOnce, BindInv
  <2>3. BoundInv'
    BY <1>6 DEF RunReturns, HeldInv, FlagsInv, BoundInv
  <2> QED
    BY <2>1, <2>2, <2>3
<1>7. ASSUME NEW s \in Stub, gdbstub_close(s) PROVE IInv'
  <2>1. HeldInv'
    BY <1>7, Domains, HoldsTable DEF gdbstub_close, HeldInv
  <2>2. FlagsInv' /\ ReleasedOnce' /\ BindInv'
    BY <1>7 DEF gdbstub_close, HeldInv, FlagsInv, ReleasedOnce, BindInv
  <2>3. BoundInv'
    BY <1>7 DEF gdbstub_close, HeldInv, FlagsInv, BoundInv
  <2> QED
    BY <2>1, <2>2, <2>3
<1>8. ASSUME NEW s \in Stub, Dies(s) PROVE IInv'
  <2>1. HeldInv'
    BY <1>8, Domains, HoldsTable DEF Dies, HeldInv
  <2>2. FlagsInv' /\ ReleasedOnce' /\ BindInv'
    BY <1>8 DEF Dies, HeldInv, FlagsInv, ReleasedOnce, BindInv
  <2>3. BoundInv'
    BY <1>8 DEF Dies, HeldInv, FlagsInv, BoundInv
  <2> QED
    BY <2>1, <2>2, <2>3
<1>9. CASE Expires
  BY <1>9 DEF Expires, HeldInv, FlagsInv, ReleasedOnce, BindInv, BoundInv
<1>10. CASE UNCHANGED vars
  BY <1>10 DEF vars, HeldInv, FlagsInv, ReleasedOnce, BindInv, BoundInv
<1> QED
  BY <1>1, <1>2, <1>3, <1>4, <1>5, <1>6, <1>7, <1>8, <1>9, <1>10 DEF Next

(***************************************************************************)
(* What a stub holds follows from where it is.                             *)
(***************************************************************************)
THEOREM Invariance == Spec => []IInv
<1>1. Init => IInv
  BY InitIInv
<1>2. IInv /\ [Next]_vars => IInv'
  BY NextIInv
<1> QED
  BY <1>1, <1>2, PTL DEF Spec

(***************************************************************************)
(* Whichever call of gdbstub_init fails, the labels of gdbstub_init,       *)
(* pktqueue_init and conn_init release exactly what has been acquired; so  *)
(* does gdbstub_close, whether or not gdbstub_run started a reader thread. *)
(***************************************************************************)
THEOREM NothingLeaks == Spec => []ResourcesBalanced
<1>1. IInv => ResourcesBalanced
  <2> SUFFICES ASSUME IInv PROVE TypeOK /\ NoLeak /\ ReleasedOnce
    BY DEF ResourcesBalanced
  <2>1. TypeOK
    <3>1. \A s \in Stub : "addr_str" \in held[s] <=> "addr_str" \in Holds[pc[s]]
      BY DEF IInv, HeldInv
    <3> QED
      BY <3>1, Domains, HoldsTable DEF IInv, HeldInv, FlagsInv, TypeOK
  <2>2. NoLeak
    <3> SUFFICES ASSUME NEW s \in Stub
                 PROVE  /\ pc[s] = "idle" => held[s] = {}
                        /\ pc[s] \in {"ready", "run"} => held[s] \ {"reader"} = All
      BY DEF NoLeak
    <3>1. CASE pc[s] = "idle"
      <4>1. "reader" \notin held[s]
        BY <3>1 DEF IInv, HeldInv, MayHaveReader
      <4>2. held[s] \ {"reader"} = {}
        BY <3>1, HoldsTable DEF IInv, HeldInv
      <4> QED
        BY <3>1, <4>1, <4>2
    <3>2. CASE pc[s] \in {"ready", "run"}
      BY <3>2, HoldsTable DEF IInv, HeldInv
    <3> QED
      BY <3>1, <3>2
  <2> QED
    BY <2>1, <2>2 DEF IInv
<1> QED
  BY <1>1, Invariance, PTL

(***************************************************************************)
(* Whichever way the stubs before it ended - closed, failed at any call of *)
(* gdbstub_init, or dead - a stub gets the port: the listening socket is   *)
(* closed on every path (BoundInv), and SO_REUSEADDR is set before bind.   *)
(* On a path that fits sun_path the unlink before bind is enough.          *)
(***************************************************************************)
THEOREM RestartBinds == Spec => []RestartCanBind
<1>1. IInv => RestartCanBind
  <2> SUFFICES ASSUME IInv, NEW s \in Stub, pc[s] = "bind",
                      \/ tcp /\ \A t \in Stub \ {s} : pc[t] = "idle"
                      \/ mode = "path" /\ fresh[s]
               PROVE  CanBind(s)
    BY DEF RestartCanBind
  <2>1. CASE tcp /\ \A t \in Stub \ {s} : pc[t] = "idle"
    <3>1. ASSUME NEW t \in Stub PROVE ~bound[t]
      <4>1. CASE t = s
        BY <4>1 DEF IInv, BoundInv
      <4>2. CASE t # s
        <5>1. held[t] \ {"reader"} = {}
          BY <2>1, <4>2, HoldsTable DEF IInv, HeldInv
        <5> QED
          BY <5>1 DEF IInv, BoundInv
      <4> QED
        BY <4>1, <4>2
    <3> QED
      BY <2>1, <3>1 DEF IInv, BindInv, CanBind, tcp
  <2>2. CASE mode = "path" /\ fresh[s]
    BY <2>2 DEF IInv, BindInv, CanBind, tcp
  <2> QED
    BY <2>1, <2>2
<1> QED
  BY <1>1, Invariance, PTL
==============================================================================
