----------------------------- MODULE BsonContext -----------------------------
(***************************************************************************)
(* ObjectIDs: bson_oid_init and bson_oid_init_sequence, called by threads   *)
(* that share contexts, in processes that fork.  A context says how the     *)
(* fields of an ObjectID are come by (the function pointers); the default   *)
(* one is initialized once in a process, by whichever thread asks first.    *)
(* Clock, host name, process and thread numbers are the system's.           *)
(***************************************************************************)
EXTENDS Integers, Sequences, FiniteSets

CONSTANTS
  Parent,        \* the number of the first process
  Threads,       \* of the threads it has
  Children,      \* of the processes that may be forked; one's only thread has its number
  Owners,        \* the threads that make a context of their own
  Plans,         \* which contexts are used, and with which flags they are made
  Starts,        \* where seq32 may begin
  Digits,        \* how many values a byte has, 256 in the code
  MaxClock,
  MaxOids,       \* how many ObjectIDs are asked for, by all threads, under each plan
  MaxPending     \* and how many at a time

Default == 0
Contexts == {Default} \cup Owners
Processes == {Parent} \cup Children
Tasks == Threads \cup Children

\* bson_context_flags_t
Flags == {"THREAD_SAFE", "DISABLE_HOST_CACHE", "DISABLE_PID_CACHE", "USE_TASK_ID"}

\* Numbers are positive, and those of the processes that are forked are new ones.
ASSUME TasksAssumption ==
  /\ Parent \in Nat \ {0} /\ Parent \notin Children
  /\ Threads \subseteq Nat \ {0} /\ IsFiniteSet(Threads)
  /\ Children \subseteq Nat \ {0} /\ IsFiniteSet(Children) /\ Threads \cap Children = {}
  /\ Owners \subseteq Threads
ASSUME PlansAssumption ==
  \A p \in Plans : DOMAIN p \subseteq Contexts /\ \A c \in DOMAIN p : p[c] \subseteq Flags
ASSUME DigitsAssumption == Digits \in Nat \ {0} /\ Starts \subseteq Nat
ASSUME BoundsAssumption == MaxClock \in Nat /\ MaxOids \in [Plans -> Nat]

VARIABLES
  plan,
  clock, host,
  mem,           \* of each process: its contexts, by owner
  once,          \* of each process: the bson_once_t of bson_context_get_default
  thread,        \* what each thread is doing, and the ObjectID it is making
  made           \* the ObjectIDs, in the order in which the calls returned

vars == <<plan, clock, host, mem, once, thread, made>>

-----------------------------------------------------------------------------
(* Contexts.                                                               *)

\* Memory that is zero, or that was freed: its function pointers are null.
NoContext ==
  [flags |-> {}, get_host |-> "null", get_pid |-> "null", get_seq |-> "null",
   pidbe |-> <<>>, md5 |-> 0, seq32 |-> 0, seq64 |-> 0]

\* The low bytes of a number, the larger one first.
LowBytes(n) == <<(n \div Digits) % Digits, n % Digits>>

\* pid_t and the number of a task are kept in 16 bits.
UINT16_TO_BE(n) == LowBytes(n)

\* The process or, on Linux, the thread that makes the context; gettid cuts its number to
\* 16 bits, and where they are zero the process's stays.
CachedPid(flags, t, p) == IF "USE_TASK_ID" \in flags /\ LowBytes(t) # <<0, 0>> THEN t ELSE p

\* Slip: the sequence of a shared context is counted without synchronization.
Sequence_plain(flags) == "plain"

Sequence(flags) == IF "THREAD_SAFE" \in flags THEN "threadsafe" ELSE "plain"

\* _bson_context_init: the fields that do not depend on the flags ...
InitPlain(flags, seq) ==
  [NoContext EXCEPT !.flags = flags, !.get_host = "cached", !.get_pid = "cached",
                    !.get_seq = "plain", !.seq32 = seq]

\* ... and those that do.
InitFlags(c, t, p) ==
  [c EXCEPT
     !.get_host = IF "DISABLE_HOST_CACHE" \in c.flags THEN "fetched" ELSE @,
     !.md5 = IF "DISABLE_HOST_CACHE" \in c.flags THEN @ ELSE host,
     !.get_seq = Sequence(c.flags),
     !.get_pid = IF "DISABLE_PID_CACHE" \in c.flags THEN "fetched" ELSE @,
     !.pidbe = IF "DISABLE_PID_CACHE" \in c.flags THEN @ ELSE UINT16_TO_BE(CachedPid(c.flags, t, p))]

\* Slip: the default context keeps the number of the process.
DefaultFlags_cached == {"THREAD_SAFE"}

DefaultFlags == {"THREAD_SAFE", "DISABLE_PID_CACHE"}

-----------------------------------------------------------------------------
(* The state.                                                              *)

\* owns: the contexts that no other thread uses, but for thread-safe ones; kind: which
\* of the two counters is used, by all threads, as the two have nothing in common;
\* known: how many ObjectIDs there were when the call began.
Idle(p, owns, kind) ==
  [proc |-> p, owns |-> owns, kind |-> kind, pc |-> "idle", ctx |-> Default, time |-> 0,
   md5 |-> 0, pid |-> <<>>, seq |-> 0, known |-> 0]

Init ==
  /\ plan \in Plans /\ clock = 0 /\ host = 0
  /\ mem = [p \in Processes |-> [c \in Contexts |-> NoContext]]
  /\ once = [p \in Processes |-> "new"]
  /\ \E kind \in {"oid", "sequence"} :
       thread = [t \in Tasks |-> Idle(IF t \in Threads THEN Parent ELSE 0, {}, kind)]
  /\ made = <<>>

Proc(t) == thread[t].proc
Ctx(t) == mem[Proc(t)][thread[t].ctx]
At(t, pc) == Proc(t) # 0 /\ thread[t].pc = pc
Goto(t, pc) == thread' = [thread EXCEPT ![t].pc = pc]

\* Calls that have not returned.
Pending == {t \in Tasks : thread[t].pc # "idle"}

\* No ObjectID was asked for, and no process forked.
Nothing ==
  /\ made = <<>> /\ Pending = {} /\ once[Parent] = "new" /\ clock = 0 /\ host = 0
  /\ \A p \in Children : Proc(p) = 0

-----------------------------------------------------------------------------
(* Making and freeing a context.                                           *)

\* The context is seen by others when it is finished.  Contexts are made first, in the
\* order of their owners' numbers, so that a freed one is not made again.
bson_context_new(t) ==
  /\ t \in Owners \cap DOMAIN plan /\ Nothing
  /\ \A c \in Contexts : c >= t => mem[Proc(t)][c] = NoContext
  /\ \E seq \in Starts :
       mem' = [mem EXCEPT ![Proc(t)][t] = InitFlags(InitPlain(plan[t], seq), t, Proc(t))]
  /\ thread' = [thread EXCEPT ![t].owns = @ \cup {t}]
  /\ UNCHANGED <<plan, clock, host, once, made>>

\* The owner frees it when nobody uses it.
bson_context_destroy(t) ==
  /\ At(t, "idle")
  /\ \E c \in thread[t].owns :
       /\ \A u \in Pending : Proc(u) = Proc(t) => thread[u].ctx # c
       /\ mem' = [mem EXCEPT ![Proc(t)][c] = NoContext]
       /\ thread' = [thread EXCEPT ![t].owns = @ \ {c}]
  /\ UNCHANGED <<plan, clock, host, once, made>>

-----------------------------------------------------------------------------
(* bson_context_get_default.                                               *)

OnceBegins(t) ==
  /\ At(t, "once") /\ once[Proc(t)] = "new"
  /\ once' = [once EXCEPT ![Proc(t)] = "running"]
  /\ \E seq \in Starts : mem' = [mem EXCEPT ![Proc(t)][Default] = InitPlain(DefaultFlags, seq)]
  /\ Goto(t, "init")
  /\ UNCHANGED <<plan, clock, host, made>>

\* Slip: the threads that wait are not told.
OnceDone_never == "running"

OnceDone == "done"

OnceEnds(t) ==
  /\ At(t, "init")
  /\ mem' = [mem EXCEPT ![Proc(t)][Default] = InitFlags(@, t, Proc(t))]
  /\ once' = [once EXCEPT ![Proc(t)] = OnceDone]
  /\ Goto(t, "once")
  /\ UNCHANGED <<plan, clock, host, made>>

\* Slip: that somebody is at it is taken for done.
OncePassed_early(p) == once[p] # "new"

OncePassed(p) == once[p] = "done"

\* A thread that finds the initialization running waits for it.
OnceReturns(t) ==
  /\ At(t, "once") /\ OncePassed(Proc(t))
  /\ Goto(t, "fields")
  /\ UNCHANGED <<plan, clock, host, mem, once, made>>

-----------------------------------------------------------------------------
(* bson_oid_init and bson_oid_init_sequence.                               *)

MayUse(t, c) ==
  \/ c = Default
  \/ c \in thread[t].owns
  \/ "THREAD_SAFE" \in mem[Proc(t)][c].flags

\* The time is read before anything else.
Begin(t) ==
  /\ At(t, "idle")
  /\ Len(made) + Cardinality(Pending) < MaxOids[plan] /\ Cardinality(Pending) < MaxPending
  /\ \E c \in {d \in DOMAIN plan : MayUse(t, d)} :
       thread' = [thread EXCEPT ![t].ctx = c, ![t].time = clock, ![t].known = Len(made),
                                ![t].pc = IF c = Default THEN "once" ELSE "fields"]
  /\ UNCHANGED <<plan, clock, host, mem, once, made>>

oid_get_host(c) == IF c.get_host = "cached" THEN c.md5 ELSE host

oid_get_pid(c, p) == IF c.get_pid = "cached" THEN c.pidbe ELSE UINT16_TO_BE(p)

\* Host and process; there are none in an ObjectID of bson_oid_init_sequence.
Fields(t) ==
  /\ At(t, "fields")
  /\ thread' = [thread EXCEPT
       ![t].pc = "seq",
       ![t].md5 = IF thread[t].kind = "oid" THEN oid_get_host(Ctx(t)) ELSE 0,
       ![t].pid = IF thread[t].kind = "oid" THEN oid_get_pid(Ctx(t), Proc(t)) ELSE <<>>]
  /\ UNCHANGED <<plan, clock, host, mem, once, made>>

\* Slip: the sequence is stored as the machine has it.
OidSeq64_unswapped(seq) == <<seq % Digits, seq \div Digits>>

OidSeq64(seq) == <<seq \div Digits, seq % Digits>>

\* Of 32 bits of a sequence an ObjectID has the lower 24; here, the last digit.
OidSeq32(seq) == <<seq % Digits>>

\* The bytes of an ObjectID, in the order memcmp sees them.
OidBytes(th, seq) ==
  IF th.kind = "oid" THEN <<th.time, th.md5>> \o th.pid \o OidSeq32(seq)
  ELSE <<th.time>> \o OidSeq64(seq)

SeqOf(c, kind) == IF kind = "oid" THEN c.seq32 ELSE c.seq64
WithSeq(c, kind, n) == IF kind = "oid" THEN [c EXCEPT !.seq32 = n] ELSE [c EXCEPT !.seq64 = n]

\* The sequence is stored, and the call returns with an ObjectID.
Counted(t, stored, seq) ==
  /\ mem' = [mem EXCEPT ![Proc(t)][thread[t].ctx] = WithSeq(@, thread[t].kind, stored)]
  /\ made' = Append(made,
       [proc |-> Proc(t), ctx |-> thread[t].ctx, flags |-> Ctx(t).flags,
        kind |-> thread[t].kind, md5 |-> thread[t].md5, seq |-> seq, known |-> thread[t].known,
        bytes |-> OidBytes(thread[t], seq)])
  /\ thread' = [thread EXCEPT ![t] = Idle(Proc(t), thread[t].owns, thread[t].kind)]
  /\ UNCHANGED <<plan, clock, host, once>>

\* bson_atomic_int_add: add and fetch, in one step.
SeqThreadsafe(t) ==
  /\ At(t, "seq") /\ Ctx(t).get_seq = "threadsafe"
  /\ \E seq \in {SeqOf(Ctx(t), thread[t].kind) + 1} : Counted(t, seq, seq)

\* Fetch, and then add.
SeqRead(t) ==
  /\ At(t, "seq") /\ Ctx(t).get_seq = "plain"
  /\ thread' = [thread EXCEPT ![t].pc = "write", ![t].seq = SeqOf(Ctx(t), thread[t].kind)]
  /\ UNCHANGED <<plan, clock, host, mem, once, made>>

SeqWrite(t) ==
  /\ At(t, "write")
  /\ Counted(t, thread[t].seq + 1, thread[t].seq)

-----------------------------------------------------------------------------
(* The system.                                                             *)

\* The child is a copy of the memory, with the thread that forked.  An initialization
\* that another thread was at begins anew in the child.
Fork(t) ==
  /\ At(t, "idle")
  /\ \E p \in Children :
       /\ Proc(p) = 0
       /\ mem' = [mem EXCEPT ![p] = mem[Proc(t)]]
       /\ once' = [once EXCEPT ![p] = IF once[Proc(t)] = "running" THEN "new" ELSE once[Proc(t)]]
       /\ thread' = [thread EXCEPT ![p] = Idle(p, thread[t].owns, thread[t].kind)]
  /\ UNCHANGED <<plan, clock, host, made>>

\* Time goes on, or the clock is set, back too.
Tick ==
  /\ \E now \in 0 .. MaxClock \ {clock} : clock' = now
  /\ UNCHANGED <<plan, host, mem, once, thread, made>>

Rename == host = 0 /\ host' = 1 /\ UNCHANGED <<plan, clock, mem, once, thread, made>>

Step(t) ==
  \/ OnceBegins(t) \/ OnceEnds(t) \/ OnceReturns(t)
  \/ Fields(t) \/ SeqThreadsafe(t) \/ SeqRead(t) \/ SeqWrite(t)

Call(t) == bson_context_new(t) \/ bson_context_destroy(t) \/ Begin(t) \/ Fork(t)

Next == Tick \/ Rename \/ \E t \in Tasks : Step(t) \/ Call(t)

\* A thread that the system runs goes on with its call.
Spec == Init /\ [][Next]_vars /\ \A t \in Tasks : WF_vars(Step(t))

-----------------------------------------------------------------------------
(* What contexts promise.                                                  *)

\* Every variable has its type, and no thread calls through a context that is not
\* initialized or was freed (bson_context_get_default, bson_context_destroy).
TypeOK ==
  /\ clock \in 0 .. MaxClock /\ host \in {0, 1} /\ Len(made) \in 0 .. MaxOids[plan]
  /\ once \in [Processes -> {"new", "running", "done"}]
  /\ \A t \in Tasks :
       /\ thread[t].pc \in {"idle", "once", "init", "fields", "seq", "write"}
       /\ thread[t].pid \in {<<>>} \cup ((0 .. Digits - 1) \X (0 .. Digits - 1))
       /\ thread[t].owns \subseteq Owners

\* Of any two threads that wait for the default context none goes on before it is
\* finished: its flags and its function pointers agree whenever they are called.
CalledFinished ==
  \A t \in Tasks : thread[t].pc \in {"fields", "seq", "write"} =>
    /\ Ctx(t).get_host # "null"
    /\ (Ctx(t).get_seq = "threadsafe") = ("THREAD_SAFE" \in Ctx(t).flags)
    /\ (Ctx(t).get_pid = "fetched") = ("DISABLE_PID_CACHE" \in Ctx(t).flags)

SameContext(x, y) == x.proc = y.proc /\ x.ctx = y.ctx /\ x.kind = y.kind

Laps == Digits

\* Two calls with a context give the same ObjectID only when its counter went all the
\* way round between them, whatever threads make them (bson_oid_init: "unique within
\* this context").
UniqueInContext ==
  \A i \in DOMAIN made : \A j \in 1 .. i - 1 :
    (SameContext(made[i], made[j]) /\ made[i].bytes = made[j].bytes) =>
      made[i].seq >= made[j].seq + Laps \/ made[j].seq >= made[i].seq + Laps

\* The bytes of x come before those of y.
Before(x, y) ==
  \E n \in DOMAIN x : x[n] < y[n] /\ \A m \in 1 .. n - 1 : x[m] = y[m]

\* An ObjectID is larger than all that the context had given when it was asked for
\* (bson_oid_init: "guaranteed to be sequential"), until the counter comes round, the host
\* is renamed or the clock shows an earlier time.
Sequential ==
  \A i \in DOMAIN made : \A j \in 1 .. made[i].known :
    (/\ SameContext(made[i], made[j]) /\ made[i].md5 = made[j].md5
     /\ made[j].bytes[1] <= made[i].bytes[1]
     /\ made[i].kind = "oid" => made[i].seq \div Laps = made[j].seq \div Laps)
    => Before(made[j].bytes, made[i].bytes)

\* After a fork the default context, and every one that does not keep the process's
\* number, gives other ObjectIDs in the child than in the parent.
ForksApart ==
  \A i \in DOMAIN made : \A j \in 1 .. i - 1 :
    (/\ made[i].kind = "oid" /\ made[j].kind = "oid"
     /\ \A x \in {made[i], made[j]} : x.ctx = Default \/ "DISABLE_PID_CACHE" \in x.flags
     /\ LowBytes(made[i].proc) # LowBytes(made[j].proc))
    => made[i].bytes # made[j].bytes

ByTask(x) == x.kind = "oid" /\ "USE_TASK_ID" \in x.flags /\ "DISABLE_PID_CACHE" \notin x.flags

\* The number of the thread that made a context, or of its process where the 16 bits of the
\* thread's are zero.
TaskNumber(owner) == IF LowBytes(owner) = <<0, 0>> THEN Parent ELSE owner

\* Threads with contexts of their own that are told apart by their task numbers never
\* give the same ObjectID.
TasksApart ==
  \A i \in DOMAIN made : \A j \in 1 .. i - 1 :
    (/\ ByTask(made[i]) /\ ByTask(made[j])
     /\ LowBytes(TaskNumber(made[i].ctx)) # LowBytes(TaskNumber(made[j].ctx)))
    => made[i].bytes # made[j].bytes

\* Every thread works with a context that is whole, in every state.
ContextsInOrder == TypeOK /\ CalledFinished

\* Processes, and tasks, whose 16-bit numbers differ and are in their ObjectIDs never give
\* the same one.
NumbersApart == ForksApart /\ TasksApart

\* Every call returns, those that wait for the default context too.
Returns == \A t \in Tasks : thread[t].pc # "idle" ~> thread[t].pc = "idle"

=============================================================================
