--------------------------- MODULE BsonContext_proofs ---------------------------
(***************************************************************************)
(* Theorems about BsonContext, for every number of threads and processes,   *)
(* every set of contexts, and counters of any size.                        *)
(***************************************************************************)
EXTENDS BsonContext, FiniteSetTheorems, SequenceTheorems, TLAPS

Kinds == {"oid", "sequence"}
Field == 0 .. Digits - 1
Pair == Field \X Field

Context ==
  [flags : SUBSET Flags,
   get_host : {"null", "cached", "fetched"}, get_pid : {"null", "cached", "fetched"},
   get_seq : {"null", "plain", "threadsafe"},
   pidbe : {<<>>} \cup Pair, md5 : {0, 1}, seq32 : Nat, seq64 : Nat]

Thread ==
  [proc : {0} \cup Processes, owns : SUBSET Owners, kind : Kinds,
   pc : {"idle", "once", "init", "fields", "seq", "write"}, ctx : Contexts,
   time : 0 .. MaxClock, md5 : {0, 1}, pid : {<<>>} \cup Pair, seq : Nat, known : Nat]

Oid ==
  [proc : Processes, ctx : Contexts, flags : SUBSET Flags, kind : Kinds, md5 : {0, 1},
   seq : Nat, known : Nat, bytes : Seq(Nat)]

Types ==
  /\ plan \in Plans
  /\ clock \in 0 .. MaxClock /\ host \in {0, 1}
  /\ mem \in [Processes -> [Contexts -> Context]]
  /\ once \in [Processes -> {"new", "running", "done"}]
  /\ thread \in [Tasks -> Thread]
  /\ made \in Seq(Oid)

\* No call is begun that the bound does not allow.
Bounded == Len(made) + Cardinality(Pending) <= MaxOids[plan]

-----------------------------------------------------------------------------
(* Who is where.                                                           *)

\* A process and its threads; a context has one owner in a process; all threads ask for
\* the same kind of ObjectID.
Places ==
  /\ \A t \in Threads : Proc(t) = Parent /\ thread[t].owns \subseteq {t}
  /\ \A t \in Children : Proc(t) \in {0, t}
  /\ \A t \in Tasks : Proc(t) = 0 => thread[t].pc = "idle"
  /\ \A t, u \in Tasks : thread[t].kind = thread[u].kind

\* The function pointers of a context are those its flags ask for.
Finished(c) ==
  /\ c.get_host # "null"
  /\ c.get_seq = Sequence(c.flags)
  /\ c.get_pid = IF "DISABLE_PID_CACHE" \in c.flags THEN "fetched" ELSE "cached"
  /\ c.get_pid = "cached" => c.pidbe \in Pair

\* The number a context keeps is that of its owner, if that is what its flags say.
ByOwner(c, owner) ==
  "USE_TASK_ID" \in c.flags /\ "DISABLE_PID_CACHE" \notin c.flags =>
    c.pidbe = LowBytes(TaskNumber(owner))

\* A context is not there, or finished; the default one is what once says.
Memory ==
  /\ \A p \in Processes, c \in Owners :
       mem[p][c] = NoContext \/ (Finished(mem[p][c]) /\ ByOwner(mem[p][c], c))
  /\ \A p \in Processes :
       /\ once[p] = "done" => Finished(mem[p][Default])
       /\ once[p] # "new" => mem[p][Default].flags = DefaultFlags
       /\ once[p] = "running" =>
            /\ mem[p][Default].get_host = "cached"
            /\ mem[p][Default].get_pid = "cached"
  /\ \A t \in Tasks : Proc(t) # 0 => \A c \in thread[t].owns : Finished(mem[Proc(t)][c])

\* One thread of a process makes the default context; a thread in a call has a context
\* that stays, and has it for itself or calls it thread-safely.
Using ==
  \A t \in Tasks :
    /\ thread[t].pc \in {"once", "init"} => thread[t].ctx = Default
    /\ thread[t].pc = "init" =>
         /\ once[Proc(t)] = "running"
         /\ \A u \in Tasks : Proc(u) = Proc(t) /\ thread[u].pc = "init" => u = t
    /\ thread[t].pc \in {"fields", "seq", "write"} =>
         /\ Finished(Ctx(t))
         /\ thread[t].ctx = Default => once[Proc(t)] = "done"
         /\ thread[t].ctx # Default =>
              thread[t].ctx \in thread[t].owns \/ "THREAD_SAFE" \in Ctx(t).flags
    /\ thread[t].pc \in {"seq", "write"} =>
         IF thread[t].kind = "oid" THEN thread[t].pid = oid_get_pid(Ctx(t), Proc(t))
         ELSE thread[t].md5 = 0
    /\ thread[t].pc = "write" =>
         Ctx(t).get_seq = "plain" /\ thread[t].seq = SeqOf(Ctx(t), thread[t].kind)

-----------------------------------------------------------------------------
(* The ObjectIDs.                                                          *)

PidOf(x) == <<x.bytes[3], x.bytes[4]>>

\* What the bytes of an ObjectID say.
Formed(x) ==
  /\ x.kind = "oid" =>
       /\ Len(x.bytes) = 5 /\ x.bytes[2] = x.md5
       /\ PidOf(x) \in Pair /\ x.bytes[5] = x.seq % Digits
       /\ x.ctx = Default => "DISABLE_PID_CACHE" \in x.flags
       /\ "DISABLE_PID_CACHE" \in x.flags => PidOf(x) = LowBytes(x.proc)
       /\ ByTask(x) => PidOf(x) = LowBytes(TaskNumber(x.ctx))
  /\ x.kind = "sequence" =>
       /\ Len(x.bytes) = 3
       /\ x.bytes[2] = x.seq \div Digits /\ x.bytes[3] = x.seq % Digits

\* The counter of a context that is still there has passed what it gave.
CountedBy(x, c) ==
  /\ c.get_seq = "threadsafe" => x.seq <= SeqOf(c, x.kind)
  /\ c.get_seq = "plain" => x.seq < SeqOf(c, x.kind)
  /\ x.kind = "oid" => PidOf(x) = oid_get_pid(c, x.proc)

\* A context that gave an ObjectID is not made anew.
Made ==
  \A i \in DOMAIN made :
    /\ Formed(made[i])
    /\ \E t \in Tasks : Proc(t) = made[i].proc
    /\ \A t \in Tasks : thread[t].kind = made[i].kind
    /\ made[i].ctx = Default => once[made[i].proc] = "done"
    /\ mem[made[i].proc][made[i].ctx] # NoContext =>
         CountedBy(made[i], mem[made[i].proc][made[i].ctx])

\* Of what a context gives the later is the larger, and the rest stays.
Counting ==
  \A i \in DOMAIN made : \A j \in 1 .. i - 1 :
    SameContext(made[i], made[j]) =>
      /\ made[j].seq < made[i].seq
      /\ made[i].kind = "oid" => PidOf(made[i]) = PidOf(made[j])

\* What a call knows had been made before what it makes.
Known ==
  /\ \A t \in Tasks : thread[t].known <= Len(made)
  /\ \A i \in DOMAIN made : made[i].known < i

CInv ==
  /\ Types /\ Bounded /\ Places /\ Memory /\ Using
  /\ Made /\ Counting /\ Known
-----------------------------------------------------------------------------
(* Constants, numbers, contexts.                                           *)

LEMMA Numbers ==
  /\ Parent \in Tasks \cup Processes /\ Parent \in Processes /\ Parent \notin Children
  /\ Threads \subseteq Tasks /\ Children \subseteq Tasks /\ Children \subseteq Processes
  /\ Threads \cap Children = {} /\ Owners \subseteq Threads
  /\ Tasks \subseteq Nat \ {0} /\ Processes \subseteq Nat \ {0}
  /\ Default \in Contexts /\ Owners \subseteq Contexts /\ Default \notin Owners
  /\ Contexts \subseteq Nat
  BY TasksAssumption DEF Tasks, Processes, Contexts, Default

LEMMA TasksFinite == IsFiniteSet(Tasks)
  BY TasksAssumption, FS_Union DEF Tasks

\* A digit, and what is left of a number without it.
LEMMA DigitOf ==
  ASSUME NEW n \in Nat
  PROVE  /\ n % Digits \in Field /\ n % Digits \in Nat /\ n \div Digits \in Nat
         /\ n = Digits * (n \div Digits) + (n % Digits)
  BY DigitsAssumption DEF Field

LEMMA LowBytesType ==
  ASSUME NEW n \in Nat
  PROVE  LowBytes(n) \in Pair
  <1>1. n \div Digits \in Nat /\ n % Digits \in Field
    BY DigitOf
  <1>2. (n \div Digits) % Digits \in Field
    BY <1>1, DigitOf
  <1> QED  BY <1>1, <1>2 DEF LowBytes, Pair

LEMMA ContextTypes ==
  /\ NoContext \in Context
  /\ DefaultFlags \subseteq Flags
  /\ \A flags \in SUBSET Flags, seq \in Nat :
       /\ InitPlain(flags, seq) \in Context /\ InitPlain(flags, seq).flags = flags
       /\ InitPlain(flags, seq).get_host = "cached" /\ InitPlain(flags, seq).get_pid = "cached"
       /\ InitPlain(flags, seq) # NoContext
  BY DEF NoContext, Context, DefaultFlags, Flags, InitPlain

\* The second half of the initialization finishes a context.
LEMMA ContextFinished ==
  ASSUME host \in {0, 1}, NEW c \in Context, c.get_host = "cached", c.get_pid = "cached",
         NEW t \in Nat, NEW p \in Nat
  PROVE  /\ InitFlags(c, t, p) \in Context /\ InitFlags(c, t, p).flags = c.flags
         /\ Finished(InitFlags(c, t, p)) /\ (p = Parent => ByOwner(InitFlags(c, t, p), t))
  <1> DEFINE d == InitFlags(c, t, p)
  <1>1. UINT16_TO_BE(CachedPid(c.flags, t, p)) \in Pair
    BY LowBytesType DEF CachedPid, UINT16_TO_BE
  <1>2. Sequence(c.flags) \in {"plain", "threadsafe"}
    BY DEF Sequence
  <1>3. d \in Context /\ d.flags = c.flags
    BY <1>1, <1>2 DEF InitFlags, Context
  <1>4. /\ d.get_host # "null" /\ d.get_seq = Sequence(c.flags)
        /\ d.get_pid = IF "DISABLE_PID_CACHE" \in c.flags THEN "fetched" ELSE "cached"
        /\ "DISABLE_PID_CACHE" \notin c.flags =>
             d.pidbe = UINT16_TO_BE(CachedPid(c.flags, t, p))
    BY DEF InitFlags, Context
  <1> HIDE DEF d
  <1>5. Finished(d)
    BY <1>1, <1>3, <1>4 DEF Finished
  <1>6. p = Parent => ByOwner(d, t)
    BY <1>3, <1>4 DEF ByOwner, CachedPid, TaskNumber, UINT16_TO_BE
  <1> QED  BY <1>3, <1>5, <1>6 DEF d

\* A context that is finished is there, and knows what to call.
LEMMA FinishedContext ==
  ASSUME NEW c \in Context, Finished(c), NEW p \in Nat
  PROVE  /\ c # NoContext
         /\ c.get_seq \in {"plain", "threadsafe"}
         /\ oid_get_pid(c, p) \in Pair
  BY LowBytesType DEF Finished, NoContext, Sequence, oid_get_pid, UINT16_TO_BE

\* A call changes one counter and nothing else.
LEMMA CounterOnly ==
  ASSUME NEW c \in Context, NEW kind \in Kinds, NEW n \in Nat
  PROVE  /\ WithSeq(c, kind, n) \in Context /\ SeqOf(WithSeq(c, kind, n), kind) = n
         /\ SeqOf(c, kind) \in Nat
         /\ WithSeq(c, kind, n).flags = c.flags /\ WithSeq(c, kind, n).get_seq = c.get_seq
         /\ Finished(c) => Finished(WithSeq(c, kind, n))
         /\ \A owner : ByOwner(c, owner) => ByOwner(WithSeq(c, kind, n), owner)
         /\ \A p : oid_get_pid(WithSeq(c, kind, n), p) = oid_get_pid(c, p)
  <1> DEFINE d == WithSeq(c, kind, n)
  <1>1. /\ d \in Context /\ SeqOf(d, kind) = n /\ SeqOf(c, kind) \in Nat
        /\ d.flags = c.flags /\ d.get_host = c.get_host /\ d.get_pid = c.get_pid
        /\ d.get_seq = c.get_seq /\ d.pidbe = c.pidbe
    BY DEF Context, WithSeq, SeqOf, Kinds
  <1> HIDE DEF d
  <1>2. Finished(c) => Finished(d)
    BY <1>1 DEF Finished
  <1>3. \A owner : ByOwner(c, owner) => ByOwner(d, owner)
    BY <1>1 DEF ByOwner
  <1>4. \A p : oid_get_pid(d, p) = oid_get_pid(c, p)
    BY <1>1 DEF oid_get_pid
  <1> QED  BY <1>1, <1>2, <1>3, <1>4 DEF d
-----------------------------------------------------------------------------
(* Types.                                                                  *)

LEMMA ThreadFields ==
  ASSUME Types, NEW t \in Tasks
  PROVE  /\ thread[t] \in Thread
         /\ Proc(t) \in {0} \cup Processes /\ thread[t].owns \subseteq Owners
         /\ thread[t].kind \in Kinds /\ thread[t].ctx \in Contexts
         /\ thread[t].time \in 0 .. MaxClock /\ thread[t].md5 \in {0, 1}
         /\ thread[t].pid \in {<<>>} \cup Pair
         /\ thread[t].seq \in Nat /\ thread[t].known \in Nat
         /\ Proc(t) # 0 => Proc(t) \in Processes /\ Ctx(t) \in Context /\ Proc(t) \in Nat
  <1>1. thread[t] \in Thread
    BY DEF Types
  <1>2. /\ Proc(t) \in {0} \cup Processes /\ thread[t].owns \subseteq Owners
        /\ thread[t].kind \in Kinds /\ thread[t].ctx \in Contexts
        /\ thread[t].time \in 0 .. MaxClock /\ thread[t].md5 \in {0, 1}
        /\ thread[t].pid \in {<<>>} \cup Pair
        /\ thread[t].seq \in Nat /\ thread[t].known \in Nat
    BY <1>1 DEF Thread, Proc
  <1>3. Proc(t) # 0 => Proc(t) \in Processes /\ Ctx(t) \in Context /\ Proc(t) \in Nat
    <2> SUFFICES ASSUME Proc(t) # 0
                 PROVE  Proc(t) \in Processes /\ Ctx(t) \in Context /\ Proc(t) \in Nat
      OBVIOUS
    <2>1. Proc(t) \in Processes
      BY <1>2
    <2>2. Ctx(t) \in Context
      BY <1>2, <2>1 DEF Types, Ctx
    <2>3. Proc(t) \in Nat
      BY <2>1, Numbers
    <2> QED  BY <2>1, <2>2, <2>3
  <1> QED  BY <1>1, <1>2, <1>3

LEMMA IdleType ==
  ASSUME NEW p \in {0} \cup Processes, NEW owns \in SUBSET Owners, NEW kind \in Kinds
  PROVE  /\ Idle(p, owns, kind) \in Thread
         /\ Idle(p, owns, kind).proc = p /\ Idle(p, owns, kind).owns = owns
         /\ Idle(p, owns, kind).kind = kind /\ Idle(p, owns, kind).pc = "idle"
         /\ Idle(p, owns, kind).time = 0 /\ Idle(p, owns, kind).known = 0
  BY Numbers, BoundsAssumption DEF Idle, Thread

LEMMA TwoAndTwo ==
  ASSUME NEW a \in Nat, NEW b \in Nat, NEW c \in Nat, NEW d \in Nat
  PROVE  /\ <<a, b>> \o <<c, d>> \in Seq(Nat) /\ Len(<<a, b>> \o <<c, d>>) = 4
         /\ (<<a, b>> \o <<c, d>>)[1] = a /\ (<<a, b>> \o <<c, d>>)[2] = b
         /\ (<<a, b>> \o <<c, d>>)[3] = c /\ (<<a, b>> \o <<c, d>>)[4] = d
  <1>1. /\ <<a, b>> \in Seq(Nat) /\ Len(<<a, b>>) = 2
        /\ <<c, d>> \in Seq(Nat) /\ Len(<<c, d>>) = 2
    OBVIOUS
  <1> QED  BY <1>1, ConcatProperties

LEMMA OneAndTwo ==
  ASSUME NEW a \in Nat, NEW c \in Nat, NEW d \in Nat
  PROVE  /\ <<a>> \o <<c, d>> \in Seq(Nat) /\ Len(<<a>> \o <<c, d>>) = 3
         /\ (<<a>> \o <<c, d>>)[1] = a
         /\ (<<a>> \o <<c, d>>)[2] = c /\ (<<a>> \o <<c, d>>)[3] = d
  <1>1. /\ <<a>> \in Seq(Nat) /\ Len(<<a>>) = 1
        /\ <<c, d>> \in Seq(Nat) /\ Len(<<c, d>>) = 2
    OBVIOUS
  <1> QED  BY <1>1, ConcatProperties

LEMMA Appended ==
  ASSUME NEW S, NEW s \in Seq(S), NEW x \in S, NEW n, n = Len(s)
  PROVE  /\ Append(s, x) \in Seq(S) /\ n \in Nat /\ Len(Append(s, x)) = n + 1
         /\ Append(s, x)[n + 1] = x /\ \A i \in 1 .. n : Append(s, x)[i] = s[i]
  OBVIOUS

LEMMA FourAndOne ==
  ASSUME NEW s \in Seq(Nat), Len(s) = 4, NEW x \in Nat
  PROVE  /\ Append(s, x) \in Seq(Nat) /\ Len(Append(s, x)) = 5 /\ Append(s, x)[5] = x
         /\ \A i \in 1 .. 4 : Append(s, x)[i] = s[i]
  <1>1. PICK n : n = Len(s)
    OBVIOUS
  <1>2. /\ Append(s, x) \in Seq(Nat) /\ Len(Append(s, x)) = n + 1
        /\ Append(s, x)[n + 1] = x /\ \A i \in 1 .. n : Append(s, x)[i] = s[i]
    BY ONLY s \in Seq(Nat), x \in Nat, <1>1, Appended
  <1> QED  BY <1>1, <1>2

\* The bytes of an ObjectID.
LEMMA OidShape ==
  ASSUME NEW th \in Thread, NEW seq \in Nat, th.kind = "oid" => th.pid \in Pair
  PROVE  /\ OidBytes(th, seq) \in Seq(Nat)
         /\ OidBytes(th, seq)[1] = th.time
         /\ th.kind = "oid" =>
              /\ Len(OidBytes(th, seq)) = 5 /\ OidBytes(th, seq)[2] = th.md5
              /\ OidBytes(th, seq)[3] = th.pid[1] /\ OidBytes(th, seq)[4] = th.pid[2]
              /\ OidBytes(th, seq)[5] = seq % Digits
         /\ th.kind = "sequence" =>
              /\ Len(OidBytes(th, seq)) = 3
              /\ OidBytes(th, seq)[2] = seq \div Digits /\ OidBytes(th, seq)[3] = seq % Digits
  <1>1. seq % Digits \in Nat /\ seq \div Digits \in Nat
    BY DigitOf
  <1>2. th.time \in Nat /\ th.md5 \in Nat /\ th.kind \in Kinds
    BY BoundsAssumption DEF Thread
  <1>3. CASE th.kind = "oid"
    <2>1. PICK a \in Field, b \in Field : th.pid = <<a, b>>
      BY <1>3 DEF Pair
    <2>2. a \in Nat /\ b \in Nat
      BY <2>1, DigitsAssumption DEF Field
    <2> DEFINE front == <<th.time, th.md5>> \o th.pid
               last == seq % Digits
               bytes == Append(front, last)
    <2>3. /\ front \in Seq(Nat) /\ Len(front) = 4
          /\ front[1] = th.time /\ front[2] = th.md5 /\ front[3] = a /\ front[4] = b
      BY <1>2, <2>1, <2>2, TwoAndTwo
    <2>4. OidBytes(th, seq) = bytes
      BY <1>1, <1>3, <2>3, AppendIsConcat DEF OidBytes, OidSeq32
    <2>5. last \in Nat
      BY <1>1
    <2> HIDE DEF front, last
    <2>6. /\ bytes \in Seq(Nat) /\ Len(bytes) = 5 /\ bytes[5] = last
          /\ \A i \in 1 .. 4 : bytes[i] = front[i]
      BY <2>3, <2>5, FourAndOne
    <2> QED  BY <1>3, <2>1, <2>3, <2>4, <2>6 DEF last
  <1>4. CASE th.kind = "sequence"
    <2>1. OidBytes(th, seq) = <<th.time>> \o <<seq \div Digits, seq % Digits>>
      BY <1>4 DEF OidBytes, OidSeq64
    <2> QED  BY <1>1, <1>2, <1>4, <2>1, OneAndTwo
  <1> QED  BY <1>2, <1>3, <1>4 DEF Kinds

LEMMA TypesInit == Init => Types
  <1> SUFFICES ASSUME Init
               PROVE  Types
    OBVIOUS
  <1>1. PICK kind \in Kinds :
          thread = [t \in Tasks |-> Idle(IF t \in Threads THEN Parent ELSE 0, {}, kind)]
    BY DEF Init, Kinds
  <1>2. thread \in [Tasks -> Thread]
    BY <1>1, IdleType, Numbers
  <1> QED  BY <1>2, Numbers, ContextTypes, BoundsAssumption DEF Init, Types

\* A step of one thread changes what that thread does.
LEMMA OneThread ==
  ASSUME Types, NEW t \in Tasks, NEW th \in Thread, thread' = [thread EXCEPT ![t] = th]
  PROVE  /\ thread' \in [Tasks -> Thread]
         /\ thread'[t] = th /\ \A u \in Tasks \ {t} : thread'[u] = thread[u]
  BY DEF Types

\* A step in one context changes that context.
LEMMA OneContext ==
  ASSUME Types, NEW p \in Processes, NEW c \in Contexts, NEW d \in Context,
         mem' = [mem EXCEPT ![p][c] = d]
  PROVE  /\ mem' \in [Processes -> [Contexts -> Context]]
         /\ mem'[p][c] = d
         /\ \A q \in Processes, e \in Contexts : <<q, e>> # <<p, c>> => mem'[q][e] = mem[q][e]
  BY DEF Types
\* The fields of an ObjectID are those of its context.
LEMMA MadeType ==
  ASSUME Types, NEW t \in Tasks, Proc(t) # 0, NEW seq \in Nat,
         thread[t].kind = "oid" => thread[t].pid \in Pair
  PROVE  [proc |-> Proc(t), ctx |-> thread[t].ctx, flags |-> Ctx(t).flags,
          kind |-> thread[t].kind, md5 |-> thread[t].md5, seq |-> seq,
          known |-> thread[t].known, bytes |-> OidBytes(thread[t], seq)] \in Oid
  <1>1. OidBytes(thread[t], seq) \in Seq(Nat)
    BY ThreadFields, OidShape
  <1>2. Ctx(t).flags \in SUBSET Flags
    BY ThreadFields DEF Context
  <1> QED  BY <1>1, <1>2, ThreadFields DEF Oid

\* What the last step of a call does, in an order without primes.
LEMMA CountedIs ==
  ASSUME Types, Places, Using, NEW t \in Tasks, thread[t].pc \in {"seq", "write"},
         NEW stored \in Nat, NEW seq \in Nat, Counted(t, stored, seq)
  PROVE  /\ Proc(t) \in Processes /\ Ctx(t) \in Context /\ Finished(Ctx(t))
         /\ WithSeq(Ctx(t), thread[t].kind, stored) \in Context
         /\ mem' = [mem EXCEPT ![Proc(t)][thread[t].ctx] =
                                 WithSeq(Ctx(t), thread[t].kind, stored)]
         /\ Idle(Proc(t), thread[t].owns, thread[t].kind) \in Thread
         /\ thread' = [thread EXCEPT ![t] = Idle(Proc(t), thread[t].owns, thread[t].kind)]
         /\ \E x \in Oid :
              /\ made' = Append(made, x)
              /\ x = [proc |-> Proc(t), ctx |-> thread[t].ctx, flags |-> Ctx(t).flags,
                      kind |-> thread[t].kind, md5 |-> thread[t].md5, seq |-> seq,
                      known |-> thread[t].known, bytes |-> OidBytes(thread[t], seq)]
         /\ UNCHANGED <<plan, clock, host, once>>
         /\ thread[t].kind = "oid" => thread[t].pid \in Pair
  <1>1. Proc(t) # 0
    BY DEF Places
  <1>2. /\ Proc(t) \in Processes /\ Ctx(t) \in Context /\ Finished(Ctx(t))
        /\ thread[t].kind \in Kinds /\ thread[t].ctx \in Contexts
        /\ thread[t].owns \subseteq Owners /\ Proc(t) \in Nat
    BY <1>1, ThreadFields DEF Using
  <1>3. WithSeq(Ctx(t), thread[t].kind, stored) \in Context
    BY <1>2, CounterOnly
  <1>4. Idle(Proc(t), thread[t].owns, thread[t].kind) \in Thread
    BY <1>2, IdleType
  <1>5. thread[t].kind = "oid" => thread[t].pid \in Pair
    BY <1>2, FinishedContext DEF Using
  <1>6. mem' = [mem EXCEPT ![Proc(t)][thread[t].ctx] = WithSeq(Ctx(t), thread[t].kind, stored)]
    BY <1>2 DEF Counted, Ctx, Types
  <1>7. [proc |-> Proc(t), ctx |-> thread[t].ctx, flags |-> Ctx(t).flags,
         kind |-> thread[t].kind, md5 |-> thread[t].md5, seq |-> seq,
         known |-> thread[t].known, bytes |-> OidBytes(thread[t], seq)] \in Oid
    BY <1>1, <1>5, MadeType
  <1> QED  BY <1>2, <1>3, <1>4, <1>5, <1>6, <1>7 DEF Counted

\* A thread that counts without synchronization has the context for itself.
LEMMA WriterOwns ==
  ASSUME Types, Places, Memory, Using, NEW t \in Tasks, thread[t].pc = "write"
  PROVE  thread[t].ctx \in thread[t].owns /\ Proc(t) # 0
  <1>1. Proc(t) # 0 /\ Ctx(t).get_seq = "plain" /\ Finished(Ctx(t))
    BY DEF Places, Using
  <1>2. "THREAD_SAFE" \notin Ctx(t).flags
    BY <1>1 DEF Finished, Sequence
  <1>3. thread[t].ctx = Default => once[Proc(t)] = "done" /\ Proc(t) \in Processes
    BY <1>1, ThreadFields DEF Using
  <1>4. thread[t].ctx = Default => Ctx(t).flags = DefaultFlags
    BY <1>3 DEF Memory, Ctx
  <1> QED  BY <1>1, <1>2, <1>4 DEF Using, DefaultFlags

\* The step that counts, with either kind of counter.
LEMMA CountingStep ==
  ASSUME Types, Places, Memory, Using, NEW t \in Tasks, SeqThreadsafe(t) \/ SeqWrite(t)
  PROVE  \E stored \in Nat, seq \in Nat :
           /\ Counted(t, stored, seq) /\ thread[t].pc \in {"seq", "write"}
           /\ \/ /\ Ctx(t).get_seq = "threadsafe"
                 /\ seq = SeqOf(Ctx(t), thread[t].kind) + 1 /\ stored = seq
              \/ /\ Ctx(t).get_seq = "plain"
                 /\ seq = SeqOf(Ctx(t), thread[t].kind) /\ stored = seq + 1
                 /\ thread[t].ctx \in thread[t].owns
  <1>1. thread[t].pc \in {"seq", "write"} /\ Proc(t) # 0
    BY DEF SeqThreadsafe, SeqWrite, At
  <1>2. SeqOf(Ctx(t), thread[t].kind) \in Nat
    BY <1>1, ThreadFields, CounterOnly
  <1>3. CASE SeqThreadsafe(t)
    BY <1>1, <1>2, <1>3 DEF SeqThreadsafe
  <1>4. CASE SeqWrite(t)
    <2>1. /\ Ctx(t).get_seq = "plain" /\ thread[t].seq = SeqOf(Ctx(t), thread[t].kind)
          /\ thread[t].ctx \in thread[t].owns
      BY <1>4, WriterOwns DEF SeqWrite, At, Using
    <2> QED  BY <1>1, <1>2, <1>4, <2>1 DEF SeqWrite
  <1> QED  BY <1>3, <1>4
\* A step in a call that changes nothing but what its thread does: what that is.
LEMMA CallStep ==
  ASSUME Types, Places, Using, NEW t \in Tasks,
         OnceReturns(t) \/ Begin(t) \/ Fields(t) \/ SeqRead(t)
  PROVE  /\ UNCHANGED <<plan, clock, host, mem, once, made>>
         /\ Proc(t) # 0
         /\ \E th \in Thread :
              /\ thread' = [thread EXCEPT ![t] = th]
              /\ th.proc = Proc(t) /\ th.owns = thread[t].owns /\ th.kind = thread[t].kind
              /\ th.pc \notin {"idle", "init"}
              /\ Begin(t) => thread[t].pc = "idle"
              /\ ~ Begin(t) => thread[t].pc # "idle"
              /\ OnceReturns(t) => th = [thread[t] EXCEPT !.pc = "fields"]
              /\ Begin(t) =>
                   /\ \E c \in DOMAIN plan : MayUse(t, c) /\ th.ctx = c
                   /\ th.time = clock /\ th.known = Len(made)
                   /\ th.pc = IF th.ctx = Default THEN "once" ELSE "fields"
              /\ Fields(t) =>
                   /\ th.ctx = thread[t].ctx /\ th.time = thread[t].time
                   /\ th.known = thread[t].known /\ th.pc = "seq"
                   /\ IF th.kind = "oid" THEN th.pid = oid_get_pid(Ctx(t), Proc(t))
                      ELSE th.md5 = 0
              /\ SeqRead(t) =>
                   th = [thread[t] EXCEPT !.pc = "write",
                                          !.seq = SeqOf(Ctx(t), thread[t].kind)]
  <1>1. Proc(t) # 0 /\ UNCHANGED <<plan, clock, host, mem, once, made>>
    BY DEF OnceReturns, Begin, Fields, SeqRead, At
  <1>2. /\ thread[t] \in Thread /\ Proc(t) = thread[t].proc
        /\ Proc(t) \in Nat /\ Ctx(t) \in Context
    BY <1>1, ThreadFields DEF Proc
  <1>3. thread \in [Tasks -> Thread]
    BY DEF Types
  <1>4. CASE OnceReturns(t)
    <2>1. thread' = [thread EXCEPT ![t] = [thread[t] EXCEPT !.pc = "fields"]]
      BY <1>3, <1>4 DEF OnceReturns, Goto
    <2>2. ~ Begin(t) /\ ~ Fields(t) /\ ~ SeqRead(t) /\ thread[t].pc = "once"
      BY <1>4 DEF OnceReturns, Begin, Fields, SeqRead, At
    <2>3. [thread[t] EXCEPT !.pc = "fields"] \in Thread
      BY <1>2 DEF Thread
    <2> QED  BY <1>1, <1>2, <2>1, <2>2, <2>3 DEF Thread
  <1>5. CASE Begin(t)
    <2>1. PICK c \in {d \in DOMAIN plan : MayUse(t, d)} :
            thread' = [thread EXCEPT ![t].ctx = c, ![t].time = clock, ![t].known = Len(made),
                                     ![t].pc = IF c = Default THEN "once" ELSE "fields"]
      BY <1>5 DEF Begin
    <2> DEFINE th == [thread[t] EXCEPT !.ctx = c, !.time = clock, !.known = Len(made),
                                       !.pc = IF c = Default THEN "once" ELSE "fields"]
    <2>2. c \in Contexts
      BY PlansAssumption DEF Types
    <2>3. Len(made) \in Nat /\ clock \in 0 .. MaxClock
      BY LenProperties DEF Types
    <2>4. th \in Thread
      BY <1>2, <2>2, <2>3 DEF Thread
    <2>5. thread' = [thread EXCEPT ![t] = th]
      BY <1>3, <2>1
    <2>6. ~ OnceReturns(t) /\ ~ Fields(t) /\ ~ SeqRead(t) /\ thread[t].pc = "idle"
      BY <1>5 DEF OnceReturns, Begin, Fields, SeqRead, At
    <2>7. /\ th.ctx = c /\ th.time = clock /\ th.known = Len(made)
          /\ th.pc = IF c = Default THEN "once" ELSE "fields"
          /\ th.proc = Proc(t) /\ th.owns = thread[t].owns /\ th.kind = thread[t].kind
      BY <1>2 DEF Thread
    <2> HIDE DEF th
    <2> QED  BY <1>1, <1>5, <2>4, <2>5, <2>6, <2>7
  <1>6. CASE Fields(t)
    <2>1. thread[t].pc = "fields" /\ ~ OnceReturns(t) /\ ~ Begin(t) /\ ~ SeqRead(t)
      BY <1>6 DEF OnceReturns, Begin, Fields, SeqRead, At
    <2> DEFINE md == IF thread[t].kind = "oid" THEN oid_get_host(Ctx(t)) ELSE 0
               pd == IF thread[t].kind = "oid" THEN oid_get_pid(Ctx(t), Proc(t)) ELSE <<>>
               th == [thread[t] EXCEPT !.pc = "seq", !.md5 = md, !.pid = pd]
    <2>2. md \in {0, 1}
      BY <1>2 DEF Types, Context, oid_get_host
    <2>3. pd \in {<<>>} \cup Pair
      BY <1>2, <2>1, FinishedContext DEF Using
    <2>4. thread' = [thread EXCEPT ![t] = th]
      BY <1>3, <1>6 DEF Fields
    <2>5. /\ th.pc = "seq" /\ th.md5 = md /\ th.pid = pd /\ th.ctx = thread[t].ctx
          /\ th.time = thread[t].time /\ th.known = thread[t].known
          /\ th.proc = Proc(t) /\ th.owns = thread[t].owns /\ th.kind = thread[t].kind
      BY <1>2 DEF Thread
    <2>6. IF th.kind = "oid" THEN th.pid = oid_get_pid(Ctx(t), Proc(t)) ELSE th.md5 = 0
      BY <2>5
    <2> HIDE DEF md, pd
    <2>7. th \in Thread
      BY <1>2, <2>2, <2>3 DEF Thread
    <2> HIDE DEF th
    <2> QED  BY <1>1, <1>6, <2>1, <2>4, <2>5, <2>6, <2>7
  <1>7. CASE SeqRead(t)
    <2>1. thread[t].pc = "seq" /\ ~ OnceReturns(t) /\ ~ Begin(t) /\ ~ Fields(t)
      BY <1>7 DEF OnceReturns, Begin, Fields, SeqRead, At
    <2> DEFINE n == SeqOf(Ctx(t), thread[t].kind)
               th == [thread[t] EXCEPT !.pc = "write", !.seq = n]
    <2>2. n \in Nat
      BY <1>2, ThreadFields, CounterOnly
    <2>3. thread' = [thread EXCEPT ![t] = th]
      BY <1>3, <1>7 DEF SeqRead
    <2>4. th = [thread[t] EXCEPT !.pc = "write", !.seq = SeqOf(Ctx(t), thread[t].kind)]
      OBVIOUS
    <2> HIDE DEF n
    <2>5. /\ th \in Thread /\ th.pc = "write"
          /\ th.proc = Proc(t) /\ th.owns = thread[t].owns /\ th.kind = thread[t].kind
      BY <1>2, <2>2 DEF Thread
    <2> HIDE DEF th
    <2> QED  BY <1>1, <1>7, <2>1, <2>3, <2>4, <2>5
  <1> QED  BY <1>4, <1>5, <1>6, <1>7
\* The other steps, likewise: the thread, or the context, that is put in place.
LEMMA NewStep ==
  ASSUME Types, Places, NEW t \in Tasks, bson_context_new(t)
  PROVE  /\ t \in Owners /\ Proc(t) = Parent /\ thread[t].pc = "idle" /\ Nothing
         /\ UNCHANGED <<plan, clock, host, once, made>>
         /\ \E d \in Context :
              /\ mem' = [mem EXCEPT ![Parent][t] = d]
              /\ Finished(d) /\ ByOwner(d, t)
         /\ \E th \in Thread :
              /\ thread' = [thread EXCEPT ![t] = th]
              /\ th = [thread[t] EXCEPT !.owns = thread[t].owns \cup {t}]
  <1>1. t \in Owners /\ t \in DOMAIN plan /\ Nothing
        /\ UNCHANGED <<plan, clock, host, once, made>>
    BY DEF bson_context_new
  <1>2. Proc(t) = Parent /\ thread[t].pc = "idle" /\ Parent \in Processes
    BY <1>1, Numbers DEF Places, Nothing, Pending
  <1>3. PICK seq \in Starts :
          mem' = [mem EXCEPT ![Proc(t)][t] = InitFlags(InitPlain(plan[t], seq), t, Proc(t))]
    BY DEF bson_context_new
  <1> DEFINE c == InitPlain(plan[t], seq)  d == InitFlags(c, t, Parent)
             th == [thread[t] EXCEPT !.owns = thread[t].owns \cup {t}]
  <1>4. /\ c \in Context /\ c.get_host = "cached" /\ c.get_pid = "cached"
        /\ t \in Nat /\ Parent \in Nat /\ host \in {0, 1}
    BY <1>1, ContextTypes, PlansAssumption, DigitsAssumption, Numbers DEF Types
  <1> HIDE DEF c
  <1>5. d \in Context /\ Finished(d) /\ ByOwner(d, t)
    BY <1>4, ContextFinished
  <1>6. mem' = [mem EXCEPT ![Parent][t] = d]
    BY <1>2, <1>3 DEF c
  <1> HIDE DEF d
  <1>7. thread[t] \in Thread
    BY DEF Types
  <1>8. th \in Thread
    BY <1>1, <1>7 DEF Thread
  <1>9. thread' = [thread EXCEPT ![t] = th]
    BY <1>7 DEF bson_context_new, Types
  <1> QED  BY <1>1, <1>2, <1>5, <1>6, <1>8, <1>9

LEMMA DestroyStep ==
  ASSUME Types, NEW t \in Tasks, bson_context_destroy(t)
  PROVE  /\ Proc(t) # 0 /\ Proc(t) \in Processes /\ thread[t].pc = "idle"
         /\ UNCHANGED <<plan, clock, host, once, made>>
         /\ \E c \in thread[t].owns :
              /\ c \in Owners
              /\ \A u \in Pending : Proc(u) = Proc(t) => thread[u].ctx # c
              /\ mem' = [mem EXCEPT ![Proc(t)][c] = NoContext]
              /\ \E th \in Thread :
                   /\ thread' = [thread EXCEPT ![t] = th]
                   /\ th = [thread[t] EXCEPT !.owns = thread[t].owns \ {c}]
  <1>1. Proc(t) # 0 /\ thread[t].pc = "idle" /\ UNCHANGED <<plan, clock, host, once, made>>
    BY DEF bson_context_destroy, At
  <1>2. thread[t] \in Thread /\ Proc(t) \in Processes /\ thread[t].owns \subseteq Owners
    BY <1>1, ThreadFields
  <1>3. PICK c \in thread[t].owns :
          /\ \A u \in Pending : Proc(u) = Proc(t) => thread[u].ctx # c
          /\ mem' = [mem EXCEPT ![Proc(t)][c] = NoContext]
          /\ thread' = [thread EXCEPT ![t].owns = @ \ {c}]
    BY DEF bson_context_destroy
  <1> DEFINE th == [thread[t] EXCEPT !.owns = thread[t].owns \ {c}]
  <1>4. th \in Thread
    BY <1>2 DEF Thread
  <1>5. thread' = [thread EXCEPT ![t] = th]
    BY <1>2, <1>3 DEF Types
  <1> QED  BY <1>1, <1>2, <1>3, <1>4, <1>5

LEMMA OnceBeginsStep ==
  ASSUME Types, NEW t \in Tasks, OnceBegins(t)
  PROVE  /\ Proc(t) \in Processes /\ thread[t].pc = "once" /\ once[Proc(t)] = "new"
         /\ UNCHANGED <<plan, clock, host, made>>
         /\ once' = [once EXCEPT ![Proc(t)] = "running"]
         /\ \E d \in Context :
              /\ mem' = [mem EXCEPT ![Proc(t)][Default] = d]
              /\ d.flags = DefaultFlags /\ d.get_host = "cached" /\ d.get_pid = "cached"
         /\ \E th \in Thread :
              /\ thread' = [thread EXCEPT ![t] = th]
              /\ th = [thread[t] EXCEPT !.pc = "init"]
  <1>1. thread[t] \in Thread /\ Proc(t) \in Processes /\ thread[t].pc = "once"
    BY ThreadFields DEF OnceBegins, At
  <1>2. PICK seq \in Starts : mem' = [mem EXCEPT ![Proc(t)][Default] = InitPlain(DefaultFlags, seq)]
    BY DEF OnceBegins
  <1>3. /\ InitPlain(DefaultFlags, seq) \in Context
        /\ InitPlain(DefaultFlags, seq).flags = DefaultFlags
        /\ InitPlain(DefaultFlags, seq).get_host = "cached"
        /\ InitPlain(DefaultFlags, seq).get_pid = "cached"
    BY ContextTypes, DigitsAssumption
  <1>4. [thread[t] EXCEPT !.pc = "init"] \in Thread
    BY <1>1 DEF Thread
  <1>5. thread' = [thread EXCEPT ![t] = [thread[t] EXCEPT !.pc = "init"]]
    BY <1>1 DEF OnceBegins, Goto, Types
  <1> QED  BY <1>1, <1>2, <1>3, <1>4, <1>5 DEF OnceBegins

LEMMA OnceEndsStep ==
  ASSUME Types, Memory, Using, NEW t \in Tasks, OnceEnds(t)
  PROVE  /\ Proc(t) \in Processes /\ thread[t].pc = "init" /\ once[Proc(t)] = "running"
         /\ UNCHANGED <<plan, clock, host, made>>
         /\ once' = [once EXCEPT ![Proc(t)] = "done"]
         /\ \E d \in Context :
              /\ mem' = [mem EXCEPT ![Proc(t)][Default] = d]
              /\ d.flags = DefaultFlags /\ Finished(d)
         /\ \E th \in Thread :
              /\ thread' = [thread EXCEPT ![t] = th]
              /\ th = [thread[t] EXCEPT !.pc = "once"]
  <1>1. /\ thread[t] \in Thread /\ Proc(t) \in Processes /\ Proc(t) \in Nat
        /\ thread[t].pc = "init" /\ once[Proc(t)] = "running"
    BY ThreadFields DEF OnceEnds, At, Using
  <1> DEFINE c == mem[Proc(t)][Default]  d == InitFlags(c, t, Proc(t))
  <1>2. /\ c \in Context /\ c.flags = DefaultFlags
        /\ c.get_host = "cached" /\ c.get_pid = "cached"
    BY <1>1, Numbers DEF Types, Memory
  <1>3. t \in Nat /\ host \in {0, 1}
    BY Numbers DEF Types
  <1> HIDE DEF c
  <1>4. d \in Context /\ d.flags = DefaultFlags /\ Finished(d)
    BY <1>1, <1>2, <1>3, ContextFinished
  <1>5. mem' = [mem EXCEPT ![Proc(t)][Default] = d]
    BY <1>1, Numbers DEF OnceEnds, Types, c
  <1>6. [thread[t] EXCEPT !.pc = "once"] \in Thread
    BY <1>1 DEF Thread
  <1>7. thread' = [thread EXCEPT ![t] = [thread[t] EXCEPT !.pc = "once"]]
    BY <1>1 DEF OnceEnds, Goto, Types
  <1> HIDE DEF d
  <1> QED  BY <1>1, <1>4, <1>5, <1>6, <1>7 DEF OnceEnds, OnceDone

LEMMA ForkStep ==
  ASSUME Types, NEW t \in Tasks, Fork(t)
  PROVE  /\ Proc(t) \in Processes /\ thread[t].pc = "idle"
         /\ UNCHANGED <<plan, clock, host, made>>
         /\ \E p \in Children :
              /\ Proc(p) = 0
              /\ mem' = [mem EXCEPT ![p] = mem[Proc(t)]]
              /\ once' = [once EXCEPT ![p] = IF once[Proc(t)] = "running" THEN "new"
                                             ELSE once[Proc(t)]]
              /\ \E th \in Thread :
                   /\ thread' = [thread EXCEPT ![p] = th]
                   /\ th = Idle(p, thread[t].owns, thread[t].kind)
  <1>1. Proc(t) \in Processes /\ thread[t].pc = "idle" /\ UNCHANGED <<plan, clock, host, made>>
    BY ThreadFields DEF Fork, At
  <1>2. PICK p \in Children :
          /\ Proc(p) = 0
          /\ mem' = [mem EXCEPT ![p] = mem[Proc(t)]]
          /\ once' = [once EXCEPT ![p] = IF once[Proc(t)] = "running" THEN "new"
                                         ELSE once[Proc(t)]]
          /\ thread' = [thread EXCEPT ![p] = Idle(p, thread[t].owns, thread[t].kind)]
    BY DEF Fork
  <1>3. Idle(p, thread[t].owns, thread[t].kind) \in Thread
    BY ThreadFields, IdleType, Numbers
  <1> QED  BY <1>1, <1>2, <1>3

LEMMA TypesNext ==
  ASSUME Types, Places, Memory, Using, [Next]_vars
  PROVE  Types'
  <1>1. ASSUME NEW t \in Tasks, SeqThreadsafe(t) \/ SeqWrite(t)
        PROVE  Types'
    <2>1. PICK stored \in Nat, seq \in Nat :
            Counted(t, stored, seq) /\ thread[t].pc \in {"seq", "write"}
      BY <1>1, CountingStep
    <2>2. PICK x \in Oid : made' = Append(made, x)
      BY <2>1, CountedIs
    <2>3. made' \in Seq(Oid)
      BY <2>2, Appended DEF Types
    <2>4. thread' \in [Tasks -> Thread] /\ mem' \in [Processes -> [Contexts -> Context]]
      BY <2>1, CountedIs, OneThread, OneContext, ThreadFields
    <2> QED  BY <2>1, <2>3, <2>4, CountedIs DEF Types
  <1>2. ASSUME NEW t \in Tasks, OnceReturns(t) \/ Begin(t) \/ Fields(t) \/ SeqRead(t)
        PROVE  Types'
    <2>1. thread' \in [Tasks -> Thread]
      BY <1>2, CallStep, OneThread
    <2> QED  BY <1>2, <2>1, CallStep DEF Types
  <1>3. ASSUME NEW t \in Tasks, bson_context_new(t)
        PROVE  Types'
    <2>1. thread' \in [Tasks -> Thread] /\ mem' \in [Processes -> [Contexts -> Context]]
      BY <1>3, NewStep, OneThread, OneContext, Numbers
    <2> QED  BY <1>3, <2>1, NewStep DEF Types
  <1>4. ASSUME NEW t \in Tasks, bson_context_destroy(t)
        PROVE  Types'
    <2>1. thread' \in [Tasks -> Thread] /\ mem' \in [Processes -> [Contexts -> Context]]
      BY <1>4, DestroyStep, OneThread, OneContext, Numbers, ContextTypes
    <2> QED  BY <1>4, <2>1, DestroyStep DEF Types
  <1>5. ASSUME NEW t \in Tasks, OnceBegins(t)
        PROVE  Types'
    <2>1. thread' \in [Tasks -> Thread] /\ mem' \in [Processes -> [Contexts -> Context]]
      BY <1>5, OnceBeginsStep, OneThread, OneContext, Numbers
    <2> QED  BY <1>5, <2>1, OnceBeginsStep DEF Types
  <1>6. ASSUME NEW t \in Tasks, OnceEnds(t)
        PROVE  Types'
    <2>1. thread' \in [Tasks -> Thread] /\ mem' \in [Processes -> [Contexts -> Context]]
      BY <1>6, OnceEndsStep, OneThread, OneContext, Numbers
    <2> QED  BY <1>6, <2>1, OnceEndsStep DEF Types
  <1>7. ASSUME NEW t \in Tasks, Fork(t)
        PROVE  Types'
    <2>1. PICK p \in Children :
              /\ mem' = [mem EXCEPT ![p] = mem[Proc(t)]]
              /\ once' = [once EXCEPT ![p] = IF once[Proc(t)] = "running" THEN "new"
                                             ELSE once[Proc(t)]]
              /\ \E th \in Thread : thread' = [thread EXCEPT ![p] = th]
      BY <1>7, ForkStep
    <2>2. p \in Tasks
      BY Numbers
    <2>3. thread' \in [Tasks -> Thread]
      BY <2>1, <2>2, OneThread
    <2> QED  BY <1>7, <2>1, <2>3, ForkStep DEF Types
  <1>8. CASE Tick \/ Rename
    <2>1. clock' \in 0 .. MaxClock /\ host' \in {0, 1}
      BY <1>8, BoundsAssumption DEF Tick, Rename, Types
    <2> QED  BY <1>8, <2>1 DEF Tick, Rename, Types
  <1>9. CASE UNCHANGED vars
    BY <1>9 DEF vars, Types
  <1> QED
    BY <1>1, <1>2, <1>3, <1>4, <1>5, <1>6, <1>7, <1>8, <1>9
       DEF Next, Step, Call
-----------------------------------------------------------------------------
(* Places, and the bound on the calls.                                     *)

\* A step of a thread that leaves its place.
LEMMA PlaceKept ==
  ASSUME Types, Places, NEW t \in Tasks, NEW th \in Thread,
         thread' = [thread EXCEPT ![t] = th],
         th.proc = Proc(t), th.kind = thread[t].kind, th.owns \subseteq thread[t].owns,
         Proc(t) = 0 => th.pc = "idle"
  PROVE  Places'
  <1>1. thread'[t] = th /\ \A u \in Tasks \ {t} : thread'[u] = thread[u]
    BY OneThread
  <1> QED  BY <1>1, Numbers DEF Places, Proc

LEMMA PlacesNext ==
  ASSUME Types, Places, Memory, Using, [Next]_vars
  PROVE  Places'
  <1>1. ASSUME NEW t \in Tasks, SeqThreadsafe(t) \/ SeqWrite(t)
        PROVE  Places'
    <2>1. PICK stored \in Nat, seq \in Nat :
            Counted(t, stored, seq) /\ thread[t].pc \in {"seq", "write"}
      BY <1>1, CountingStep
    <2> DEFINE th == Idle(Proc(t), thread[t].owns, thread[t].kind)
    <2>2. th \in Thread /\ thread' = [thread EXCEPT ![t] = th]
      BY <2>1, CountedIs
    <2>3. /\ th.proc = Proc(t) /\ th.kind = thread[t].kind /\ th.owns \subseteq thread[t].owns
          /\ th.pc = "idle"
      BY DEF Idle
    <2> HIDE DEF th
    <2> QED  BY <2>2, <2>3, PlaceKept
  <1>2. ASSUME NEW t \in Tasks, OnceReturns(t) \/ Begin(t) \/ Fields(t) \/ SeqRead(t)
        PROVE  Places'
    <2>1. PICK th \in Thread :
            /\ thread' = [thread EXCEPT ![t] = th] /\ Proc(t) # 0
            /\ th.proc = Proc(t) /\ th.owns = thread[t].owns /\ th.kind = thread[t].kind
      BY <1>2, CallStep
    <2> QED  BY <2>1, PlaceKept
  <1>3. ASSUME NEW t \in Tasks, bson_context_new(t)
        PROVE  Places'
    <2>1. PICK th \in Thread :
            /\ thread' = [thread EXCEPT ![t] = th]
            /\ th = [thread[t] EXCEPT !.owns = thread[t].owns \cup {t}]
      BY <1>3, NewStep
    <2>2. th.proc = Proc(t) /\ th.kind = thread[t].kind /\ th.owns = thread[t].owns \cup {t}
          /\ Proc(t) = Parent /\ t \in Threads
      BY <1>3, <2>1, NewStep, ThreadFields, Numbers DEF Thread, Proc
    <2>3. thread'[t] = th /\ \A u \in Tasks \ {t} : thread'[u] = thread[u]
      BY <2>1, OneThread
    <2> QED  BY <2>2, <2>3, Numbers DEF Places, Proc
  <1>4. ASSUME NEW t \in Tasks, bson_context_destroy(t)
        PROVE  Places'
    <2>1. PICK c \in thread[t].owns, th \in Thread :
            /\ thread' = [thread EXCEPT ![t] = th] /\ Proc(t) # 0
            /\ th = [thread[t] EXCEPT !.owns = thread[t].owns \ {c}]
      BY <1>4, DestroyStep
    <2>2. th.proc = Proc(t) /\ th.kind = thread[t].kind /\ th.owns \subseteq thread[t].owns
      BY <2>1, ThreadFields DEF Thread, Proc
    <2> QED  BY <2>1, <2>2, PlaceKept
  <1>5. ASSUME NEW t \in Tasks, OnceBegins(t) \/ OnceEnds(t)
        PROVE  Places'
    <2>1. PICK th \in Thread, pc \in {"init", "once"} :
            thread' = [thread EXCEPT ![t] = th] /\ th = [thread[t] EXCEPT !.pc = pc]
      BY <1>5, OnceBeginsStep, OnceEndsStep
    <2>2. /\ th.proc = Proc(t) /\ th.kind = thread[t].kind /\ th.owns \subseteq thread[t].owns
          /\ Proc(t) # 0
      BY <1>5, <2>1, ThreadFields DEF Thread, Proc, OnceBegins, OnceEnds, At
    <2> QED  BY <2>1, <2>2, PlaceKept
  <1>6. ASSUME NEW t \in Tasks, Fork(t)
        PROVE  Places'
    <2>1. PICK p \in Children, th \in Thread :
            /\ thread' = [thread EXCEPT ![p] = th]
            /\ th = Idle(p, thread[t].owns, thread[t].kind)
      BY <1>6, ForkStep
    <2>2. p \in Tasks /\ th.proc = p /\ th.kind = thread[t].kind /\ th.pc = "idle"
      BY <2>1, Numbers DEF Idle
    <2>3. thread'[p] = th /\ \A u \in Tasks \ {p} : thread'[u] = thread[u]
      BY <2>1, <2>2, OneThread
    <2> QED  BY <2>2, <2>3, Numbers DEF Places, Proc
  <1>7. CASE UNCHANGED thread
    BY <1>7 DEF Places, Proc
  <1> QED
    BY <1>1, <1>2, <1>3, <1>4, <1>5, <1>6, <1>7 DEF Next, Step, Call, Tick, Rename, vars

\* The calls that have not returned are finitely many.
LEMMA PendingFinite ==
  IsFiniteSet(Pending) /\ Cardinality(Pending) \in Nat
  <1>1. Pending \subseteq Tasks
    BY DEF Pending
  <1>2. IsFiniteSet(Pending)
    BY <1>1, TasksFinite, FS_Subset
  <1> QED  BY <1>2, FS_CardinalityType

\* Of one thread's step the bound sees whether it begins or ends a call.
LEMMA PendingStep ==
  ASSUME Types, NEW t \in Tasks, NEW th \in Thread, thread' = [thread EXCEPT ![t] = th]
  PROVE  /\ thread[t].pc # "idle" /\ th.pc = "idle" =>
              Cardinality(Pending') = Cardinality(Pending) - 1
         /\ thread[t].pc = "idle" /\ th.pc # "idle" =>
              Cardinality(Pending') = Cardinality(Pending) + 1
         /\ (thread[t].pc = "idle") = (th.pc = "idle") =>
              Cardinality(Pending') = Cardinality(Pending)
  <1>1. thread'[t] = th /\ \A u \in Tasks \ {t} : thread'[u] = thread[u]
    BY OneThread
  <1>2. CASE thread[t].pc # "idle" /\ th.pc = "idle"
    <2>1. Pending' = Pending \ {t} /\ t \in Pending
      BY <1>1, <1>2 DEF Pending
    <2> QED  BY <1>2, <2>1, PendingFinite, FS_RemoveElement
  <1>3. CASE thread[t].pc = "idle" /\ th.pc # "idle"
    <2>1. Pending' = Pending \cup {t} /\ t \notin Pending
      BY <1>1, <1>3 DEF Pending
    <2> QED  BY <1>3, <2>1, PendingFinite, FS_AddElement
  <1>4. CASE (thread[t].pc = "idle") = (th.pc = "idle")
    <2>1. Pending' = Pending
      BY <1>1, <1>4 DEF Pending
    <2> QED  BY <1>4, <2>1
  <1> QED  BY <1>2, <1>3, <1>4

LEMMA PlanStays == [Next]_vars => plan' = plan
  BY DEF Next, Step, Call, Tick, Rename, vars, bson_context_new, bson_context_destroy, Begin,
         Fork, OnceBegins, OnceEnds, OnceReturns, Fields, SeqThreadsafe, SeqRead, SeqWrite,
         Counted

LEMMA BoundedNext ==
  ASSUME Types, Places, Memory, Using, Bounded, [Next]_vars
  PROVE  Bounded'
  <1>0. Len(made) \in Nat /\ Cardinality(Pending) \in Nat
    BY LenProperties, PendingFinite DEF Types
  <1>7. plan' = plan /\ MaxOids[plan] \in Nat
    BY PlanStays, BoundsAssumption DEF Types
  <1>1. ASSUME NEW t \in Tasks, SeqThreadsafe(t) \/ SeqWrite(t)
        PROVE  Bounded'
    <2>1. PICK stored \in Nat, seq \in Nat :
            Counted(t, stored, seq) /\ thread[t].pc \in {"seq", "write"}
      BY <1>1, CountingStep
    <2>2. PICK th \in Thread : thread' = [thread EXCEPT ![t] = th] /\ th.pc = "idle"
      BY <2>1, CountedIs DEF Idle
    <2>3. PICK x \in Oid : made' = Append(made, x)
      BY <2>1, CountedIs
    <2>4. Len(made') = Len(made) + 1
      BY <2>3, Appended DEF Types
    <2>5. Cardinality(Pending') = Cardinality(Pending) - 1
      BY <2>1, <2>2, PendingStep
    <2> QED  BY <1>0, <1>7, <2>4, <2>5 DEF Bounded
  <1>2. ASSUME NEW t \in Tasks, OnceReturns(t) \/ Begin(t) \/ Fields(t) \/ SeqRead(t)
        PROVE  Bounded'
    <2>1. PICK th \in Thread :
            /\ thread' = [thread EXCEPT ![t] = th] /\ made' = made
            /\ th.pc # "idle" /\ (Begin(t) => thread[t].pc = "idle")
            /\ (~ Begin(t) => thread[t].pc # "idle")
      BY <1>2, CallStep
    <2>2. CASE Begin(t)
      <3>1. Len(made) + Cardinality(Pending) < MaxOids[plan]
        BY <2>2 DEF Begin
      <3>2. Cardinality(Pending') = Cardinality(Pending) + 1
        BY <2>1, <2>2, PendingStep
      <3> QED  BY <1>0, <1>7, <2>1, <3>1, <3>2 DEF Bounded
    <2>3. CASE ~ Begin(t)
      <3>1. Cardinality(Pending') = Cardinality(Pending)
        BY <2>1, <2>3, PendingStep
      <3> QED  BY <1>0, <1>7, <2>1, <3>1 DEF Bounded
    <2> QED  BY <2>2, <2>3
  <1>3. ASSUME NEW t \in Tasks, bson_context_new(t) \/ bson_context_destroy(t)
        PROVE  Bounded'
    <2>1. PICK th \in Thread, owns \in SUBSET Owners :
            /\ thread' = [thread EXCEPT ![t] = th]
            /\ th = [thread[t] EXCEPT !.owns = owns] /\ made' = made
      <3>1. thread[t].owns \subseteq Owners
        BY ThreadFields
      <3>2. CASE bson_context_new(t)
        <4>1. thread[t].owns \cup {t} \in SUBSET Owners
          BY <3>1, <3>2 DEF bson_context_new
        <4> QED  BY <3>2, <4>1, NewStep
      <3>3. CASE bson_context_destroy(t)
        <4>1. PICK c \in thread[t].owns, th \in Thread :
                /\ thread' = [thread EXCEPT ![t] = th]
                /\ th = [thread[t] EXCEPT !.owns = thread[t].owns \ {c}] /\ made' = made
          BY <3>3, DestroyStep
        <4>2. thread[t].owns \ {c} \in SUBSET Owners
          BY <3>1
        <4> QED  BY <4>1, <4>2
      <3> QED  BY <1>3, <3>2, <3>3
    <2>2. th.pc = thread[t].pc
      BY <2>1, ThreadFields DEF Thread
    <2>3. Cardinality(Pending') = Cardinality(Pending)
      BY <2>1, <2>2, PendingStep
    <2> QED  BY <1>0, <1>7, <2>1, <2>3 DEF Bounded
  <1>4. ASSUME NEW t \in Tasks, OnceBegins(t) \/ OnceEnds(t)
        PROVE  Bounded'
    <2>1. PICK th \in Thread, pc \in {"init", "once"} :
            /\ thread' = [thread EXCEPT ![t] = th] /\ th = [thread[t] EXCEPT !.pc = pc]
            /\ made' = made /\ thread[t].pc # "idle"
      BY <1>4, OnceBeginsStep, OnceEndsStep
    <2>2. th.pc # "idle"
      BY <2>1, ThreadFields DEF Thread
    <2>3. Cardinality(Pending') = Cardinality(Pending)
      BY <2>1, <2>2, PendingStep
    <2> QED  BY <1>0, <1>7, <2>1, <2>3 DEF Bounded
  <1>5. ASSUME NEW t \in Tasks, Fork(t)
        PROVE  Bounded'
    <2>1. PICK p \in Children, th \in Thread :
            /\ thread' = [thread EXCEPT ![p] = th] /\ made' = made /\ Proc(p) = 0
            /\ th = Idle(p, thread[t].owns, thread[t].kind)
      BY <1>5, ForkStep
    <2>2. p \in Tasks /\ th.pc = "idle" /\ thread[p].pc = "idle"
      BY <2>1, Numbers DEF Idle, Places
    <2>3. Cardinality(Pending') = Cardinality(Pending)
      BY <2>1, <2>2, PendingStep
    <2> QED  BY <1>0, <1>7, <2>1, <2>3 DEF Bounded
  <1>6. CASE UNCHANGED <<thread, made>>
    <2>1. Pending' = Pending
      BY <1>6 DEF Pending
    <2> QED  BY <1>7, <1>6, <2>1 DEF Bounded
  <1> QED
    BY <1>1, <1>2, <1>3, <1>4, <1>5, <1>6 DEF Next, Step, Call, Tick, Rename, vars
-----------------------------------------------------------------------------
(* The contexts.                                                           *)

\* What one process and one owner's place in it have to say for Memory.
Sound(o, c) ==
  /\ o = "done" => Finished(c)
  /\ o # "new" => c.flags = DefaultFlags
  /\ o = "running" => c.get_host = "cached" /\ c.get_pid = "cached"

Owned(c, owner) == c = NoContext \/ (Finished(c) /\ ByOwner(c, owner))

LEMMA MemoryIs ==
  Memory <=>
    /\ \A p \in Processes, c \in Owners : Owned(mem[p][c], c)
    /\ \A p \in Processes : Sound(once[p], mem[p][Default])
    /\ \A t \in Tasks : Proc(t) # 0 => \A c \in thread[t].owns : Finished(mem[Proc(t)][c])
  BY DEF Memory, Owned, Sound

\* A step that changes memory, place by place.
LEMMA MemoryKept ==
  ASSUME Memory,
         \A q \in Processes, c \in Owners : mem'[q][c] = mem[q][c] \/ Owned(mem'[q][c], c),
         \A q \in Processes :
           \/ mem'[q][Default] = mem[q][Default] /\ once'[q] = once[q]
           \/ Sound(once'[q], mem'[q][Default]),
         \A u \in Tasks : thread'[u].proc # 0 =>
           \A c \in thread'[u].owns :
             \/ /\ thread'[u].proc = Proc(u) /\ c \in thread[u].owns
                /\ mem'[Proc(u)][c] = mem[Proc(u)][c]
             \/ Finished(mem'[thread'[u].proc][c])
  PROVE  Memory'
  <1>1. \A q \in Processes, c \in Owners : Owned(mem'[q][c], c)
    BY MemoryIs
  <1>2. \A q \in Processes : Sound(once'[q], mem'[q][Default])
    BY MemoryIs
  <1>3. \A u \in Tasks : thread'[u].proc # 0 =>
           \A c \in thread'[u].owns : Finished(mem'[thread'[u].proc][c])
    BY MemoryIs
  <1> QED  BY <1>1, <1>2, <1>3 DEF Memory, Owned, Sound, Proc

\* The same for a step of one thread in one context, which it has or which is its own.
LEMMA MemoryChanged ==
  ASSUME Types, Memory, NEW t \in Tasks, Proc(t) \in Processes,
         NEW k \in Contexts,
         \A q \in Processes, e \in Contexts : q # Proc(t) \/ e # k => mem'[q][e] = mem[q][e],
         \A q \in Processes \ {Proc(t)} : once'[q] = once[q],
         \A u \in Tasks \ {t} : thread'[u] = thread[u],
         thread'[t].proc = Proc(t), thread'[t].owns \ {k} \subseteq thread[t].owns,
         thread'[t].owns \subseteq Owners,
         IF k = Default THEN Sound(once'[Proc(t)], mem'[Proc(t)][k])
         ELSE Owned(mem'[Proc(t)][k], k) /\ once' = once,
         \A u \in Tasks : Proc(u) = Proc(t) /\ k \in thread'[u].owns =>
            Finished(mem'[Proc(t)][k])
  PROVE  Memory'
  <1>1. \A q \in Processes, c \in Owners : mem'[q][c] = mem[q][c] \/ Owned(mem'[q][c], c)
    BY Numbers
  <1>2. \A q \in Processes :
           \/ mem'[q][Default] = mem[q][Default] /\ once'[q] = once[q]
           \/ Sound(once'[q], mem'[q][Default])
    BY Numbers
  <1>3. ASSUME NEW u \in Tasks, thread'[u].proc # 0, NEW c \in thread'[u].owns
        PROVE  \/ /\ thread'[u].proc = Proc(u) /\ c \in thread[u].owns
                  /\ mem'[Proc(u)][c] = mem[Proc(u)][c]
               \/ Finished(mem'[thread'[u].proc][c])
    <2>1. thread'[u].proc = Proc(u) /\ thread'[u].owns \subseteq Owners
      BY ThreadFields DEF Proc
    <2>2. Proc(u) \in Processes /\ c \in Contexts
      BY <1>3, <2>1, ThreadFields, Numbers
    <2>3. CASE c = k /\ Proc(u) = Proc(t)
      BY <1>3, <2>1, <2>3
    <2>4. CASE ~ (c = k /\ Proc(u) = Proc(t))
      <3>1. mem'[Proc(u)][c] = mem[Proc(u)][c]
        BY <2>2, <2>4
      <3>2. CASE c \in thread[u].owns
        BY <2>1, <3>1, <3>2
      <3>3. CASE c \notin thread[u].owns
        <4>1. u = t
          BY <1>3, <3>3
        <4> QED  BY <1>3, <2>4, <3>3, <4>1
      <3> QED  BY <3>2, <3>3
    <2> QED  BY <2>3, <2>4
  <1> QED  BY <1>1, <1>2, <1>3, MemoryKept

\* A step that changes no context.
LEMMA MemoryStays ==
  ASSUME Types, Places, Memory, mem' = mem, once' = once,
         \A t \in Tasks : thread'[t].proc = Proc(t) /\ thread'[t].owns \subseteq thread[t].owns
  PROVE  Memory'
  <1>1. \A t \in Tasks : Proc(t)' = Proc(t)
    BY DEF Proc
  <1> QED  BY <1>1 DEF Memory

\* In a process a context has one owner.
LEMMA OneOwner ==
  ASSUME Types, Places, NEW t \in Tasks, NEW u \in Tasks, Proc(t) # 0, Proc(u) = Proc(t),
         NEW c, c \in thread[t].owns, c \in thread[u].owns
  PROVE  u = t
  BY Numbers DEF Places, Tasks

LEMMA MemoryNext ==
  ASSUME Types, Places, Memory, Using, [Next]_vars
  PROVE  Memory'
  <1>1. ASSUME NEW t \in Tasks, SeqThreadsafe(t) \/ SeqWrite(t)
        PROVE  Memory'
    <2>1. PICK stored \in Nat, seq \in Nat :
            Counted(t, stored, seq) /\ thread[t].pc \in {"seq", "write"}
      BY <1>1, CountingStep
    <2> DEFINE th == Idle(Proc(t), thread[t].owns, thread[t].kind)
               d == WithSeq(Ctx(t), thread[t].kind, stored)
    <2>2. /\ th \in Thread /\ thread' = [thread EXCEPT ![t] = th] /\ once' = once
          /\ Proc(t) \in Processes /\ d \in Context /\ Ctx(t) \in Context
          /\ mem' = [mem EXCEPT ![Proc(t)][thread[t].ctx] = d]
          /\ thread[t].ctx \in Contexts /\ thread[t].kind \in Kinds /\ Finished(Ctx(t))
      BY <2>1, CountedIs, ThreadFields
    <2>3. th.proc = Proc(t) /\ th.owns = thread[t].owns
      BY DEF Idle
    <2>4. /\ Finished(d) /\ d.flags = Ctx(t).flags
          /\ ByOwner(Ctx(t), thread[t].ctx) => ByOwner(d, thread[t].ctx)
      BY <2>2, CounterOnly
    <2>5. thread[t].ctx = Default => Sound(once[Proc(t)], d)
      <3>1. thread[t].ctx = Default => once[Proc(t)] = "done" /\ Ctx(t).flags = DefaultFlags
        BY <2>1, <2>2 DEF Using, Memory, Ctx
      <3> QED  BY <2>4, <3>1 DEF Sound
    <2>6. thread[t].ctx # Default => Owned(d, thread[t].ctx)
      <3>1. thread[t].ctx # Default => thread[t].ctx \in Owners
        BY <2>2 DEF Contexts
      <3>2. thread[t].ctx # Default => Ctx(t) = NoContext \/ ByOwner(Ctx(t), thread[t].ctx)
        BY <2>2, <3>1 DEF Memory, Ctx
      <3>3. Ctx(t) # NoContext
        BY <2>2, FinishedContext, Numbers
      <3> QED  BY <2>4, <3>2, <3>3 DEF Owned
    <2> HIDE DEF th, d
    <2>7. thread'[t] = th /\ \A u \in Tasks \ {t} : thread'[u] = thread[u]
      BY <2>2, OneThread
    <2>8. /\ mem'[Proc(t)][thread[t].ctx] = d
          /\ \A q \in Processes, e \in Contexts :
               q # Proc(t) \/ e # thread[t].ctx => mem'[q][e] = mem[q][e]
      BY <2>2 DEF Types
    <2> QED  BY <2>2, <2>3, <2>4, <2>5, <2>6, <2>7, <2>8, ThreadFields, MemoryChanged
  <1>2. ASSUME NEW t \in Tasks, OnceReturns(t) \/ Begin(t) \/ Fields(t) \/ SeqRead(t)
        PROVE  Memory'
    <2>1. PICK th \in Thread :
            /\ thread' = [thread EXCEPT ![t] = th] /\ mem' = mem /\ once' = once
            /\ th.proc = Proc(t) /\ th.owns = thread[t].owns
      BY <1>2, CallStep
    <2>2. \A u \in Tasks : thread'[u].proc = Proc(u) /\ thread'[u].owns \subseteq thread[u].owns
      BY <2>1, OneThread DEF Proc
    <2> QED  BY <2>1, <2>2, MemoryStays
  <1>3. ASSUME NEW t \in Tasks, bson_context_new(t)
        PROVE  Memory'
    <2>1. PICK d \in Context :
            mem' = [mem EXCEPT ![Parent][t] = d] /\ Finished(d) /\ ByOwner(d, t)
      BY <1>3, NewStep
    <2>2. PICK th \in Thread :
            /\ thread' = [thread EXCEPT ![t] = th]
            /\ th = [thread[t] EXCEPT !.owns = thread[t].owns \cup {t}]
      BY <1>3, NewStep
    <2>3. th.proc = Proc(t) /\ th.owns = thread[t].owns \cup {t}
      BY <2>2, ThreadFields DEF Thread, Proc
    <2>4. t \in Owners /\ t \in Contexts /\ t # Default /\ Proc(t) = Parent /\ once' = once
          /\ Parent \in Processes
      BY <1>3, NewStep, Numbers
    <2>5. Owned(d, t)
      BY <2>1 DEF Owned
    <2>6. thread'[t] = th /\ \A u \in Tasks \ {t} : thread'[u] = thread[u]
      BY <2>2, OneThread
    <2>7. /\ mem'[Parent][t] = d
          /\ \A q \in Processes, e \in Contexts :
               q # Parent \/ e # t => mem'[q][e] = mem[q][e]
      BY <2>1, <2>4 DEF Types
    <2> QED  BY <2>1, <2>3, <2>4, <2>5, <2>6, <2>7, ThreadFields, MemoryChanged
  <1>4. ASSUME NEW t \in Tasks, bson_context_destroy(t)
        PROVE  Memory'
    <2>1. PICK c \in thread[t].owns, th \in Thread :
            /\ mem' = [mem EXCEPT ![Proc(t)][c] = NoContext] /\ once' = once
            /\ thread' = [thread EXCEPT ![t] = th] /\ Proc(t) \in Processes
            /\ th = [thread[t] EXCEPT !.owns = thread[t].owns \ {c}] /\ c \in Owners
      BY <1>4, DestroyStep
    <2>2. th.proc = Proc(t) /\ th.owns = thread[t].owns \ {c}
      BY <2>1, ThreadFields DEF Thread, Proc
    <2>3. c \in Contexts /\ c # Default /\ NoContext \in Context
      BY <2>1, Numbers, ContextTypes
    <2>4. \A u \in Tasks \ {t} : ~ (Proc(u) = Proc(t) /\ c \in thread[u].owns)
      BY <2>1, OneOwner, Numbers
    <2>5. Owned(NoContext, c)
      BY DEF Owned
    <2>6. thread'[t] = th /\ \A u \in Tasks \ {t} : thread'[u] = thread[u]
      BY <2>1, OneThread
    <2>7. /\ mem'[Proc(t)][c] = NoContext
          /\ \A q \in Processes, e \in Contexts :
               q # Proc(t) \/ e # c => mem'[q][e] = mem[q][e]
      BY <2>1, <2>3 DEF Types
    <2>8. \A u \in Tasks : ~ (Proc(u) = Proc(t) /\ c \in thread'[u].owns)
      BY <2>2, <2>4, <2>6
    <2>9. thread'[t].owns \subseteq Owners /\ thread'[t].owns \ {c} \subseteq thread[t].owns
      BY <2>2, <2>6, ThreadFields
    <2> QED  BY <2>1, <2>2, <2>3, <2>5, <2>6, <2>7, <2>8, <2>9, MemoryChanged
  <1>5. ASSUME NEW t \in Tasks, OnceBegins(t) \/ OnceEnds(t)
        PROVE  Memory'
    <2>1. PICK th \in Thread, pc \in {"init", "once"} :
            /\ thread' = [thread EXCEPT ![t] = th] /\ th = [thread[t] EXCEPT !.pc = pc]
            /\ Proc(t) \in Processes
      BY <1>5, OnceBeginsStep, OnceEndsStep
    <2>2. PICK d \in Context :
            mem' = [mem EXCEPT ![Proc(t)][Default] = d] /\ Sound(once'[Proc(t)], d)
            /\ \A q \in Processes \ {Proc(t)} : once'[q] = once[q]
      <3>1. CASE OnceBegins(t)
        BY <3>1, OnceBeginsStep DEF Sound, Types
      <3>2. CASE OnceEnds(t)
        BY <3>2, OnceEndsStep DEF Sound, Types
      <3> QED  BY <1>5, <3>1, <3>2
    <2>3. th.proc = Proc(t) /\ th.owns = thread[t].owns
      BY <2>1, ThreadFields DEF Thread, Proc
    <2>4. \A u \in Tasks : Default \notin thread[u].owns
      BY ThreadFields, Numbers
    <2>5. thread'[t] = th /\ \A u \in Tasks \ {t} : thread'[u] = thread[u]
      BY <2>1, OneThread
    <2>6. /\ mem'[Proc(t)][Default] = d /\ Default \in Contexts
          /\ \A q \in Processes, e \in Contexts :
               q # Proc(t) \/ e # Default => mem'[q][e] = mem[q][e]
      BY <2>1, <2>2, Numbers DEF Types
    <2> QED  BY <2>1, <2>2, <2>3, <2>4, <2>5, <2>6, ThreadFields, MemoryChanged
  <1>6. ASSUME NEW t \in Tasks, Fork(t)
        PROVE  Memory'
    <2>1. PICK p \in Children, th \in Thread :
            /\ thread' = [thread EXCEPT ![p] = th]
            /\ th = Idle(p, thread[t].owns, thread[t].kind)
            /\ mem' = [mem EXCEPT ![p] = mem[Proc(t)]]
            /\ once' = [once EXCEPT ![p] = IF once[Proc(t)] = "running" THEN "new"
                                           ELSE once[Proc(t)]]
            /\ Proc(p) = 0 /\ Proc(t) \in Processes
      BY <1>6, ForkStep
    <2>2. p \in Tasks /\ p \in Processes /\ th.proc = p /\ th.owns = thread[t].owns
      BY <2>1, Numbers DEF Idle
    <2>9. \A u \in Tasks \ {p} : Proc(u) # p
      BY <2>1, Numbers DEF Places, Tasks
    <2>3. /\ thread'[p] = th /\ \A u \in Tasks \ {p} : thread'[u] = thread[u]
          /\ mem'[p] = mem[Proc(t)] /\ \A q \in Processes \ {p} : mem'[q] = mem[q]
          /\ once'[p] = IF once[Proc(t)] = "running" THEN "new" ELSE once[Proc(t)]
          /\ \A q \in Processes \ {p} : once'[q] = once[q]
      BY <2>1, <2>2, OneThread DEF Types
    <2>4. \A q \in Processes, c \in Owners : Owned(mem'[q][c], c)
      BY <2>1, <2>3, MemoryIs
    <2>5. \A q \in Processes : Sound(once'[q], mem'[q][Default])
      BY <2>1, <2>3, MemoryIs DEF Sound
    <2>6. \A u \in Tasks : thread'[u].proc # 0 =>
             \A c \in thread'[u].owns : Finished(mem'[thread'[u].proc][c])
      <3> SUFFICES ASSUME NEW u \in Tasks, thread'[u].proc # 0, NEW c \in thread'[u].owns
                   PROVE  Finished(mem'[thread'[u].proc][c])
        OBVIOUS
      <3>1. CASE u = p
        <4>1. Finished(mem[Proc(t)][c])
          BY <2>1, <2>2, <2>3, <3>1, Numbers DEF Memory
        <4> QED  BY <2>2, <2>3, <3>1, <4>1
      <3>2. CASE u # p
        <4>1. Proc(u) # 0 /\ c \in thread[u].owns /\ thread'[u].proc = Proc(u)
          BY <2>3, <3>2 DEF Proc
        <4>2. Finished(mem[Proc(u)][c]) /\ Proc(u) # p /\ Proc(u) \in Processes
          BY <2>9, <3>2, <4>1, ThreadFields DEF Memory
        <4> QED  BY <2>3, <4>1, <4>2
      <3> QED  BY <3>1, <3>2
    <2> QED  BY <2>4, <2>5, <2>6 DEF Memory, Owned, Sound, Proc
  <1>7. CASE UNCHANGED <<mem, once, thread>>
    BY <1>7 DEF Memory, Proc
  <1> QED
    BY <1>1, <1>2, <1>3, <1>4, <1>5, <1>6, <1>7 DEF Next, Step, Call, Tick, Rename, vars
-----------------------------------------------------------------------------
(* The calls.                                                              *)

\* What a thread with context c, in a process whose once is o, has to say for Using.
Sane(th, o, c) ==
  /\ th.pc \in {"once", "init"} => th.ctx = Default
  /\ th.pc = "init" => o = "running"
  /\ th.pc \in {"fields", "seq", "write"} =>
       /\ Finished(c)
       /\ th.ctx = Default => o = "done"
       /\ th.ctx # Default => th.ctx \in th.owns \/ "THREAD_SAFE" \in c.flags
  /\ th.pc \in {"seq", "write"} =>
       IF th.kind = "oid" THEN th.pid = oid_get_pid(c, th.proc) ELSE th.md5 = 0
  /\ th.pc = "write" => c.get_seq = "plain" /\ th.seq = SeqOf(c, th.kind)

OneInit ==
  \A t, u \in Tasks :
    thread[t].pc = "init" /\ thread[u].pc = "init" /\ Proc(u) = Proc(t) => u = t

LEMMA UsingIs ==
  Using <=> OneInit /\ \A t \in Tasks : Sane(thread[t], once[Proc(t)], Ctx(t))
  BY DEF Using, OneInit, Sane, Proc

LEMMA UsingIsNext ==
  ASSUME OneInit',
         \A t \in Tasks :
           Sane(thread'[t], once'[thread'[t].proc], mem'[thread'[t].proc][thread'[t].ctx])
  PROVE  Using'
  BY DEF Using, OneInit, Sane, Proc, Ctx

LEMMA IdleIsSane ==
  ASSUME NEW th, NEW o, NEW c, th.pc = "idle"
  PROVE  Sane(th, o, c)
  BY DEF Sane

\* A step of one thread that changes no context.
LEMMA UsingKept ==
  ASSUME Types, Places, Using, NEW t \in Tasks,
         mem' = mem, once' = once, \A u \in Tasks \ {t} : thread'[u] = thread[u],
         thread'[t].proc = Proc(t), thread'[t].pc # "init",
         Sane(thread'[t], once[Proc(t)], mem[Proc(t)][thread'[t].ctx])
  PROVE  Using'
  <1>1. \A u \in Tasks :
           Sane(thread'[u], once'[thread'[u].proc], mem'[thread'[u].proc][thread'[u].ctx])
    BY UsingIs DEF Proc, Ctx
  <1>2. OneInit'
    BY UsingIs DEF OneInit, Proc
  <1> QED  BY <1>1, <1>2, UsingIsNext

LEMMA UsingNext ==
  ASSUME Types, Places, Memory, Using, [Next]_vars
  PROVE  Using'
  <1>0. OneInit /\ \A u \in Tasks : Sane(thread[u], once[Proc(u)], Ctx(u))
    BY UsingIs
  <1>1. ASSUME NEW t \in Tasks, SeqThreadsafe(t) \/ SeqWrite(t)
        PROVE  Using'
    <2>1. PICK stored \in Nat, seq \in Nat :
            /\ Counted(t, stored, seq) /\ thread[t].pc \in {"seq", "write"}
            /\ Ctx(t).get_seq = "threadsafe" \/ thread[t].ctx \in thread[t].owns
      BY <1>1, CountingStep
    <2> DEFINE th == Idle(Proc(t), thread[t].owns, thread[t].kind)
               d == WithSeq(Ctx(t), thread[t].kind, stored)
    <2>2. /\ th \in Thread /\ thread' = [thread EXCEPT ![t] = th] /\ once' = once
          /\ Proc(t) \in Processes /\ d \in Context /\ Ctx(t) \in Context
          /\ mem' = [mem EXCEPT ![Proc(t)][thread[t].ctx] = d]
          /\ thread[t].ctx \in Contexts /\ thread[t].kind \in Kinds /\ Finished(Ctx(t))
      BY <2>1, CountedIs, ThreadFields
    <2>3. th.proc = Proc(t) /\ th.owns = thread[t].owns /\ th.pc = "idle"
      BY DEF Idle
    <2>4. /\ Finished(d) /\ d.flags = Ctx(t).flags /\ d.get_seq = Ctx(t).get_seq
          /\ \A p : oid_get_pid(d, p) = oid_get_pid(Ctx(t), p)
      BY <2>2, CounterOnly
    <2> HIDE DEF th, d
    <2>5. thread'[t] = th /\ \A u \in Tasks \ {t} : thread'[u] = thread[u]
      BY <2>2, OneThread
    <2>6. /\ mem'[Proc(t)][thread[t].ctx] = d
          /\ \A q \in Processes, e \in Contexts :
               q # Proc(t) \/ e # thread[t].ctx => mem'[q][e] = mem[q][e]
      BY <2>2 DEF Types
    <2>7. ASSUME NEW u \in Tasks \ {t}
          PROVE  Sane(thread[u], once[Proc(u)], mem'[Proc(u)][thread[u].ctx])
      <3>1. CASE Proc(u) = 0
        BY <3>1, IdleIsSane DEF Places
      <3>2. CASE Proc(u) # 0 /\ ~ (Proc(u) = Proc(t) /\ thread[u].ctx = thread[t].ctx)
        <4>1. mem'[Proc(u)][thread[u].ctx] = Ctx(u)
          BY <2>6, <3>2, ThreadFields DEF Ctx
        <4> QED  BY <1>0, <4>1
      <3>3. CASE Proc(u) # 0 /\ Proc(u) = Proc(t) /\ thread[u].ctx = thread[t].ctx
        <4>1. Ctx(u) = Ctx(t) /\ mem'[Proc(u)][thread[u].ctx] = d
          BY <2>6, <3>3 DEF Ctx
        <4>2. thread[u].pc # "write"
          <5>1. SUFFICES ASSUME thread[u].pc = "write"
                         PROVE  FALSE
            OBVIOUS
          <5>2. thread[u].ctx \in thread[u].owns /\ Ctx(u).get_seq = "plain"
            BY <5>1, WriterOwns DEF Using
          <5>3. thread[t].ctx \in thread[t].owns
            BY <2>1, <4>1, <5>2
          <5> QED  BY <2>2, <3>3, <5>2, <5>3, OneOwner
        <4>3. Sane(thread[u], once[Proc(u)], Ctx(t))
          BY <1>0, <4>1
        <4> QED  BY <2>4, <4>1, <4>2, <4>3 DEF Sane
      <3> QED  BY <3>1, <3>2, <3>3
    <2>8. \A u \in Tasks :
             Sane(thread'[u], once'[thread'[u].proc], mem'[thread'[u].proc][thread'[u].ctx])
      BY <2>2, <2>3, <2>5, <2>7, IdleIsSane DEF Proc
    <2>9. OneInit'
      BY <1>0, <2>3, <2>5 DEF OneInit, Proc
    <2> QED  BY <2>8, <2>9, UsingIsNext
  <1>2. ASSUME NEW t \in Tasks, OnceReturns(t) \/ Begin(t) \/ Fields(t) \/ SeqRead(t)
        PROVE  Using'
    <2>1. PICK th \in Thread :
              /\ thread' = [thread EXCEPT ![t] = th] /\ mem' = mem /\ once' = once
              /\ th.proc = Proc(t) /\ th.owns = thread[t].owns /\ th.kind = thread[t].kind
              /\ th.pc \notin {"idle", "init"} /\ Proc(t) # 0
              /\ OnceReturns(t) => th = [thread[t] EXCEPT !.pc = "fields"]
              /\ Begin(t) =>
                   /\ \E c \in DOMAIN plan : MayUse(t, c) /\ th.ctx = c
                   /\ th.pc = IF th.ctx = Default THEN "once" ELSE "fields"
              /\ Fields(t) =>
                   /\ th.ctx = thread[t].ctx /\ th.pc = "seq"
                   /\ IF th.kind = "oid" THEN th.pid = oid_get_pid(Ctx(t), Proc(t))
                      ELSE th.md5 = 0
              /\ SeqRead(t) =>
                   th = [thread[t] EXCEPT !.pc = "write",
                                          !.seq = SeqOf(Ctx(t), thread[t].kind)]
      BY <1>2, CallStep
    <2>2. thread'[t] = th /\ \A u \in Tasks \ {t} : thread'[u] = thread[u]
      BY <2>1, OneThread
    <2>3. /\ thread[t] \in Thread /\ Proc(t) \in Processes
          /\ Sane(thread[t], once[Proc(t)], Ctx(t))
      BY <1>0, <2>1, ThreadFields
    <2>4. Sane(th, once[Proc(t)], mem[Proc(t)][th.ctx])
      <3>1. CASE OnceReturns(t)
        <4>1. th.pc = "fields" /\ th.ctx = thread[t].ctx
          BY <2>1, <2>3, <3>1 DEF Thread
        <4>2. thread[t].ctx = Default /\ once[Proc(t)] = "done"
          BY <2>3, <3>1 DEF OnceReturns, OncePassed, At, Sane
        <4>3. Finished(mem[Proc(t)][Default])
          BY <2>3, <4>2 DEF Memory
        <4> QED  BY <4>1, <4>2, <4>3 DEF Sane
      <3>2. CASE Begin(t)
        <4>1. CASE th.ctx = Default
          BY <2>1, <3>2, <4>1 DEF Sane
        <4>2. CASE th.ctx # Default
          <5>1. th.ctx \in Owners /\ MayUse(t, th.ctx) /\ th.pc = "fields"
            BY <2>1, <3>2, <4>2 DEF Thread, Contexts
          <5>2. th.ctx \in th.owns \/ "THREAD_SAFE" \in mem[Proc(t)][th.ctx].flags
            BY <2>1, <4>2, <5>1 DEF MayUse
          <5>3. Finished(mem[Proc(t)][th.ctx])
            <6>1. CASE th.ctx \in th.owns
              BY <2>1, <6>1 DEF Memory
            <6>2. CASE "THREAD_SAFE" \in mem[Proc(t)][th.ctx].flags
              BY <2>3, <5>1, <6>2 DEF Memory, NoContext
            <6> QED  BY <5>2, <6>1, <6>2
          <5> QED  BY <4>2, <5>1, <5>2, <5>3 DEF Sane
        <4> QED  BY <4>1, <4>2
      <3>3. CASE Fields(t)
        <4>1. thread[t].pc = "fields"
          BY <3>3 DEF Fields, At
        <4> QED  BY <2>1, <2>3, <3>3, <4>1 DEF Sane, Ctx
      <3>4. CASE SeqRead(t)
        <4>1. thread[t].pc = "seq" /\ Ctx(t).get_seq = "plain"
          BY <3>4 DEF SeqRead, At
        <4>2. /\ th.pc = "write" /\ th.ctx = thread[t].ctx /\ th.pid = thread[t].pid
              /\ th.md5 = thread[t].md5 /\ th.seq = SeqOf(Ctx(t), thread[t].kind)
          BY <2>1, <2>3, <3>4 DEF Thread
        <4> QED  BY <2>1, <2>3, <4>1, <4>2 DEF Sane, Ctx, Proc
      <3> QED  BY <1>2, <3>1, <3>2, <3>3, <3>4
    <2> QED  BY <2>1, <2>2, <2>4, UsingKept
  <1>3. ASSUME NEW t \in Tasks, bson_context_new(t)
        PROVE  Using'
    <2>1. PICK th \in Thread :
            /\ thread' = [thread EXCEPT ![t] = th]
            /\ th = [thread[t] EXCEPT !.owns = thread[t].owns \cup {t}]
      BY <1>3, NewStep
    <2>2. th.pc = "idle" /\ \A u \in Tasks : thread[u].pc = "idle"
      BY <1>3, <2>1, NewStep, ThreadFields DEF Nothing, Pending, Thread
    <2>3. \A u \in Tasks : thread'[u].pc = "idle"
      BY <2>1, <2>2, OneThread
    <2> QED  BY <2>3, IdleIsSane, UsingIsNext DEF OneInit
  <1>4. ASSUME NEW t \in Tasks, bson_context_destroy(t)
        PROVE  Using'
    <2>1. PICK c \in thread[t].owns, th \in Thread :
            /\ mem' = [mem EXCEPT ![Proc(t)][c] = NoContext] /\ once' = once
            /\ thread' = [thread EXCEPT ![t] = th] /\ Proc(t) \in Processes
            /\ th = [thread[t] EXCEPT !.owns = thread[t].owns \ {c}] /\ c \in Owners
            /\ \A u \in Pending : Proc(u) = Proc(t) => thread[u].ctx # c
            /\ thread[t].pc = "idle"
      BY <1>4, DestroyStep
    <2>2. th.pc = "idle" /\ th.proc = Proc(t)
      BY <2>1, ThreadFields DEF Thread, Proc
    <2>3. thread'[t] = th /\ \A u \in Tasks \ {t} : thread'[u] = thread[u]
      BY <2>1, OneThread
    <2>4. \A q \in Processes, e \in Contexts :
             q # Proc(t) \/ e # c => mem'[q][e] = mem[q][e]
      BY <2>1, Numbers DEF Types
    <2>5. ASSUME NEW u \in Tasks \ {t}
          PROVE  Sane(thread[u], once[Proc(u)], mem'[Proc(u)][thread[u].ctx])
      <3>1. CASE thread[u].pc = "idle"
        BY <3>1, IdleIsSane
      <3>2. CASE thread[u].pc # "idle"
        <4>1. Proc(u) \in Processes /\ thread[u].ctx \in Contexts
          BY <3>2, ThreadFields DEF Places
        <4>2. mem'[Proc(u)][thread[u].ctx] = Ctx(u)
          BY <2>1, <2>4, <3>2, <4>1 DEF Ctx, Pending
        <4> QED  BY <1>0, <4>2
      <3> QED  BY <3>1, <3>2
    <2>6. ASSUME NEW u \in Tasks
          PROVE  Sane(thread'[u], once'[thread'[u].proc], mem'[thread'[u].proc][thread'[u].ctx])
      <3>1. CASE u = t
        BY <2>2, <2>3, <3>1, IdleIsSane
      <3>2. CASE u # t
        <4>1. thread'[u] = thread[u] /\ thread[u].proc = Proc(u)
          BY <2>3, <3>2 DEF Proc
        <4>2. once' = once
          BY <2>1
        <4> QED  BY <2>5, <3>2, <4>1, <4>2
      <3> QED  BY <3>1, <3>2
    <2>7. OneInit'
      BY <1>0, <2>2, <2>3 DEF OneInit, Proc
    <2> QED  BY <2>6, <2>7, UsingIsNext
  <1>5. ASSUME NEW t \in Tasks, OnceBegins(t) \/ OnceEnds(t)
        PROVE  Using'
    <2>1. PICK th \in Thread, pc \in {"init", "once"}, d \in Context :
            /\ thread' = [thread EXCEPT ![t] = th] /\ th = [thread[t] EXCEPT !.pc = pc]
            /\ Proc(t) \in Processes
            /\ mem' = [mem EXCEPT ![Proc(t)][Default] = d]
            /\ once' = [once EXCEPT ![Proc(t)] = IF pc = "init" THEN "running" ELSE "done"]
            /\ once[Proc(t)] = IF pc = "init" THEN "new" ELSE "running"
            /\ thread[t].pc = IF pc = "init" THEN "once" ELSE "init"
      <3>1. CASE OnceBegins(t)
        BY <3>1, OnceBeginsStep
      <3>2. CASE OnceEnds(t)
        BY <3>2, OnceEndsStep
      <3> QED  BY <1>5, <3>1, <3>2
    <2>2. th.pc = pc /\ th.proc = Proc(t) /\ th.ctx = Default
      BY <1>0, <2>1, ThreadFields DEF Thread, Proc, Sane
    <2>3. thread'[t] = th /\ \A u \in Tasks \ {t} : thread'[u] = thread[u]
      BY <2>1, OneThread
    <2>4. \A q \in Processes, e \in Contexts :
             q # Proc(t) \/ e # Default => mem'[q][e] = mem[q][e]
      BY <2>1, Numbers DEF Types
    <2>5. /\ \A q \in Processes \ {Proc(t)} : once'[q] = once[q]
          /\ once'[Proc(t)] = IF pc = "init" THEN "running" ELSE "done"
      BY <2>1 DEF Types
    <2>6. \A u \in Tasks \ {t} : Proc(u) = Proc(t) => thread[u].pc # "init"
      BY <1>0, <2>1 DEF OneInit, Sane
    <2>7. ASSUME NEW u \in Tasks \ {t}
          PROVE  Sane(thread[u], once'[Proc(u)], mem'[Proc(u)][thread[u].ctx])
      <3>1. CASE Proc(u) = 0
        BY <3>1, IdleIsSane DEF Places
      <3>2. CASE Proc(u) # 0 /\ Proc(u) # Proc(t)
        <4>1. mem'[Proc(u)][thread[u].ctx] = Ctx(u) /\ once'[Proc(u)] = once[Proc(u)]
          BY <2>4, <2>5, <3>2, ThreadFields DEF Ctx
        <4> QED  BY <1>0, <4>1
      <3>3. CASE Proc(u) # 0 /\ Proc(u) = Proc(t)
        <4>1. thread[u].pc # "init" /\ once[Proc(u)] # "done"
          BY <2>1, <2>6, <3>3
        <4>2. thread[u].pc \in {"fields", "seq", "write"} => thread[u].ctx # Default
          BY <1>0, <4>1 DEF Sane
        <4>3. thread[u].ctx # Default => mem'[Proc(u)][thread[u].ctx] = Ctx(u)
          BY <2>4, <3>3, ThreadFields DEF Ctx
        <4>4. Sane(thread[u], once[Proc(u)], Ctx(u))
          BY <1>0
        <4> QED  BY <4>1, <4>2, <4>3, <4>4 DEF Sane
      <3> QED  BY <3>1, <3>2, <3>3
    <2>8. Sane(th, once'[Proc(t)], mem'[Proc(t)][th.ctx])
      BY <2>2, <2>5 DEF Sane
    <2>9. \A u \in Tasks :
             Sane(thread'[u], once'[thread'[u].proc], mem'[thread'[u].proc][thread'[u].ctx])
      BY <2>2, <2>3, <2>7, <2>8 DEF Proc
    <2>10. OneInit'
      BY <1>0, <2>2, <2>3, <2>6 DEF OneInit, Proc
    <2> QED  BY <2>9, <2>10, UsingIsNext
  <1>6. ASSUME NEW t \in Tasks, Fork(t)
        PROVE  Using'
    <2>1. PICK p \in Children, th \in Thread :
            /\ thread' = [thread EXCEPT ![p] = th]
            /\ th = Idle(p, thread[t].owns, thread[t].kind)
            /\ mem' = [mem EXCEPT ![p] = mem[Proc(t)]]
            /\ once' = [once EXCEPT ![p] = IF once[Proc(t)] = "running" THEN "new"
                                           ELSE once[Proc(t)]]
            /\ Proc(p) = 0
      BY <1>6, ForkStep
    <2>2. p \in Tasks /\ p \in Processes /\ th.pc = "idle"
      BY <2>1, Numbers DEF Idle
    <2>3. \A u \in Tasks \ {p} : Proc(u) # p
      BY <2>1, Numbers DEF Places, Tasks
    <2>4. /\ thread'[p] = th /\ \A u \in Tasks \ {p} : thread'[u] = thread[u]
          /\ \A q \in Processes \ {p} : mem'[q] = mem[q] /\ once'[q] = once[q]
      BY <2>1, <2>2, OneThread DEF Types
    <2>5. ASSUME NEW u \in Tasks \ {p}
          PROVE  Sane(thread[u], once'[Proc(u)], mem'[Proc(u)][thread[u].ctx])
      <3>1. CASE Proc(u) = 0
        BY <3>1, IdleIsSane DEF Places
      <3>2. CASE Proc(u) # 0
        <4>1. mem'[Proc(u)][thread[u].ctx] = Ctx(u) /\ once'[Proc(u)] = once[Proc(u)]
          BY <2>3, <2>4, <3>2, ThreadFields DEF Ctx
        <4> QED  BY <1>0, <4>1
      <3> QED  BY <3>1, <3>2
    <2>6. \A u \in Tasks :
             Sane(thread'[u], once'[thread'[u].proc], mem'[thread'[u].proc][thread'[u].ctx])
      BY <2>2, <2>4, <2>5, IdleIsSane DEF Proc
    <2>7. OneInit'
      BY <1>0, <2>2, <2>4 DEF OneInit, Proc
    <2> QED  BY <2>6, <2>7, UsingIsNext
  <1>7. CASE UNCHANGED <<mem, once, thread>>
    BY <1>7 DEF Using, Proc, Ctx
  <1> QED
    BY <1>1, <1>2, <1>3, <1>4, <1>5, <1>6, <1>7 DEF Next, Step, Call, Tick, Rename, vars
-----------------------------------------------------------------------------
(* The ObjectIDs that were made.                                           *)

LEMMA MadeOids ==
  ASSUME Types, NEW i \in DOMAIN made
  PROVE  /\ made[i] \in Oid /\ made[i].proc \in Processes /\ made[i].ctx \in Contexts
         /\ i \in Nat /\ i \in 1 .. Len(made)
  <1>1. made \in Seq(Oid) /\ i \in 1 .. Len(made) /\ i \in Nat
    BY DEF Types
  <1>2. made[i] \in Oid
    BY <1>1, ElementOfSeq
  <1> QED  BY <1>1, <1>2 DEF Oid

\* What an ObjectID is, when it is made by a thread in a call.
LEMMA NewIsFormed ==
  ASSUME Types, Places, Memory, Using, NEW t \in Tasks, thread[t].pc \in {"seq", "write"},
         NEW seq \in Nat, NEW x,
         x = [proc |-> Proc(t), ctx |-> thread[t].ctx, flags |-> Ctx(t).flags,
              kind |-> thread[t].kind, md5 |-> thread[t].md5, seq |-> seq,
              known |-> thread[t].known, bytes |-> OidBytes(thread[t], seq)]
  PROVE  /\ Formed(x) /\ x.bytes[1] = thread[t].time
         /\ x.kind = "oid" => PidOf(x) = oid_get_pid(Ctx(t), Proc(t))
         /\ x.ctx = Default => once[Proc(t)] = "done"
  <1>1. /\ Proc(t) # 0 /\ thread[t] \in Thread /\ Finished(Ctx(t))
        /\ Proc(t) \in Processes /\ Proc(t) \in Nat /\ Ctx(t) \in Context
        /\ thread[t].ctx \in Contexts
    BY ThreadFields DEF Places, Using
  <1>2. thread[t].kind = "oid" =>
          /\ thread[t].pid = oid_get_pid(Ctx(t), Proc(t)) /\ thread[t].pid \in Pair
          /\ thread[t].pid = <<thread[t].pid[1], thread[t].pid[2]>>
    BY <1>1, FinishedContext DEF Using, Pair
  <1>3. /\ x.bytes[1] = thread[t].time
        /\ x.kind = "oid" =>
              /\ Len(x.bytes) = 5 /\ x.bytes[2] = x.md5 /\ x.bytes[5] = seq % Digits
              /\ PidOf(x) = thread[t].pid
        /\ x.kind = "sequence" =>
              /\ Len(x.bytes) = 3
              /\ x.bytes[2] = seq \div Digits /\ x.bytes[3] = seq % Digits
    BY <1>1, <1>2, OidShape DEF PidOf
  <1>4. thread[t].ctx = Default => once[Proc(t)] = "done" /\ Ctx(t).flags = DefaultFlags
    BY <1>1 DEF Using, Memory, Ctx
  <1>5. "DISABLE_PID_CACHE" \in Ctx(t).flags =>
           oid_get_pid(Ctx(t), Proc(t)) = LowBytes(Proc(t))
    BY <1>1 DEF Finished, oid_get_pid, UINT16_TO_BE
  <1>6. ByTask(x) => oid_get_pid(Ctx(t), Proc(t)) = LowBytes(TaskNumber(thread[t].ctx))
    <2> SUFFICES ASSUME ByTask(x)
                 PROVE  oid_get_pid(Ctx(t), Proc(t)) = LowBytes(TaskNumber(thread[t].ctx))
      OBVIOUS
    <2>1. "USE_TASK_ID" \in Ctx(t).flags /\ "DISABLE_PID_CACHE" \notin Ctx(t).flags
      BY DEF ByTask
    <2>2. thread[t].ctx \in Owners
      BY <1>1, <1>4, <2>1 DEF DefaultFlags, Contexts
    <2>3. Ctx(t) # NoContext
      BY <1>1, FinishedContext
    <2>4. ByOwner(Ctx(t), thread[t].ctx)
      BY <1>1, <2>2, <2>3 DEF Memory, Ctx
    <2> QED  BY <1>1, <2>1, <2>4 DEF Finished, ByOwner, oid_get_pid
  <1>7. /\ x.proc = Proc(t) /\ x.ctx = thread[t].ctx /\ x.flags = Ctx(t).flags
        /\ x.kind = thread[t].kind /\ x.seq = seq
    OBVIOUS
  <1>8. Formed(x)
    BY <1>2, <1>3, <1>4, <1>5, <1>6, <1>7 DEF Formed, DefaultFlags
  <1> QED  BY <1>2, <1>3, <1>4, <1>7, <1>8

\* The step that counts: the ObjectID it makes is larger than those that its context
\* made before, and the counter passes it.
LEMMA NewOid ==
  ASSUME Types, Places, Memory, Using, NEW t \in Tasks, SeqThreadsafe(t) \/ SeqWrite(t)
  PROVE  \E x \in Oid, d \in Context :
           /\ made' = Append(made, x) /\ UNCHANGED <<clock, once>>
           /\ Formed(x) /\ x.bytes[1] = thread[t].time
           /\ x.proc = Proc(t) /\ x.ctx = thread[t].ctx /\ x.kind = thread[t].kind
           /\ x.known = thread[t].known
           /\ x.ctx = Default => once[Proc(t)] = "done"
           /\ mem'[Proc(t)][thread[t].ctx] = d
           /\ \A q \in Processes, e \in Contexts :
                q # Proc(t) \/ e # thread[t].ctx => mem'[q][e] = mem[q][e]
           /\ thread'[t].proc = Proc(t) /\ thread'[t].kind = thread[t].kind
           /\ thread'[t].time = 0 /\ thread'[t].known = 0
           /\ \A u \in Tasks \ {t} : thread'[u] = thread[u]
           /\ Proc(t) # 0 /\ Ctx(t) # NoContext /\ CountedBy(x, d)
           /\ \A y \in Oid :
                y.proc = x.proc /\ y.kind = x.kind /\ CountedBy(y, Ctx(t)) =>
                  /\ CountedBy(y, d) /\ y.seq < x.seq
                  /\ x.kind = "oid" => PidOf(x) = PidOf(y)
  <1>1. PICK stored \in Nat, seq \in Nat :
           /\ Counted(t, stored, seq) /\ thread[t].pc \in {"seq", "write"}
           /\ \/ /\ Ctx(t).get_seq = "threadsafe"
                 /\ seq = SeqOf(Ctx(t), thread[t].kind) + 1 /\ stored = seq
              \/ /\ Ctx(t).get_seq = "plain"
                 /\ seq = SeqOf(Ctx(t), thread[t].kind) /\ stored = seq + 1
    BY CountingStep
  <1> DEFINE d == WithSeq(Ctx(t), thread[t].kind, stored)
             th == Idle(Proc(t), thread[t].owns, thread[t].kind)
  <1>2. PICK x \in Oid :
          /\ made' = Append(made, x)
          /\ x = [proc |-> Proc(t), ctx |-> thread[t].ctx, flags |-> Ctx(t).flags,
                  kind |-> thread[t].kind, md5 |-> thread[t].md5, seq |-> seq,
                  known |-> thread[t].known, bytes |-> OidBytes(thread[t], seq)]
    BY <1>1, CountedIs
  <1>3. /\ Formed(x) /\ x.bytes[1] = thread[t].time
        /\ x.kind = "oid" => PidOf(x) = oid_get_pid(Ctx(t), Proc(t))
        /\ x.ctx = Default => once[Proc(t)] = "done"
    BY <1>1, <1>2, NewIsFormed
  <1>4. /\ Proc(t) \in Processes /\ Ctx(t) \in Context /\ Finished(Ctx(t)) /\ Proc(t) \in Nat
        /\ Proc(t) # 0 /\ d \in Context /\ mem' = [mem EXCEPT ![Proc(t)][thread[t].ctx] = d]
        /\ th \in Thread /\ thread' = [thread EXCEPT ![t] = th] /\ UNCHANGED <<clock, once>>
        /\ thread[t].ctx \in Contexts /\ thread[t].kind \in Kinds
    BY <1>1, CountedIs, ThreadFields, Numbers
  <1>5. /\ d.get_seq = Ctx(t).get_seq /\ SeqOf(d, thread[t].kind) = stored
        /\ \A p : oid_get_pid(d, p) = oid_get_pid(Ctx(t), p)
        /\ SeqOf(Ctx(t), thread[t].kind) \in Nat
    BY <1>4, CounterOnly
  <1>6. /\ x.proc = Proc(t) /\ x.ctx = thread[t].ctx /\ x.kind = thread[t].kind
        /\ x.seq = seq /\ x.known = thread[t].known
    BY <1>2
  <1>7. th.proc = Proc(t) /\ th.kind = thread[t].kind /\ th.time = 0 /\ th.known = 0
    BY DEF Idle
  <1> HIDE DEF d, th
  <1>8. thread'[t] = th /\ \A u \in Tasks \ {t} : thread'[u] = thread[u]
    BY <1>4, OneThread
  <1>9. /\ mem'[Proc(t)][thread[t].ctx] = d
        /\ \A q \in Processes, e \in Contexts :
             q # Proc(t) \/ e # thread[t].ctx => mem'[q][e] = mem[q][e]
    BY <1>4 DEF Types
  <1>10. CountedBy(x, d)
    BY <1>1, <1>3, <1>5, <1>6 DEF CountedBy
  <1>11. ASSUME NEW y \in Oid, y.proc = x.proc, y.kind = x.kind, CountedBy(y, Ctx(t))
         PROVE  /\ CountedBy(y, d) /\ y.seq < x.seq
                /\ x.kind = "oid" => PidOf(x) = PidOf(y)
    <2>1. y.seq \in Nat
      BY DEF Oid
    <2> QED  BY <1>1, <1>3, <1>5, <1>6, <1>11, <2>1 DEF CountedBy
  <1>12. Ctx(t) # NoContext
    BY <1>4, FinishedContext
  <1> QED
    BY <1>2, <1>3, <1>4, <1>6, <1>7, <1>8, <1>9, <1>10, <1>11, <1>12
\* What Made says of one ObjectID, when its process's once is o and its context is c.
Kept(x, o, c) ==
  /\ Formed(x)
  /\ x.ctx = Default => o = "done"
  /\ c # NoContext => CountedBy(x, c)

LEMMA MadeIs ==
  Made <=>
    \A i \in DOMAIN made :
      /\ Kept(made[i], once[made[i].proc], mem[made[i].proc][made[i].ctx])
      /\ \E t \in Tasks : Proc(t) = made[i].proc
      /\ \A t \in Tasks : thread[t].kind = made[i].kind
  BY DEF Made, Kept

LEMMA MadeIsNext ==
  ASSUME \A i \in DOMAIN made' :
           /\ Kept(made'[i], once'[made'[i].proc], mem'[made'[i].proc][made'[i].ctx])
           /\ \E t \in Tasks : thread'[t].proc = made'[i].proc
           /\ \A t \in Tasks : thread'[t].kind = made'[i].kind
  PROVE  Made'
  BY DEF Made, Kept, Proc

\* A step that makes none, and that keeps or frees the contexts that made some.
LEMMA MadeStays ==
  ASSUME Types, Made, made' = made,
         \A t \in Tasks : thread'[t].kind = thread[t].kind,
         \A t \in Tasks : Proc(t) # 0 => thread'[t].proc = Proc(t),
         \A i \in DOMAIN made :
           /\ once[made[i].proc] = "done" => once'[made[i].proc] = "done"
           /\ \/ mem'[made[i].proc][made[i].ctx] = mem[made[i].proc][made[i].ctx]
              \/ mem'[made[i].proc][made[i].ctx] = NoContext
  PROVE  Made'
  <1> SUFFICES ASSUME NEW i \in DOMAIN made
               PROVE  /\ Kept(made[i], once'[made[i].proc],
                              mem'[made[i].proc][made[i].ctx])
                      /\ \E t \in Tasks : thread'[t].proc = made[i].proc
                      /\ \A t \in Tasks : thread'[t].kind = made[i].kind
    BY MadeIsNext
  <1>1. /\ Kept(made[i], once[made[i].proc], mem[made[i].proc][made[i].ctx])
        /\ \A t \in Tasks : thread[t].kind = made[i].kind
    BY MadeIs
  <1>2. PICK t \in Tasks : Proc(t) = made[i].proc
    BY MadeIs
  <1>3. made[i] \in Oid
    BY MadeOids DEF Types
  <1>4. thread'[t].proc = made[i].proc
    BY <1>2, <1>3, Numbers DEF Oid
  <1> QED  BY <1>1, <1>4 DEF Kept

LEMMA MadeNext ==
  ASSUME Types, Places, Memory, Using, Made, Types', [Next]_vars
  PROVE  Made'
  <1>9. \A i \in DOMAIN made :
          made[i] \in Oid /\ made[i].proc \in Processes /\ made[i].ctx \in Contexts
    BY MadeOids
  <1>1. ASSUME NEW t \in Tasks, SeqThreadsafe(t) \/ SeqWrite(t)
        PROVE  Made'
    <2>1. PICK x \in Oid, d \in Context :
           /\ made' = Append(made, x) /\ UNCHANGED <<clock, once>>
           /\ Formed(x) /\ x.bytes[1] = thread[t].time
           /\ x.proc = Proc(t) /\ x.ctx = thread[t].ctx /\ x.kind = thread[t].kind
           /\ x.ctx = Default => once[Proc(t)] = "done"
           /\ mem'[Proc(t)][thread[t].ctx] = d
           /\ \A q \in Processes, e \in Contexts :
                q # Proc(t) \/ e # thread[t].ctx => mem'[q][e] = mem[q][e]
           /\ thread'[t].proc = Proc(t) /\ thread'[t].kind = thread[t].kind
           /\ \A u \in Tasks \ {t} : thread'[u] = thread[u]
           /\ Ctx(t) # NoContext /\ CountedBy(x, d)
           /\ \A y \in Oid :
                y.proc = x.proc /\ y.kind = x.kind /\ CountedBy(y, Ctx(t)) => CountedBy(y, d)
      BY <1>1, NewOid
    <2>2. PICK n : n = Len(made)
      OBVIOUS
    <2>3. /\ n \in Nat /\ made'[n + 1] = x /\ \A i \in 1 .. n : made'[i] = made[i]
          /\ Len(made') = n + 1
      BY <2>1, <2>2, Appended DEF Types
    <2>4. DOMAIN made' = 1 .. n + 1 /\ DOMAIN made = 1 .. n
      BY <2>2, <2>3, LenProperties DEF Types
    <2>5. \A u \in Tasks : thread'[u].proc = Proc(u) /\ thread'[u].kind = thread[u].kind
      BY <2>1 DEF Proc
    <2>6. ASSUME NEW i \in 1 .. n
          PROVE  /\ Kept(made[i], once'[made[i].proc],
                         mem'[made[i].proc][made[i].ctx])
                 /\ \E u \in Tasks : thread'[u].proc = made[i].proc
                 /\ \A u \in Tasks : thread'[u].kind = made[i].kind
      <3>1. /\ Kept(made[i], once[made[i].proc], mem[made[i].proc][made[i].ctx])
            /\ \E u \in Tasks : Proc(u) = made[i].proc
            /\ \A u \in Tasks : thread[u].kind = made[i].kind
            /\ made[i] \in Oid /\ made[i].proc \in Processes /\ made[i].ctx \in Contexts
        BY <1>9, <2>4, MadeIs
      <3>2. \/ mem'[made[i].proc][made[i].ctx] = mem[made[i].proc][made[i].ctx]
            \/ made[i].proc = Proc(t) /\ made[i].ctx = thread[t].ctx
        BY <2>1, <3>1
      <3>3. CountedBy(made[i], Ctx(t)) /\ made[i].proc = Proc(t) => CountedBy(made[i], d)
        BY <2>1, <3>1
      <3>4. mem'[made[i].proc][made[i].ctx] # NoContext =>
               CountedBy(made[i], mem'[made[i].proc][made[i].ctx])
        BY <2>1, <3>1, <3>2, <3>3 DEF Kept, Ctx
      <3>5. once' = once
        BY <2>1
      <3> QED  BY <2>5, <3>1, <3>4, <3>5 DEF Kept
    <2>7. /\ Kept(x, once'[x.proc], mem'[x.proc][x.ctx])
          /\ \E u \in Tasks : thread'[u].proc = x.proc
          /\ \A u \in Tasks : thread'[u].kind = x.kind
      <3>1. once' = once
        BY <2>1
      <3>2. \A u \in Tasks : thread[u].kind = x.kind
        BY <2>1 DEF Places
      <3> QED  BY <2>1, <2>5, <3>1, <3>2 DEF Kept
    <2> QED
      <3> SUFFICES ASSUME NEW i \in DOMAIN made'
                   PROVE  /\ Kept(made'[i], once'[made'[i].proc],
                                  mem'[made'[i].proc][made'[i].ctx])
                          /\ \E u \in Tasks : thread'[u].proc = made'[i].proc
                          /\ \A u \in Tasks : thread'[u].kind = made'[i].kind
        BY MadeIsNext
      <3>1. i = n + 1 \/ i \in 1 .. n
        BY <2>3, <2>4
      <3>2. CASE i = n + 1
        <4>1. made'[i] = x
          BY <2>3, <3>2
        <4> QED  BY <2>7, <4>1
      <3>3. CASE i \in 1 .. n
        <4>1. made'[i] = made[i]
          BY <2>3, <3>3
        <4> QED  BY <2>6, <3>3, <4>1
      <3> QED  BY <3>1, <3>2, <3>3
  <1>2. ASSUME NEW t \in Tasks, OnceReturns(t) \/ Begin(t) \/ Fields(t) \/ SeqRead(t)
        PROVE  Made'
    <2>1. PICK th \in Thread :
            /\ thread' = [thread EXCEPT ![t] = th]
            /\ th.proc = Proc(t) /\ th.kind = thread[t].kind
            /\ UNCHANGED <<clock, mem, once, made>>
      BY <1>2, CallStep
    <2>2. \A u \in Tasks : thread'[u].proc = Proc(u) /\ thread'[u].kind = thread[u].kind
      BY <2>1, OneThread DEF Proc
    <2>3. clock' = clock /\ mem' = mem /\ once' = once /\ made' = made
      BY <2>1
    <2> QED  BY <2>2, <2>3, MadeStays
  <1>3. ASSUME NEW t \in Tasks, bson_context_new(t)
        PROVE  Made'
    <2>1. made' = <<>>
      BY <1>3, NewStep DEF Nothing
    <2> QED  BY <2>1, MadeIsNext
  <1>4. ASSUME NEW t \in Tasks, bson_context_destroy(t)
        PROVE  Made'
    <2>1. PICK c \in Owners, th \in Thread :
            /\ mem' = [mem EXCEPT ![Proc(t)][c] = NoContext] /\ UNCHANGED <<clock, once, made>>
            /\ thread' = [thread EXCEPT ![t] = th] /\ Proc(t) \in Processes
            /\ \E own : th = [thread[t] EXCEPT !.owns = own]
      <3>1. UNCHANGED <<clock, once, made>> /\ Proc(t) \in Processes
        BY <1>4, DestroyStep
      <3>2. PICK c \in Owners, th \in Thread :
            /\ mem' = [mem EXCEPT ![Proc(t)][c] = NoContext]
            /\ thread' = [thread EXCEPT ![t] = th]
            /\ th = [thread[t] EXCEPT !.owns = thread[t].owns \ {c}]
        BY <1>4, DestroyStep
      <3> QED  BY <3>1, <3>2
    <2>2. th.proc = Proc(t) /\ th.kind = thread[t].kind
      BY <2>1, ThreadFields DEF Thread, Proc
    <2>3. \A u \in Tasks : thread'[u].proc = Proc(u) /\ thread'[u].kind = thread[u].kind
      BY <2>1, <2>2, OneThread DEF Proc
    <2>4. /\ mem'[Proc(t)][c] = NoContext
          /\ \A q \in Processes, e \in Contexts :
               q # Proc(t) \/ e # c => mem'[q][e] = mem[q][e]
      BY <2>1, Numbers DEF Types
    <2>5. \A i \in DOMAIN made :
           \/ mem'[made[i].proc][made[i].ctx] = mem[made[i].proc][made[i].ctx]
           \/ mem'[made[i].proc][made[i].ctx] = NoContext
      BY <1>9, <2>4
    <2>6. clock' = clock /\ once' = once /\ made' = made
      BY <2>1
    <2> QED  BY <2>3, <2>5, <2>6, MadeStays
  <1>5. ASSUME NEW t \in Tasks, OnceBegins(t) \/ OnceEnds(t)
        PROVE  Made'
    <2>1. PICK th \in Thread, pc \in {"init", "once"}, d \in Context :
            /\ thread' = [thread EXCEPT ![t] = th] /\ th = [thread[t] EXCEPT !.pc = pc]
            /\ Proc(t) \in Processes /\ clock' = clock /\ made' = made
            /\ mem' = [mem EXCEPT ![Proc(t)][Default] = d]
            /\ \E o : once' = [once EXCEPT ![Proc(t)] = o]
            /\ once[Proc(t)] # "done"
      <3>1. CASE OnceBegins(t)
        BY <3>1, OnceBeginsStep
      <3>2. CASE OnceEnds(t)
        BY <3>2, OnceEndsStep
      <3> QED  BY <1>5, <3>1, <3>2
    <2>2. th.proc = Proc(t) /\ th.kind = thread[t].kind
      BY <2>1, ThreadFields DEF Thread, Proc
    <2>3. \A u \in Tasks : thread'[u].proc = Proc(u) /\ thread'[u].kind = thread[u].kind
      BY <2>1, <2>2, OneThread DEF Proc
    <2>4. /\ \A q \in Processes, e \in Contexts :
               q # Proc(t) \/ e # Default => mem'[q][e] = mem[q][e]
          /\ \A q \in Processes \ {Proc(t)} : once'[q] = once[q]
      BY <2>1, Numbers DEF Types
    <2>5. \A i \in DOMAIN made :
            /\ once[made[i].proc] = "done" => once'[made[i].proc] = "done"
            /\ mem'[made[i].proc][made[i].ctx] = mem[made[i].proc][made[i].ctx]
      BY <1>9, <2>1, <2>4 DEF Made
    <2> QED  BY <2>1, <2>3, <2>5, MadeStays
  <1>6. ASSUME NEW t \in Tasks, Fork(t)
        PROVE  Made'
    <2>1. PICK p \in Children, th \in Thread :
            /\ thread' = [thread EXCEPT ![p] = th]
            /\ th = Idle(p, thread[t].owns, thread[t].kind)
            /\ mem' = [mem EXCEPT ![p] = mem[Proc(t)]]
            /\ \E o : once' = [once EXCEPT ![p] = o]
            /\ Proc(p) = 0 /\ clock' = clock /\ made' = made
      BY <1>6, ForkStep
    <2>2. p \in Tasks /\ p \in Processes /\ th.kind = thread[t].kind
      BY <2>1, Numbers DEF Idle
    <2>3. \A u \in Tasks : Proc(u) # p
      BY <2>1, Numbers DEF Places, Tasks
    <2>4. /\ thread'[p] = th /\ \A u \in Tasks \ {p} : thread'[u] = thread[u]
          /\ \A q \in Processes \ {p} : mem'[q] = mem[q] /\ once'[q] = once[q]
      BY <2>1, <2>2, OneThread DEF Types
    <2>5. \A u \in Tasks : thread'[u].kind = thread[u].kind
      BY <2>2, <2>4 DEF Places
    <2>6. \A u \in Tasks : Proc(u) # 0 => thread'[u].proc = Proc(u)
      BY <2>1, <2>4 DEF Proc
    <2>7. \A i \in DOMAIN made :
            /\ once'[made[i].proc] = once[made[i].proc]
            /\ mem'[made[i].proc][made[i].ctx] = mem[made[i].proc][made[i].ctx]
      BY <1>9, <2>3, <2>4 DEF Made
    <2> QED  BY <2>1, <2>5, <2>6, <2>7, MadeStays
  <1>7. CASE UNCHANGED <<mem, once, thread, made>>
    <2>1. mem' = mem /\ once' = once /\ thread' = thread /\ made' = made
      BY <1>7
    <2>2. \A u \in Tasks : thread'[u].proc = Proc(u) /\ thread'[u].kind = thread[u].kind
      BY <2>1 DEF Proc
    <2> QED  BY <2>1, <2>2, MadeStays
  <1> QED
    BY <1>1, <1>2, <1>3, <1>4, <1>5, <1>6, <1>7 DEF Next, Step, Call, Tick, Rename, vars
\* Of what a context makes the later is the larger.
LEMMA CountingNext ==
  ASSUME Types, Places, Memory, Using, Made, Counting, [Next]_vars
  PROVE  Counting'
  <1>1. ASSUME NEW t \in Tasks, SeqThreadsafe(t) \/ SeqWrite(t)
        PROVE  Counting'
    <2>1. PICK x \in Oid, d \in Context :
           /\ made' = Append(made, x)
           /\ x.proc = Proc(t) /\ x.ctx = thread[t].ctx /\ x.kind = thread[t].kind
           /\ Ctx(t) # NoContext
           /\ \A y \in Oid :
                y.proc = x.proc /\ y.kind = x.kind /\ CountedBy(y, Ctx(t)) =>
                  /\ y.seq < x.seq
                  /\ x.kind = "oid" => PidOf(x) = PidOf(y)
      BY <1>1, NewOid
    <2>2. PICK n : n = Len(made)
      OBVIOUS
    <2>3. /\ n \in Nat /\ made'[n + 1] = x /\ \A i \in 1 .. n : made'[i] = made[i]
          /\ Len(made') = n + 1 /\ made' \in Seq(Oid)
      BY <2>1, <2>2, Appended DEF Types
    <2>4. DOMAIN made' = 1 .. n + 1 /\ DOMAIN made = 1 .. n
      BY <2>2, <2>3, LenProperties DEF Types
    <2>5. ASSUME NEW j \in 1 .. n, SameContext(x, made[j])
          PROVE  made[j].seq < x.seq /\ (x.kind = "oid" => PidOf(x) = PidOf(made[j]))
      <3>1. made[j] \in Oid
        BY <2>4, MadeOids
      <3>2. CountedBy(made[j], Ctx(t))
        BY <2>1, <2>4, <2>5 DEF Made, SameContext, Ctx
      <3> QED  BY <2>1, <2>5, <3>1, <3>2 DEF SameContext
    <2> SUFFICES ASSUME NEW i \in 1 .. n + 1, NEW j \in 1 .. i - 1,
                        SameContext(made'[i], made'[j])
                 PROVE  /\ made'[j].seq < made'[i].seq
                        /\ made'[i].kind = "oid" => PidOf(made'[i]) = PidOf(made'[j])
      BY <2>4 DEF Counting, SameContext, PidOf
    <2>6. j \in 1 .. n /\ made'[j] = made[j]
      BY <2>3
    <2>7. CASE i = n + 1
      <3>1. made'[i] = x
        BY <2>3, <2>7
      <3> QED  BY <2>5, <2>6, <3>1
    <2>8. CASE i \in 1 .. n
      <3>1. made'[i] = made[i]
        BY <2>3, <2>8
      <3> QED  BY <2>4, <2>6, <2>8, <3>1 DEF Counting
    <2> QED  BY <2>3, <2>7, <2>8
  <1>2. CASE made' = made
    BY <1>2 DEF Counting, SameContext, PidOf
  <1>3. ASSUME NEW t \in Tasks, OnceReturns(t) \/ Begin(t) \/ Fields(t) \/ SeqRead(t)
        PROVE  made' = made
    BY <1>3, CallStep
  <1>4. ASSUME NEW t \in Tasks,
               \/ bson_context_new(t) \/ bson_context_destroy(t) \/ Fork(t)
               \/ OnceBegins(t) \/ OnceEnds(t)
        PROVE  made' = made
    BY <1>4 DEF bson_context_new, bson_context_destroy, Fork, OnceBegins, OnceEnds
  <1> QED  BY <1>1, <1>2, <1>3, <1>4 DEF Next, Step, Call, Tick, Rename, vars

\* A step that makes none, and in which calls keep what they know or begin.
LEMMA KnownStays ==
  ASSUME Types, Known, made' = made,
         \A t \in Tasks : thread'[t].known \in {thread[t].known, 0, Len(made)}
  PROVE  Known'
  <1>1. Len(made) \in Nat
    BY LenProperties DEF Types
  <1>2. \A t \in Tasks : thread'[t].known <= Len(made)
    BY <1>1 DEF Known
  <1> QED  BY <1>2 DEF Known

LEMMA KnownNext ==
  ASSUME Types, Places, Memory, Using, Known, [Next]_vars
  PROVE  Known'
  <1>1. ASSUME NEW t \in Tasks, SeqThreadsafe(t) \/ SeqWrite(t)
        PROVE  Known'
    <2>1. PICK x \in Oid :
           /\ made' = Append(made, x) /\ x.known = thread[t].known
           /\ thread'[t].known = 0
           /\ \A u \in Tasks \ {t} : thread'[u] = thread[u]
      BY <1>1, NewOid
    <2>2. PICK n : n = Len(made)
      OBVIOUS
    <2>3. /\ n \in Nat /\ made'[n + 1] = x /\ \A i \in 1 .. n : made'[i] = made[i]
          /\ Len(made') = n + 1 /\ made' \in Seq(Oid)
      BY <2>1, <2>2, Appended DEF Types
    <2>4. DOMAIN made' = 1 .. n + 1 /\ DOMAIN made = 1 .. n
      BY <2>2, <2>3, LenProperties DEF Types
    <2>5. \A u \in Tasks : thread[u].known \in Nat
      BY ThreadFields
    <2>6. ASSUME NEW u \in Tasks
          PROVE  thread'[u].known <= Len(made')
      <3>1. CASE u = t
        BY <2>1, <2>3, <3>1
      <3>2. CASE u # t
        BY <2>1, <2>2, <2>3, <2>5, <3>2 DEF Known
      <3> QED  BY <3>1, <3>2
    <2>7. \A i \in 1 .. n : made'[i].known < i
      BY <2>3, <2>4 DEF Known
    <2>8. x.known < n + 1
      BY <2>1, <2>2, <2>3, <2>5 DEF Known
    <2>9. \A i \in DOMAIN made' : made'[i].known < i
      <3>1. \A i \in DOMAIN made' : i = n + 1 \/ i \in 1 .. n
        BY <2>3, <2>4
      <3> QED  BY <2>3, <2>7, <2>8, <3>1
    <2> QED  BY <2>6, <2>9 DEF Known
  <1>2. ASSUME NEW t \in Tasks, OnceReturns(t) \/ Begin(t) \/ Fields(t) \/ SeqRead(t)
        PROVE  Known'
    <2>1. PICK th \in Thread :
            /\ thread' = [thread EXCEPT ![t] = th]
            /\ UNCHANGED made
            /\ OnceReturns(t) => th = [thread[t] EXCEPT !.pc = "fields"]
            /\ Begin(t) => th.known = Len(made)
            /\ Fields(t) => th.known = thread[t].known
            /\ SeqRead(t) =>
                 th = [thread[t] EXCEPT !.pc = "write", !.seq = SeqOf(Ctx(t), thread[t].kind)]
      BY <1>2, CallStep
    <2>2. thread[t] \in Thread
      BY ThreadFields
    <2>3. th.known \in {thread[t].known, Len(made)}
      BY <1>2, <2>1, <2>2 DEF Thread
    <2>4. thread'[t] = th /\ \A u \in Tasks \ {t} : thread'[u] = thread[u]
      BY <2>1, OneThread
    <2> QED  BY <2>1, <2>3, <2>4, KnownStays
  <1>3. ASSUME NEW t \in Tasks, bson_context_new(t) \/ bson_context_destroy(t)
        PROVE  Known'
    <2>1. PICK th \in Thread :
            /\ thread' = [thread EXCEPT ![t] = th] /\ (\E own : th = [thread[t] EXCEPT !.owns = own])
            /\ made' = made
      <3>1. CASE bson_context_new(t)
        BY <3>1, NewStep
      <3>2. CASE bson_context_destroy(t)
        BY <3>2, DestroyStep
      <3> QED  BY <1>3, <3>1, <3>2
    <2>2. th.known = thread[t].known
      BY <2>1, ThreadFields DEF Thread
    <2>3. thread'[t] = th /\ \A u \in Tasks \ {t} : thread'[u] = thread[u]
      BY <2>1, OneThread
    <2> QED  BY <2>1, <2>2, <2>3, KnownStays
  <1>4. ASSUME NEW t \in Tasks, OnceBegins(t) \/ OnceEnds(t)
        PROVE  Known'
    <2>1. PICK th \in Thread, pc \in {"init", "once"} :
            /\ thread' = [thread EXCEPT ![t] = th] /\ th = [thread[t] EXCEPT !.pc = pc]
            /\ made' = made
      BY <1>4, OnceBeginsStep, OnceEndsStep
    <2>2. th.known = thread[t].known
      BY <2>1, ThreadFields DEF Thread
    <2>3. thread'[t] = th /\ \A u \in Tasks \ {t} : thread'[u] = thread[u]
      BY <2>1, OneThread
    <2> QED  BY <2>1, <2>2, <2>3, KnownStays
  <1>5. ASSUME NEW t \in Tasks, Fork(t)
        PROVE  Known'
    <2>1. PICK p \in Children, th \in Thread :
            /\ thread' = [thread EXCEPT ![p] = th]
            /\ th = Idle(p, thread[t].owns, thread[t].kind)
            /\ made' = made
      BY <1>5, ForkStep
    <2>2. p \in Tasks /\ th.known = 0
      BY <2>1, Numbers DEF Idle
    <2>3. thread'[p] = th /\ \A u \in Tasks \ {p} : thread'[u] = thread[u]
      BY <2>1, <2>2, OneThread
    <2> QED  BY <2>1, <2>2, <2>3, KnownStays
  <1>6. CASE UNCHANGED <<thread, made>>
    BY <1>6, KnownStays
  <1> QED
    BY <1>1, <1>2, <1>3, <1>4, <1>5, <1>6 DEF Next, Step, Call, Tick, Rename, vars
-----------------------------------------------------------------------------
(* The invariant.                                                          *)

LEMMA CInvInit == Init => CInv
  <1> SUFFICES ASSUME Init
               PROVE  CInv
    OBVIOUS
  <1>1. Types
    BY TypesInit
  <1>2. PICK kind \in Kinds :
          thread = [t \in Tasks |-> Idle(IF t \in Threads THEN Parent ELSE 0, {}, kind)]
    BY DEF Init, Kinds
  <1>3. \A t \in Tasks :
          /\ Proc(t) = (IF t \in Threads THEN Parent ELSE 0) /\ thread[t].owns = {}
          /\ thread[t].kind = kind /\ thread[t].pc = "idle"
          /\ thread[t].known = 0
    BY <1>2 DEF Idle, Proc
  <1>4. /\ made = <<>> /\ clock = 0
        /\ \A p \in Processes : once[p] = "new" /\ \A c \in Contexts : mem[p][c] = NoContext
    BY DEF Init
  <1>5. Bounded
    <2>1. Pending = {}
      BY <1>3 DEF Pending
    <2>2. Cardinality(Pending) = 0 /\ Len(made) = 0
      BY <1>4, <2>1, FS_EmptySet
    <2>3. MaxOids[plan] \in Nat
      BY <1>1, BoundsAssumption DEF Types
    <2> QED  BY <2>2, <2>3 DEF Bounded
  <1>6. Places
    BY <1>3, Numbers DEF Places
  <1>7. Memory
    BY <1>3, <1>4, Numbers DEF Memory
  <1>8. Using
    BY <1>3 DEF Using
  <1>9. DOMAIN made = {} /\ Len(made) = 0
    BY <1>4
  <1>10. Made /\ Counting
    BY <1>9 DEF Made, Counting
  <1>11. Known
    BY <1>3, <1>4, <1>9 DEF Known
  <1> QED  BY <1>1, <1>5, <1>6, <1>7, <1>8, <1>10, <1>11 DEF CInv

LEMMA CInvNext == CInv /\ [Next]_vars => CInv'
  <1> SUFFICES ASSUME CInv, [Next]_vars
               PROVE  CInv'
    OBVIOUS
  <1>1. Types /\ Bounded /\ Places /\ Memory /\ Using /\ Made /\ Counting /\ Known
    BY DEF CInv
  <1>2. Types'
    BY <1>1, TypesNext
  <1>3. Bounded' /\ Places' /\ Memory' /\ Using'
    BY <1>1, BoundedNext, PlacesNext, MemoryNext, UsingNext
  <1>4. Made' /\ Counting' /\ Known'
    BY <1>1, <1>2, MadeNext, CountingNext, KnownNext
  <1> QED  BY <1>2, <1>3, <1>4 DEF CInv

-----------------------------------------------------------------------------
(* What the invariant says of contexts and ObjectIDs.                      *)

LEMMA InOrder == CInv => ContextsInOrder
  <1> SUFFICES ASSUME CInv
               PROVE  ContextsInOrder
    OBVIOUS
  <1>1. Len(made) \in 0 .. MaxOids[plan]
    BY PendingFinite, LenProperties, BoundsAssumption DEF CInv, Types, Bounded
  <1>2. \A t \in Tasks :
          /\ thread[t].pc \in {"idle", "once", "init", "fields", "seq", "write"}
          /\ thread[t].pid \in {<<>>} \cup ((0 .. Digits - 1) \X (0 .. Digits - 1))
          /\ thread[t].owns \subseteq Owners
    BY DEF CInv, Types, Thread, Pair, Field
  <1>3. TypeOK
    BY <1>1, <1>2 DEF TypeOK, CInv, Types
  <1>4. ASSUME NEW t \in Tasks, thread[t].pc \in {"fields", "seq", "write"}
        PROVE  /\ Ctx(t).get_host # "null"
               /\ (Ctx(t).get_seq = "threadsafe") = ("THREAD_SAFE" \in Ctx(t).flags)
               /\ (Ctx(t).get_pid = "fetched") = ("DISABLE_PID_CACHE" \in Ctx(t).flags)
    <2>1. Finished(Ctx(t))
      BY <1>4 DEF CInv, Using
    <2> QED  BY <2>1 DEF Finished, Sequence
  <1> QED  BY <1>3, <1>4 DEF ContextsInOrder, CalledFinished

\* Numbers with the same last digit are a whole round apart.
LEMMA SameDigit ==
  ASSUME NEW x \in Nat, NEW y \in Nat, x < y, x % Digits = y % Digits
  PROVE  y >= x + Digits /\ x \div Digits # y \div Digits
  <1>1. /\ x = Digits * (x \div Digits) + (x % Digits)
        /\ y = Digits * (y \div Digits) + (y % Digits)
        /\ x % Digits \in Nat /\ y % Digits \in Nat
        /\ x \div Digits \in Nat /\ y \div Digits \in Nat
    BY DigitOf
  <1>2. PICK a \in Nat, b \in Nat, r \in Nat :
          a = x \div Digits /\ b = y \div Digits /\ r = x % Digits
    BY <1>1
  <1>3. x = Digits * a + r /\ y = Digits * b + r /\ Digits \in Nat \ {0}
    BY <1>1, <1>2, DigitsAssumption
  <1>4. a < b
    BY <1>3
  <1>5. Digits * a + Digits <= Digits * b
    BY <1>3, <1>4
  <1> QED  BY <1>2, <1>3, <1>4, <1>5

\* The digits of the larger number are not smaller, the larger ones first.
LEMMA DigitsInOrder ==
  ASSUME NEW x \in Nat, NEW y \in Nat, x < y
  PROVE  /\ x \div Digits <= y \div Digits
         /\ x \div Digits = y \div Digits => x % Digits < y % Digits
  <1>1. /\ x = Digits * (x \div Digits) + (x % Digits)
        /\ y = Digits * (y \div Digits) + (y % Digits)
        /\ x % Digits \in Field /\ y % Digits \in Field
        /\ x \div Digits \in Nat /\ y \div Digits \in Nat
    BY DigitOf
  <1>2. PICK a \in Nat, b \in Nat, r \in Nat, s \in Nat :
          a = x \div Digits /\ b = y \div Digits /\ r = x % Digits /\ s = y % Digits
    BY <1>1, DigitsAssumption DEF Field
  <1>3. x = Digits * a + r /\ y = Digits * b + s /\ Digits \in Nat \ {0} /\ s < Digits
    BY <1>1, <1>2, DigitsAssumption DEF Field
  <1>4. a <= b
    <2> SUFFICES ASSUME b < a
                 PROVE  FALSE
      OBVIOUS
    <2>1. Digits * b + Digits <= Digits * a
      BY <1>3
    <2> QED  BY <1>3, <2>1
  <1>5. a = b => r < s
    BY <1>3
  <1> QED  BY <1>2, <1>4, <1>5

LEMMA AreUnique == CInv => UniqueInContext
  <1> SUFFICES ASSUME CInv, NEW i \in DOMAIN made, NEW j \in 1 .. i - 1,
                      SameContext(made[i], made[j]), made[i].bytes = made[j].bytes
               PROVE  made[i].seq >= made[j].seq + Laps
    BY DEF UniqueInContext
  <1>1. i \in DOMAIN made /\ j \in DOMAIN made /\ made[i] \in Oid /\ made[j] \in Oid
    BY MadeOids DEF CInv
  <1>2. made[j].seq < made[i].seq /\ made[i].seq \in Nat /\ made[j].seq \in Nat
    BY <1>1 DEF CInv, Counting, Oid
  <1>3. Formed(made[i]) /\ Formed(made[j]) /\ made[i].kind = made[j].kind
    BY <1>1 DEF CInv, Made, SameContext
  <1>4. made[i].seq % Digits = made[j].seq % Digits
        /\ (made[i].kind = "sequence" => made[i].seq \div Digits = made[j].seq \div Digits)
    BY <1>1, <1>3 DEF Formed, Oid, Kinds
  <1> QED  BY <1>2, <1>4, SameDigit DEF Laps

LEMMA AreSequential == CInv => Sequential
  <1> SUFFICES ASSUME CInv, NEW i \in DOMAIN made, NEW j \in 1 .. made[i].known,
                      SameContext(made[i], made[j]), made[i].md5 = made[j].md5,
                      made[j].bytes[1] <= made[i].bytes[1],
                      made[i].kind = "oid" =>
                        made[i].seq \div Digits = made[j].seq \div Digits
               PROVE  Before(made[j].bytes, made[i].bytes)
    BY DEF Sequential, Laps
  <1>1. i \in Nat /\ made[i] \in Oid /\ made[i].known < i
    BY MadeOids DEF CInv, Known
  <1>2. made[i].known \in Nat
    BY <1>1 DEF Oid
  <1>3. j \in 1 .. i - 1 /\ j \in DOMAIN made
    BY <1>1, <1>2, MadeOids DEF CInv
  <1>4. made[j] \in Oid
    BY <1>3, MadeOids DEF CInv
  <1>5. made[j].seq < made[i].seq /\ made[i].seq \in Nat /\ made[j].seq \in Nat
        /\ (made[i].kind = "oid" => PidOf(made[i]) = PidOf(made[j]))
    BY <1>1, <1>3, <1>4 DEF CInv, Counting, Oid
  <1>6. Formed(made[i]) /\ Formed(made[j]) /\ made[i].kind = made[j].kind
        /\ made[i].kind \in Kinds
    BY <1>1, <1>3, <1>4 DEF CInv, Made, SameContext, Oid
  <1> DEFINE x == made[j].bytes  y == made[i].bytes
             a == made[j].seq  b == made[i].seq
  <1>7. /\ a \div Digits <= b \div Digits
        /\ a \div Digits = b \div Digits => a % Digits < b % Digits
        /\ a \div Digits \in Nat /\ b \div Digits \in Nat
    BY <1>5, DigitsInOrder, DigitOf
  <1>8. x[1] <= y[1] /\ x[1] \in Nat /\ y[1] \in Nat /\ 1 \in DOMAIN x
    <2>1. x \in Seq(Nat) /\ y \in Seq(Nat) /\ Len(x) \in {3, 5} /\ Len(y) \in {3, 5}
      BY <1>1, <1>4, <1>6 DEF Oid, Formed, Kinds
    <2> QED  BY <1>1, <2>1, ElementOfSeq, SMTT(30)
  <1>9. CASE x[1] < y[1]
    BY <1>8, <1>9 DEF Before
  <1>10. CASE x[1] = y[1] /\ made[i].kind = "oid"
    <2>1. /\ x[2] = y[2] /\ x[3] = y[3] /\ x[4] = y[4] /\ x[5] < y[5] /\ 5 \in DOMAIN x
      <3>1. x[3] = y[3] /\ x[4] = y[4]
        BY <1>5, <1>10 DEF PidOf
      <3>2. x \in Seq(Nat) /\ Len(x) = 5
        BY <1>4, <1>6, <1>10 DEF Oid, Formed
      <3>3. 5 \in DOMAIN x
        BY <3>2
      <3> QED  BY <1>6, <1>7, <1>10, <3>1, <3>3 DEF Formed
    <2>2. \A m \in 1 .. 5 - 1 : x[m] = y[m]
      <3>1. \A m \in 1 .. 5 - 1 : m \in {1, 2, 3, 4}
        OBVIOUS
      <3> QED  BY <1>10, <2>1, <3>1
    <2> QED  BY <2>1, <2>2 DEF Before
  <1>11. CASE x[1] = y[1] /\ made[i].kind = "sequence"
    <2>1. /\ x[2] = a \div Digits /\ y[2] = b \div Digits
          /\ x[3] = a % Digits /\ y[3] = b % Digits
      BY <1>6, <1>11 DEF Formed
    <2>2. x \in Seq(Nat) /\ Len(x) = 3
      BY <1>4, <1>6, <1>11 DEF Oid, Formed
    <2>3. 2 \in DOMAIN x /\ 3 \in DOMAIN x
      BY <2>2
    <2>4. CASE x[2] < y[2]
      <3>1. \A m \in 1 .. 2 - 1 : x[m] = y[m]
        BY <1>11
      <3> QED  BY <2>3, <2>4, <3>1 DEF Before
    <2>5. CASE x[2] = y[2]
      <3>1. \A m \in 1 .. 3 - 1 : x[m] = y[m]
        <4>1. \A m \in 1 .. 3 - 1 : m \in {1, 2}
          OBVIOUS
        <4> QED  BY <1>11, <2>5, <4>1
      <3>2. x[3] < y[3]
        BY <1>7, <2>1, <2>5
      <3> QED  BY <2>3, <3>1, <3>2 DEF Before
    <2> QED  BY <1>7, <2>1, <2>4, <2>5
  <1> QED  BY <1>6, <1>8, <1>9, <1>10, <1>11 DEF Kinds

LEMMA AreApart == CInv => NumbersApart
  <1> SUFFICES ASSUME CInv, NEW i \in DOMAIN made, NEW j \in 1 .. i - 1,
                      made[i].bytes = made[j].bytes
               PROVE  /\ (/\ made[i].kind = "oid" /\ made[j].kind = "oid"
                          /\ \A x \in {made[i], made[j]} :
                               x.ctx = Default \/ "DISABLE_PID_CACHE" \in x.flags)
                         => LowBytes(made[i].proc) = LowBytes(made[j].proc)
                      /\ ByTask(made[i]) /\ ByTask(made[j])
                         => LowBytes(TaskNumber(made[i].ctx)) = LowBytes(TaskNumber(made[j].ctx))
    BY DEF NumbersApart, ForksApart, TasksApart
  <1>1. j \in DOMAIN made
    BY MadeOids DEF CInv
  <1>2. Formed(made[i]) /\ Formed(made[j])
    BY <1>1 DEF CInv, Made
  <1>3. PidOf(made[i]) = PidOf(made[j])
    BY DEF PidOf
  <1>4. ByTask(made[i]) => made[i].kind = "oid"
    BY DEF ByTask
  <1>5. ByTask(made[j]) => made[j].kind = "oid"
    BY DEF ByTask
  <1> QED  BY <1>2, <1>3, <1>4, <1>5 DEF Formed

-----------------------------------------------------------------------------
(* The theorems.                                                           *)

LEMMA CInvStays == Spec => []CInv
  BY CInvInit, CInvNext, PTL DEF Spec

\* However threads, forks and the two halves of bson_context_get_default's initialization
\* come in turn, no thread calls through a context that is not finished, or was freed.
THEOREM ContextsStayInOrder == Spec => []ContextsInOrder
  BY CInvStays, InOrder, PTL

\* Two threads that share a context, and count its sequence in one step or in two, make
\* the same ObjectID only when the counter went all the way round between them.
THEOREM UniqueIds == Spec => []UniqueInContext
  BY CInvStays, AreUnique, PTL

\* An ObjectID is larger, as memcmp compares them, than all that its context had given
\* when bson_oid_init, or bson_oid_init_sequence, was called, but for those of a later time
\* (the clock was set back), another host name or an earlier round of the counter.
THEOREM SequentialIds == Spec => []Sequential
  BY CInvStays, AreSequential, PTL

\* A child that was forked makes no ObjectID of its parent's with a context that does not
\* keep the process's number, nor a thread that made its context for its own number one of
\* another's, where these numbers differ in the 16 bits that an ObjectID has of them.
THEOREM ApartByNumber == Spec => []NumbersApart
  BY CInvStays, AreApart, PTL
================================================================================
