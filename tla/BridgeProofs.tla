----------------------------- MODULE BridgeProofs -----------------------------
(* Proofs about the bridge and the session it keeps with the server.           *)
EXTENDS Bridge, SequenceTheorems, TLAPS

Places == {"idle", "lock", "connect", "recv", "slow"}
Data == {"read", "none"}
Numbers == 0 .. SeqSize - 1
Operations == Methods \cup {"FAST_POLL", "L1SCALERS", "SLOW_POLL"}

Messages == [type : Requests, seq : Numbers, by : Tasks, modules : SUBSET Modules, value : BOOLEAN]
Replies == [seq : Numbers, ok : BOOLEAN, data : Data, scaling : BOOLEAN]
Published == [status : {"Good", "Uncertain", "Waiting", "Bad"}, data : Data]
PendingCalls == [op : Operations, stage : {"ensure", "op"}, want : Requests, last : Requests,
                 seq : Numbers, data : Data, scaling : BOOLEAN]

Holds(pc) == lockq # <<>> /\ task[Head(lockq)].pc = pc

-----------------------------------------------------------------------------
(* The invariants *)

\* Every task that is under way is in the queue, once, and all but the first wait.
LockInv ==
  /\ lockq \in Seq(Tasks)
  /\ task \in [Tasks -> [pc : Places, op : Methods \cup {"none"}, modules : SUBSET Modules,
                         value : BOOLEAN]]
  /\ \A i \in 1 .. Len(lockq) : task[lockq[i]].pc # "idle" /\ (i > 1 => task[lockq[i]].pc = "lock")
  /\ \A i, j \in 1 .. Len(lockq) : lockq[i] = lockq[j] => i = j
  /\ \A t \in Tasks : task[t].pc # "idle" => \E i \in 1 .. Len(lockq) : lockq[i] = t
  /\ \A t \in Calls : task[t].pc # "idle" => task[t].op \in Methods
  /\ task[Poll].op = "none"

LinkTypes ==
  /\ connected \in BOOLEAN /\ contact \in -1 .. Lifetime
  /\ backoff \in 1 .. MaxBackoff /\ wait \in 0 .. MaxBackoff

PollingTypes == pollEvent \in BOOLEAN /\ cycle \in 0 .. Ratio - 1 /\ scaling \in BOOLEAN

PublishedTypes == fast \in Published /\ slow \in Published /\ mutable \in SUBSET Modules

BridgeTypes ==
  /\ immutable \in SUBSET Modules
  /\ LinkTypes /\ PollingTypes /\ PublishedTypes
  /\ writer \in {"none", "open", "closing"} /\ eof \in BOOLEAN
  /\ seq \in Numbers
  /\ applied \in SUBSET Calls /\ sealed \in SUBSET Modules

ServerTypes ==
  /\ session \in {"none", "cur", "old"} /\ backlog \in Seq({"cur", "old"})
  /\ inbox \in Seq(Messages) /\ stale \in Seq(Messages) /\ outbox \in Seq(Replies)
  /\ configured \in BOOLEAN /\ config \in SUBSET Modules
  /\ on \in SUBSET Modules /\ cancels \in 0 .. MaxCancels

CallInv == Holds("connect") \/ Holds("recv") => call \in PendingCalls

TypesInv == LockInv /\ BridgeTypes /\ ServerTypes /\ CallInv

\* Nothing is under way, except what a connection has left that is about to be closed.
Quiet == inbox = <<>> /\ (writer = "open" => outbox = <<>>)
NoneComing == \A i \in DOMAIN backlog : backlog[i] # "cur"

\* A session that has a configuration has the present masks.
Aligned == configured = TRUE => config = immutable

\* Only after a reset is a session used that has none.
Settled == Aligned /\ (Resets = FALSE => configured = TRUE)

\* Without a connection nothing of it is left at the server.
ClosedInv ==
  /\ writer # "open" => inbox = <<>> /\ session # "cur" /\ NoneComing
  /\ writer = "none" => ~Holds("recv")
  /\ writer # "none" => wait = 0
  /\ ~Holds("recv") => Quiet

\* With one, a session that nobody is setting up is settled.
OpenInv ==
  writer = "open" =>
    /\ ~Holds("connect")
    /\ ~Holds("recv") /\ session = "cur" => Settled
    /\ \A i \in DOMAIN backlog : backlog[i] = "cur" =>
         /\ Holds("recv") /\ call.last = "HELLO" /\ session # "cur" /\ outbox = <<>>
         /\ \A j \in DOMAIN backlog : backlog[j] = "cur" => j = i

\* The requests of _ensure_connected and the one of the operation.
Fits(c) ==
  /\ c.stage = "ensure" => c.want \in {"HELLO", "SET_CONFIG"} /\ c.op # "L1SCALERS"
  /\ c.stage = "op" => c.want = RequestOf(c.op) /\ c.want # "HELLO"

\* Only after a reset is a connection made for another request than HELLO.
ConnectInv ==
  Holds("connect") =>
    /\ writer # "open" /\ wait = 0 /\ Fits(call)
    /\ Resets = FALSE => call.want = "HELLO"

LinkInv == connected = TRUE => wait = 0

\* The request under way and what will come of it.
StageInv ==
  Holds("recv") =>
    /\ Fits(call) /\ call.seq = seq
    /\ call.want = call.last \/ (Resets = TRUE /\ call.last = "HELLO")
    /\ Resets = FALSE /\ call.last = "L1SCALERS" => call.data = "read"
    /\ session = "cur" /\ call.last = "HELLO" => configured = FALSE
    /\ session = "cur" /\ call.last \notin {"HELLO", "SET_CONFIG"} => Settled

\* Nothing is sent but this request, and nothing answered but this.
ExchangeInv ==
  Holds("recv") =>
    /\ inbox # <<>> => inbox = <<Head(inbox)>> /\ outbox = <<>>
    /\ outbox # <<>> => outbox = <<Head(outbox)>>
    /\ inbox = <<>> /\ outbox = <<>> => session # "cur" /\ NoneComing
    /\ inbox # <<>> => /\ Head(inbox).type = call.last /\ Head(inbox).seq = call.seq
                       /\ call.last = "SET_CONFIG" => Head(inbox).modules = immutable
    /\ outbox # <<>> =>
         /\ Head(outbox).seq = call.seq
         /\ call.last \notin ModuleOps => Head(outbox).ok = TRUE
         /\ Resets = FALSE /\ call.last \in {"FAST_POLL", "L1SCALERS"} => Head(outbox).data = "read"
         /\ call.last = "SET_CONFIG" /\ session = "cur" => Settled

\* What holds only as long as no connection is reset.
GoodInv == Resets = FALSE => writer # "closing" /\ GoodMeansRead

SessionInv ==
  ClosedInv /\ OpenInv /\ ConnectInv /\ LinkInv /\ StageInv /\ ExchangeInv /\ GoodInv

\* What a method has promised, or is about to promise.
Owner == Head(lockq)

SealInv == sealed \subseteq immutable

\* The request under way is its owner's, and a module being made immutable is so already.
OwnerInv ==
  Holds("connect") \/ Holds("recv") =>
    /\ call.op \in Methods => Owner \in Calls /\ task[Owner].op = call.op
    /\ call.op = "IMMUTABLE" /\ task[Owner].value => task[Owner].modules \subseteq immutable

SingleInv == \A t \in Calls : task[t].op \in ModuleOps => \E m \in Modules : task[t].modules = {m}

\* A command that is answered without an ERROR was acted on, or passed over as it should be.
ApplyInv ==
  Holds("recv") =>
    /\ inbox # <<>> => /\ Head(inbox).by = Owner
                       /\ call.last \in ModuleOps => Head(inbox).modules = task[Owner].modules
    /\ /\ outbox # <<>> /\ Head(outbox).ok
       /\ Owner \in Calls
       /\ call.last \in ModuleOps \/ (Resets = FALSE /\ call.last = "CRATE")
       => \/ Owner \in applied
          \/ task[Owner].op = "POWER" /\ task[Owner].modules \subseteq immutable

\* What holds of a method whether or not its request is answered in its turn.
PledgeInv == SealInv /\ OwnerInv /\ SingleInv

PromiseInv == PledgeInv /\ ApplyInv

\* How many numbers before s the number n was in turn.
Age(n, s) == IF n <= s THEN s - n ELSE s - n + SeqSize

Turn == IF Holds("recv") THEN 1 ELSE 0

\* The server has the API's connection, or will have it.
Heard == session = "cur" \/ ~NoneComing

LateReplies(g) == \A i \in 1 .. Len(outbox) : Age(outbox[i].seq, seq) = g + Turn - i

LateRequests(g) ==
  Heard => /\ Len(outbox) + Len(inbox) = g + Turn
           /\ \A i \in 1 .. Len(inbox) : Age(inbox[i].seq, seq) = g + Turn - Len(outbox) - i

\* A connection of the API waits to be accepted at most once, and before it is served.
OneComing ==
  \A i \in DOMAIN backlog : backlog[i] = "cur" =>
    session # "cur" /\ \A j \in DOMAIN backlog : backlog[j] = "cur" => j = i

\* A method cancelled while it waited has left its reply behind: whoever asks next
\* reads the reply to the request g before his own, until the connection ends.
LateInv(g) ==
  /\ writer # "none" /\ wait = 0 /\ ~Holds("connect") /\ GoodInv /\ OneComing
  /\ writer = "closing" => Holds("recv") /\ ~Heard /\ inbox = <<>>
  /\ Holds("recv") => call.stage = "op" /\ call.seq = seq
  /\ LateReplies(g) /\ LateRequests(g)

Late == \E g \in 1 .. cancels : LateInv(g)

\* As long as fewer methods are cancelled than there are sequence numbers, a request
\* is answered in its turn or never.
Kept == cancels < SeqSize => (SessionInv /\ PromiseInv) \/ (Late /\ PledgeInv)

\* Without timeouts a connection is given up only after the server has closed it,
\* and the server spares what is sealed.
PunctualInv ==
  /\ stale = <<>> /\ (eof = TRUE => ~Heard)
  /\ session = "cur" /\ configured = TRUE => sealed \subseteq config
  /\ Heard => \A i \in 1 .. Len(inbox) : inbox[i].type = "SET_CONFIG" => sealed \subseteq inbox[i].modules

Punctual == cancels < SeqSize => PunctualInv

-----------------------------------------------------------------------------
(* The lock *)

Steps == {"connect", "recv", "slow"}

\* The ways a step changes the queue and the places of the tasks.
Enters(t) ==
  /\ task[t].pc = "idle" /\ lockq' = Append(lockq, t)
  /\ \E x \in [pc : {"lock"}, op : Methods \cup {"none"}, modules : SUBSET Modules,
               value : BOOLEAN] :
       /\ t \in Calls => x.op \in Methods
       /\ t \notin Calls => x.op = "none"
       /\ task' = [task EXCEPT ![t] = x]

Stays(t, pc) == lockq' = lockq /\ Goto(t, pc)

Leaves(t) == lockq' = Tail(lockq) /\ task' = [task EXCEPT ![t] = Idle]

LEMMA ConstantTypes ==
  /\ Ratio \in Nat \ {0} /\ Lifetime \in Nat /\ MaxBackoff \in Nat \ {0} /\ SeqSize \in Nat \ {0}
  /\ Methods \subseteq {"POWER", "TRIGGER", "CRATE", "IMMUTABLE"}
  /\ Poll \in Tasks /\ Calls \subseteq Tasks /\ Poll \notin Calls
  BY TasksAssumption, MethodsAssumption, BridgeAssumption DEF Tasks

LEMMA NotEmpty ==
  ASSUME NEW S, NEW s \in Seq(S)
  PROVE  /\ s # <<>> <=> Len(s) > 0
         /\ s # <<>> => Head(s) = s[1] /\ 1 \in 1 .. Len(s) /\ Head(s) \in S
<1>1. s # <<>> <=> Len(s) # 0
  BY EmptySeq
<1>2. Len(s) \in Nat
  BY LenProperties
<1>3. s # <<>> => Head(s) = s[1] /\ Head(s) \in S
  BY HeadTailProperties
<1>4. QED
  BY <1>1, <1>2, <1>3

LEMMA HolderIs ==
  ASSUME LockInv, NEW t, HoldsLock(t)
  PROVE  /\ t \in Tasks /\ lockq # <<>> /\ t = lockq[1] /\ 1 \in 1 .. Len(lockq)
         /\ task[t].pc # "idle" /\ Head(lockq) = t
  BY NotEmpty DEF LockInv, HoldsLock

LEMMA EntersKeepsLock ==
  ASSUME LockInv, NEW t \in Tasks, Enters(t)
  PROVE  /\ LockInv'
         /\ \A pc \in Steps : Holds(pc)' <=> Holds(pc)
<1> PICK x \in [pc : {"lock"}, op : Methods \cup {"none"}, modules : SUBSET Modules,
                value : BOOLEAN] :
      /\ t \in Calls => x.op \in Methods
      /\ t \notin Calls => x.op = "none"
      /\ task' = [task EXCEPT ![t] = x]
  BY DEF Enters
<1>1. /\ lockq' = Append(lockq, t) /\ lockq' \in Seq(Tasks) /\ Len(lockq') = Len(lockq) + 1
      /\ \A i \in 1 .. Len(lockq) : lockq'[i] = lockq[i]
      /\ lockq'[Len(lockq) + 1] = t /\ Len(lockq) \in Nat
  BY AppendProperties, LenProperties DEF LockInv, Enters
<1>2. \A i \in 1 .. Len(lockq) : lockq[i] # t
  BY DEF LockInv, Enters
<1>3. \A u \in Tasks : task'[u] = IF u = t THEN x ELSE task[u]
  BY DEF LockInv
<1>4. \A i \in 1 .. Len(lockq') : i \in 1 .. Len(lockq) \/ i = Len(lockq) + 1
  BY <1>1
<1>5. task' \in [Tasks -> [pc : Places, op : Methods \cup {"none"}, modules : SUBSET Modules,
                           value : BOOLEAN]]
  BY DEF LockInv, Places
<1>6. \A i \in 1 .. Len(lockq) : lockq[i] \in Tasks
  BY <1>1 DEF LockInv
<1>7. /\ \A i \in 1 .. Len(lockq') : task'[lockq'[i]].pc # "idle" /\ (i > 1 => task'[lockq'[i]].pc = "lock")
      /\ \A i, j \in 1 .. Len(lockq') : lockq'[i] = lockq'[j] => i = j
  BY <1>1, <1>2, <1>3, <1>4, <1>6 DEF LockInv
<1>8. \A u \in Tasks : task'[u].pc # "idle" => \E i \in 1 .. Len(lockq') : lockq'[i] = u
  <2> SUFFICES ASSUME NEW u \in Tasks, task'[u].pc # "idle"
               PROVE  \E i \in 1 .. Len(lockq') : lockq'[i] = u
    OBVIOUS
  <2>1. CASE u = t
    BY <1>1, <2>1
  <2>2. CASE u # t
    <3>1. PICK i \in 1 .. Len(lockq) : lockq[i] = u
      BY <1>3, <2>2 DEF LockInv
    <3>2. QED
      BY <1>1, <3>1
  <2>3. QED
    BY <2>1, <2>2
<1>9. /\ \A u \in Calls : task'[u].pc # "idle" => task'[u].op \in Methods
      /\ task'[Poll].op = "none"
  BY <1>3, ConstantTypes DEF LockInv, Tasks
<1>10. LockInv'
  BY <1>1, <1>5, <1>7, <1>8, <1>9 DEF LockInv
<1>11. ASSUME NEW pc \in Steps PROVE Holds(pc)' <=> Holds(pc)
  <2>1. lockq' # <<>> /\ Head(lockq') = lockq'[1]
    BY <1>1, NotEmpty
  <2>2. CASE lockq = <<>>
    <3>1. lockq'[1] = t
      BY <1>1, <2>2
    <3>2. QED
      BY <1>3, <2>1, <2>2, <3>1 DEF Holds, Steps
  <2>3. CASE lockq # <<>>
    <3>1. Head(lockq) = lockq[1] /\ 1 \in 1 .. Len(lockq)
      BY <2>3, NotEmpty DEF LockInv
    <3>2. lockq'[1] = lockq[1] /\ task'[lockq[1]] = task[lockq[1]]
      BY <1>1, <1>2, <1>3, <1>6, <3>1
    <3>3. QED
      BY <2>1, <2>3, <3>1, <3>2 DEF Holds
  <2>4. QED
    BY <2>2, <2>3
<1>12. QED
  BY <1>10, <1>11

LEMMA StaysKeepsLock ==
  ASSUME LockInv, NEW t, HoldsLock(t), NEW pc \in Steps, Stays(t, pc)
  PROVE  /\ LockInv'
         /\ \A p : Holds(p)' <=> p = pc
<1>1. t \in Tasks /\ lockq # <<>> /\ t = lockq[1] /\ 1 \in 1 .. Len(lockq) /\ Head(lockq) = t
      /\ task[t].pc # "idle"
  BY HolderIs
<1>2. lockq' = lockq /\ task' = [task EXCEPT ![t].pc = pc]
  BY DEF Stays, Goto
<1>3. \A u \in Tasks : /\ task'[u].pc = IF u = t THEN pc ELSE task[u].pc
                       /\ task'[u].op = task[u].op
  BY <1>2 DEF LockInv
<1>4. task' \in [Tasks -> [pc : Places, op : Methods \cup {"none"}, modules : SUBSET Modules,
                           value : BOOLEAN]]
  BY <1>1, <1>2, SMTT(30) DEF LockInv, Places, Steps
<1>5. \A i \in 1 .. Len(lockq) : lockq[i] \in Tasks
  BY DEF LockInv
<1>6. \A i \in 1 .. Len(lockq) : task'[lockq[i]].pc # "idle" /\ (i > 1 => task'[lockq[i]].pc = "lock")
  BY <1>1, <1>3, <1>5 DEF LockInv, Steps
<1>7. /\ \A u \in Tasks : task'[u].pc # "idle" => \E i \in 1 .. Len(lockq) : lockq[i] = u
      /\ \A u \in Calls : task'[u].pc # "idle" => task'[u].op \in Methods
      /\ task'[Poll].op = "none"
  BY <1>1, <1>3, ConstantTypes DEF LockInv, Tasks
<1>8. LockInv'
  BY <1>2, <1>4, <1>6, <1>7 DEF LockInv
<1>9. \A p : Holds(p)' <=> p = pc
  BY <1>1, <1>2, <1>3 DEF Holds
<1>10. QED
  BY <1>8, <1>9

LEMMA LeavesKeepsLock ==
  ASSUME LockInv, NEW t, HoldsLock(t), Leaves(t)
  PROVE  /\ LockInv'
         /\ \A pc \in Steps : ~Holds(pc)'
<1>1. t \in Tasks /\ lockq # <<>> /\ t = lockq[1] /\ 1 \in 1 .. Len(lockq)
  BY HolderIs
<1>2. lockq' = Tail(lockq) /\ task' = [task EXCEPT ![t] = Idle]
  BY DEF Leaves
<1>3. /\ lockq' \in Seq(Tasks) /\ Len(lockq') = Len(lockq) - 1 /\ Len(lockq) \in Nat
      /\ \A i \in 1 .. Len(lockq') : lockq'[i] = lockq[i + 1]
  BY <1>1, <1>2, HeadTailProperties, LenProperties DEF LockInv
<1>4. \A u \in Tasks : task'[u] = IF u = t THEN Idle ELSE task[u]
  BY <1>2 DEF LockInv
<1>5. task' \in [Tasks -> [pc : Places, op : Methods \cup {"none"}, modules : SUBSET Modules,
                           value : BOOLEAN]]
  BY <1>1, <1>2 DEF LockInv, Places, Idle
<1>6. \A i \in 1 .. Len(lockq') : i + 1 \in 1 .. Len(lockq) /\ i + 1 > 1
  BY <1>3
<1>7. \A i \in 1 .. Len(lockq) : lockq[i] \in Tasks
  BY DEF LockInv
<1>8. \A i \in 1 .. Len(lockq') : lockq'[i] \in Tasks \ {t} /\ task'[lockq'[i]].pc = "lock"
  BY <1>1, <1>3, <1>4, <1>6, <1>7 DEF LockInv
<1>9. \A i, j \in 1 .. Len(lockq') : lockq'[i] = lockq'[j] => i = j
  BY <1>3, <1>6 DEF LockInv
<1>10. \A u \in Tasks : task'[u].pc # "idle" => \E i \in 1 .. Len(lockq') : lockq'[i] = u
  <2> SUFFICES ASSUME NEW u \in Tasks, task'[u].pc # "idle"
               PROVE  \E i \in 1 .. Len(lockq') : lockq'[i] = u
    OBVIOUS
  <2>1. u # t /\ task[u].pc # "idle"
    BY <1>4 DEF Idle
  <2>2. PICK i \in 1 .. Len(lockq) : lockq[i] = u
    BY <2>1 DEF LockInv
  <2>3. i - 1 \in 1 .. Len(lockq')
    BY <1>1, <1>3, <2>1, <2>2
  <2>4. lockq'[i - 1] = u
    BY <1>3, <2>2, <2>3
  <2>5. QED
    BY <2>3, <2>4
<1>11. /\ \A u \in Calls : task'[u].pc # "idle" => task'[u].op \in Methods
       /\ task'[Poll].op = "none"
  BY <1>4, ConstantTypes DEF LockInv, Tasks, Idle
<1>12. LockInv'
  BY <1>3, <1>5, <1>8, <1>9, <1>10, <1>11 DEF LockInv
<1>13. \A pc \in Steps : ~Holds(pc)'
  <2>1. lockq' # <<>> => Head(lockq') = lockq'[1] /\ 1 \in 1 .. Len(lockq')
    BY <1>3, NotEmpty
  <2>2. QED
    BY <1>8, <2>1 DEF Holds, Steps
<1>14. QED
  BY <1>12, <1>13

LEMMA CancelKeepsLock ==
  ASSUME LockInv, NEW t \in Calls, Cancel(t)
  PROVE  /\ LockInv'
         /\ \A pc \in Steps : Holds(pc)' => Holds(pc) /\ ~HoldsLock(t)
         /\ ~HoldsLock(t) /\ lockq # <<>> =>
              Head(lockq') = Head(lockq) /\ task'[Head(lockq)] = task[Head(lockq)] /\ lockq' # <<>>
<1> DEFINE n == Len(lockq)
<1>1. t \in Tasks /\ task[t].pc # "idle" /\ task' = [task EXCEPT ![t] = Idle]
      /\ lockq' = [i \in 1 .. n - 1 |->
                     IF \E j \in 1 .. i : lockq[j] = t THEN lockq[i + 1] ELSE lockq[i]]
  BY DEF Cancel, Tasks
<1>2. PICK k \in 1 .. n : lockq[k] = t
  BY <1>1 DEF LockInv
<1>3. n \in Nat /\ \A i \in 1 .. n : lockq[i] \in Tasks
  BY LenProperties DEF LockInv
<1>4. \A i \in 1 .. n : lockq[i] = t => i = k
  BY <1>2 DEF LockInv
<1>5. n - 1 \in Nat /\ k \in Nat
  BY <1>2, <1>3
<1>6. \A i \in 1 .. n - 1 : lockq'[i] = IF i >= k THEN lockq[i + 1] ELSE lockq[i]
  <2> SUFFICES ASSUME NEW i \in 1 .. n - 1
               PROVE  lockq'[i] = IF i >= k THEN lockq[i + 1] ELSE lockq[i]
    OBVIOUS
  <2>1. (\E j \in 1 .. i : lockq[j] = t) <=> i >= k
    BY <1>2, <1>3, <1>4, <1>5
  <2>2. lockq'[i] = IF \E j \in 1 .. i : lockq[j] = t THEN lockq[i + 1] ELSE lockq[i]
    BY <1>1
  <2>3. QED
    BY <2>1, <2>2
<1>7. \A i \in 1 .. n - 1 : i + 1 \in 1 .. n /\ i \in 1 .. n
  BY <1>3
<1>8. lockq' \in [1 .. n - 1 -> Tasks]
  <2>1. \A i \in 1 .. n - 1 : lockq'[i] \in Tasks
    BY <1>3, <1>6, <1>7
  <2>2. QED
    BY <1>1, <2>1
<1>9. lockq' \in Seq(Tasks) /\ Len(lockq') = n - 1
  <2>1. lockq' \in Seq(Tasks)
    BY <1>5, <1>8, SeqDef
  <2>2. DOMAIN lockq' = 1 .. n - 1 /\ DOMAIN lockq' = 1 .. Len(lockq') /\ Len(lockq') \in Nat
    BY <1>8, <2>1, LenProperties
  <2>3. QED
    BY <1>5, <2>1, <2>2
<1> HIDE DEF n
<1>10. \A u \in Tasks : task'[u] = IF u = t THEN Idle ELSE task[u]
  BY <1>1 DEF LockInv
<1>11. task' \in [Tasks -> [pc : Places, op : Methods \cup {"none"}, modules : SUBSET Modules,
                            value : BOOLEAN]]
  BY <1>1 DEF LockInv, Places, Idle
\* Where a task of the new queue stood in the old one.
<1> DEFINE Old(i) == IF i >= k THEN i + 1 ELSE i
<1>12. \A i \in 1 .. n - 1 : /\ Old(i) \in 1 .. n /\ Old(i) # k /\ lockq'[i] = lockq[Old(i)]
                             /\ i > 1 => Old(i) > 1
  <2>1. \A i \in 1 .. n - 1 : Old(i) \in 1 .. n /\ Old(i) # k /\ (i > 1 => Old(i) > 1)
    BY <1>2, <1>3, <1>5
  <2>2. QED
    BY <1>6, <2>1
<1>13. \A i, j \in 1 .. n - 1 : Old(i) = Old(j) => i = j
  BY <1>5
<1> HIDE DEF Old
<1>14. \A i \in 1 .. n - 1 : lockq'[i] \in Tasks \ {t} /\ task'[lockq'[i]] = task[lockq[Old(i)]]
  <2> SUFFICES ASSUME NEW i \in 1 .. n - 1
               PROVE  lockq'[i] \in Tasks \ {t} /\ task'[lockq'[i]] = task[lockq[Old(i)]]
    OBVIOUS
  <2>1. Old(i) \in 1 .. n /\ Old(i) # k /\ lockq'[i] = lockq[Old(i)]
    BY <1>12
  <2>2. lockq'[i] \in Tasks /\ lockq'[i] # t
    BY <1>3, <1>4, <2>1
  <2>3. QED
    BY <1>10, <2>1, <2>2
<1>15. \A i \in 1 .. Len(lockq') : task'[lockq'[i]].pc # "idle" /\ (i > 1 => task'[lockq'[i]].pc = "lock")
  BY <1>9, <1>12, <1>14 DEF LockInv, n
<1>16. \A i, j \in 1 .. Len(lockq') : lockq'[i] = lockq'[j] => i = j
  <2> SUFFICES ASSUME NEW i \in 1 .. n - 1, NEW j \in 1 .. n - 1, lockq'[i] = lockq'[j]
               PROVE  i = j
    BY <1>9
  <2>1. Old(i) \in 1 .. n /\ Old(j) \in 1 .. n /\ lockq[Old(i)] = lockq[Old(j)]
    BY <1>12
  <2>2. Old(i) = Old(j)
    BY <2>1 DEF LockInv, n
  <2>3. QED
    BY <1>13, <2>2
<1>17. \A u \in Tasks : task'[u].pc # "idle" => \E i \in 1 .. Len(lockq') : lockq'[i] = u
  <2> SUFFICES ASSUME NEW u \in Tasks, task'[u].pc # "idle"
               PROVE  \E i \in 1 .. Len(lockq') : lockq'[i] = u
    OBVIOUS
  <2>1. u # t /\ task[u].pc # "idle"
    BY <1>10 DEF Idle
  <2>2. PICK i \in 1 .. n : lockq[i] = u
    BY <2>1 DEF LockInv, n
  <2>3. i # k
    BY <1>2, <2>1, <2>2
  <2>4. CASE i < k
    <3>1. i \in 1 .. n - 1 /\ lockq'[i] = u
      BY <1>2, <1>3, <1>5, <1>6, <2>2, <2>4
    <3>2. QED
      BY <1>9, <3>1
  <2>5. CASE i > k
    <3>1. i - 1 \in 1 .. n - 1 /\ i - 1 >= k /\ (i - 1) + 1 = i
      BY <1>2, <1>3, <1>5, <2>5
    <3>2. lockq'[i - 1] = u
      BY <1>6, <2>2, <3>1
    <3>3. QED
      BY <1>9, <3>1, <3>2
  <2>6. QED
    BY <1>5, <2>3, <2>4, <2>5
<1>18. /\ \A u \in Calls : task'[u].pc # "idle" => task'[u].op \in Methods
       /\ task'[Poll].op = "none"
  BY <1>10, ConstantTypes DEF LockInv, Tasks, Idle
<1>19. LockInv'
  BY <1>9, <1>11, <1>15, <1>16, <1>17, <1>18 DEF LockInv
<1>20. ASSUME NEW pc \in Steps, Holds(pc)' PROVE Holds(pc) /\ ~HoldsLock(t)
  <2>1. lockq' # <<>> /\ Head(lockq') = lockq'[1] /\ 1 \in 1 .. n - 1 /\ task'[lockq'[1]].pc = pc
    BY <1>9, <1>20, NotEmpty DEF Holds
  <2>2. task[lockq[Old(1)]].pc = pc /\ Old(1) \in 1 .. n
    BY <1>12, <1>14, <2>1
  <2>3. Old(1) = 1 /\ k # 1
    <3>1. ~(Old(1) > 1)
      BY <2>2 DEF LockInv, Steps, n
    <3>2. QED
      BY <1>12, <2>1, <2>2, <3>1
  <2>4. Head(lockq) = lockq[1] /\ lockq # <<>> /\ lockq[1] # t
    <3>1. lockq # <<>> /\ Head(lockq) = lockq[1]
      BY <2>1, <1>3, NotEmpty DEF LockInv, n
    <3>2. lockq[1] # t
      BY <1>4, <2>2, <2>3
    <3>3. QED
      BY <3>1, <3>2
  <2>5. QED
    BY <2>2, <2>3, <2>4 DEF Holds, HoldsLock
<1>21. ASSUME ~HoldsLock(t), lockq # <<>>
       PROVE  Head(lockq') = Head(lockq) /\ task'[Head(lockq)] = task[Head(lockq)] /\ lockq' # <<>>
  <2>1. Head(lockq) = lockq[1] /\ lockq[1] # t /\ k # 1 /\ lockq[1] \in Tasks
    BY <1>2, <1>3, <1>21, NotEmpty DEF LockInv, HoldsLock
  <2>2. 1 \in 1 .. n - 1 /\ ~(1 >= k)
    BY <1>2, <1>3, <2>1
  <2>3. lockq' # <<>> /\ Head(lockq') = lockq'[1]
    BY <1>9, <2>2, NotEmpty
  <2>4. QED
    BY <1>6, <1>10, <2>1, <2>2, <2>3
<1>22. QED
  BY <1>19, <1>20, <1>21

-----------------------------------------------------------------------------
(* Types *)

\* The holder of the lock waits for the network, or for nothing more.
Continues(t) == call' \in PendingCalls /\ (Stays(t, "connect") \/ Stays(t, "recv"))
Returns(t) == call' = NoCall /\ (Stays(t, "slow") \/ Leaves(t))

LEMMA HolderGoesOn ==
  ASSUME LockInv, NEW t, HoldsLock(t), Continues(t) \/ Returns(t)
  PROVE  LockInv' /\ CallInv'
<1>1. CASE Continues(t)
  BY <1>1, StaysKeepsLock DEF Continues, CallInv, Steps
<1>2. CASE Stays(t, "slow")
  BY <1>2, StaysKeepsLock DEF CallInv, Steps
<1>3. CASE Leaves(t)
  BY <1>3, LeavesKeepsLock DEF CallInv, Steps
<1>4. QED
  BY <1>1, <1>2, <1>3 DEF Returns

LEMMA Counting ==
  /\ seq \in Int => NextSeq \in Numbers
  /\ cycle \in Int => (cycle + 1) % Ratio \in 0 .. Ratio - 1
  /\ 0 \in Numbers /\ 0 \in 0 .. Ratio - 1
<1>1. \A m \in Nat \ {0} : \A n \in Int : n % m \in 0 .. m - 1
  OBVIOUS
<1>2. ASSUME seq \in Int PROVE (seq + 1) % SeqSize \in 0 .. SeqSize - 1
  <2>1. seq + 1 \in Int
    BY <1>2
  <2>2. QED
    BY <1>1, <2>1, ConstantTypes
<1>3. ASSUME cycle \in Int PROVE (cycle + 1) % Ratio \in 0 .. Ratio - 1
  <2>1. cycle + 1 \in Int
    BY <1>3
  <2>2. QED
    BY <1>1, <2>1, ConstantTypes
<1>4. QED
  BY <1>2, <1>3, ConstantTypes DEF NextSeq, Numbers

LEMMA OperationRequests ==
  ASSUME NEW op \in Operations
  PROVE  RequestOf(op) \in Requests
  BY ConstantTypes DEF Operations, RequestOf, Requests, ModuleOps

LEMMA NewCallType ==
  ASSUME NEW op \in Operations, NEW stage \in {"ensure", "op"}, NEW want \in Requests
  PROVE  NewCall(op, stage, want) \in PendingCalls
  BY ConstantTypes DEF NewCall, PendingCalls, Numbers, Data

LEMMA NumberedType ==
  ASSUME LockInv, NEW t \in Tasks, NEW type \in Requests, NEW n \in Numbers,
         immutable' \in SUBSET Modules
  PROVE  Numbered(t, type, n) \in Messages
  BY DEF LockInv, Numbered, Messages, Payload, Masks

LEMMA RequestTypes ==
  ASSUME LockInv, ServerTypes, seq \in Numbers, NEW t, HoldsLock(t), NEW c \in PendingCalls,
         Request(t, c), immutable' \in SUBSET Modules
  PROVE  /\ Continues(t) /\ seq' \in Numbers /\ inbox' \in Seq(Messages)
         /\ UNCHANGED <<writer, eof>>
<1>1. t \in Tasks /\ c.want \in Requests /\ NextSeq \in Numbers
  BY HolderIs, Counting DEF PendingCalls, Numbers
<1>2. Numbered(t, c.want, NextSeq) \in Messages
  BY <1>1, NumberedType
<1>3. CASE writer = "open"
  <2>1. /\ inbox' = Append(inbox, Numbered(t, c.want, NextSeq)) /\ seq' = NextSeq
        /\ call' = [c EXCEPT !.last = c.want, !.seq = NextSeq] /\ Stays(t, "recv")
    BY <1>3 DEF Request, Send, Stays
  <2>2. call' \in PendingCalls
    BY <1>1, <2>1 DEF PendingCalls
  <2>3. inbox' \in Seq(Messages)
    BY <1>2, <2>1, AppendProperties DEF ServerTypes
  <2>4. QED
    BY <1>1, <2>1, <2>2, <2>3 DEF Continues, Request
<1>4. CASE writer # "open"
  BY <1>4 DEF Request, Continues, Stays, ServerTypes
<1>5. QED
  BY <1>3, <1>4

LEMMA StatusType ==
  ASSUME NEW c \in BOOLEAN, NEW d \in Data
  PROVE  Values(c, d) \in Published /\ (Values(c, d).status = "Good" <=> c = TRUE)
  BY DEF Values, Status, Published

LEMMA NotConnectedTypes ==
  ASSUME TypesInv, NEW t, HoldsLock(t), NEW op, NotConnected(t, op),
         connected' \in BOOLEAN, immutable' \in SUBSET Modules
  PROVE  Returns(t) /\ PublishedTypes' /\ PollingTypes' /\ sealed' \in SUBSET Modules
<1>1. /\ t \in Tasks /\ sealed \in SUBSET Modules /\ task[t].modules \in SUBSET Modules
      /\ PublishedTypes /\ PollingTypes /\ cycle \in Int
  BY HolderIs DEF TypesInv, BridgeTypes, LockInv, PollingTypes
<1>2. Unsealed(t) \in SUBSET Modules
  BY <1>1 DEF Unsealed
<1>3. Values(connected', "none") \in Published /\ (cycle + 1) % Ratio \in 0 .. Ratio - 1
  BY <1>1, StatusType, Counting DEF Data
<1>4. CASE op = "FAST_POLL"
  BY <1>1, <1>2, <1>3, <1>4
     DEF NotConnected, PublishNothing, Returns, Stays, PublishedTypes, PollingTypes, polling
<1>5. CASE op = "SLOW_POLL"
  BY <1>1, <1>2, <1>3, <1>5
     DEF NotConnected, Finish, Leaves, Returns, PublishedTypes, PollingTypes
<1>6. CASE op = "IMMUTABLE"
  BY <1>1, <1>2, <1>6
     DEF NotConnected, Finish, Leaves, Returns, PublishedTypes, PollingTypes
<1>7. CASE op \notin {"FAST_POLL", "SLOW_POLL", "IMMUTABLE"}
  <2>1. Finish(t) /\ sealed' = Unsealed(t) /\ UNCHANGED <<published, polling>>
    BY <1>7 DEF NotConnected
  <2>2. QED
    BY <1>1, <1>2, <2>1 DEF Finish, Leaves, Returns, PublishedTypes, PollingTypes, published, polling
<1>8. QED
  BY <1>4, <1>5, <1>6, <1>7

LEMMA RaisedTypes ==
  ASSUME TypesInv, NEW t, HoldsLock(t), NEW op, Raised(t, op)
  PROVE  /\ Returns(t) /\ PublishedTypes' /\ PollingTypes' /\ LinkTypes'
         /\ UNCHANGED <<wait, backoff, contact>> /\ connected' \in {connected, FALSE}
<1>1. PublishedTypes /\ PollingTypes /\ LinkTypes /\ cycle \in Int /\ connected \in BOOLEAN
  BY DEF TypesInv, BridgeTypes, PollingTypes, LinkTypes
<1>2. /\ Values(FALSE, "none") \in Published /\ Values(connected, "none") \in Published
      /\ (cycle + 1) % Ratio \in 0 .. Ratio - 1
  BY <1>1, StatusType, Counting DEF Data
<1>3. CASE op \in {"FAST_POLL", "L1SCALERS"}
  BY <1>1, <1>2, <1>3
     DEF Raised, PublishNothing, Returns, Stays, PublishedTypes, PollingTypes, LinkTypes, polling
<1>4. CASE op = "SLOW_POLL"
  BY <1>1, <1>2, <1>4
     DEF Raised, Finish, Leaves, Returns, PublishedTypes, PollingTypes, LinkTypes, link
<1>5. CASE op \notin {"FAST_POLL", "L1SCALERS", "SLOW_POLL"}
  <2>1. Finish(t) /\ UNCHANGED <<published, polling, link>>
    BY <1>5 DEF Raised
  <2>2. QED
    BY <1>1, <2>1
       DEF Finish, Leaves, Returns, PublishedTypes, PollingTypes, LinkTypes, published, polling, link
<1>6. QED
  BY <1>3, <1>4, <1>5

LEMMA FailedTypes ==
  ASSUME TypesInv, NEW t, HoldsLock(t), Failed(t), immutable' \in SUBSET Modules
  PROVE  Returns(t) /\ PublishedTypes' /\ PollingTypes' /\ LinkTypes' /\ sealed' \in SUBSET Modules
<1>1. CASE call.stage = "op" /\ Raised(t, call.op) /\ UNCHANGED sealed
  BY <1>1, RaisedTypes DEF TypesInv, BridgeTypes
<1>2. CASE ~(call.stage = "op" /\ Raised(t, call.op) /\ UNCHANGED sealed)
  <2>1. /\ connected' = FALSE /\ wait' \in 0 .. backoff /\ contact' = contact
        /\ backoff' = IF 2 * backoff < MaxBackoff THEN 2 * backoff ELSE MaxBackoff
        /\ NotConnected(t, call.op)
    BY <1>2 DEF Failed
  <2>2. LinkTypes'
    <3>1. backoff \in 1 .. MaxBackoff /\ contact \in -1 .. Lifetime /\ MaxBackoff \in Nat \ {0}
      BY ConstantTypes DEF TypesInv, BridgeTypes, LinkTypes
    <3>2. wait' \in 0 .. MaxBackoff /\ backoff' \in 1 .. MaxBackoff
      BY <2>1, <3>1
    <3>3. QED
      BY <2>1, <3>1, <3>2 DEF LinkTypes
  <2>3. QED
    BY <2>1, <2>2, NotConnectedTypes
<1>3. QED
  BY <1>1, <1>2

LEMMA EnsureTypes ==
  ASSUME TypesInv, NEW t, HoldsLock(t), NEW op \in Operations, Ensure(t, op),
         immutable' \in SUBSET Modules
  PROVE  /\ Continues(t) \/ Returns(t)
         /\ PublishedTypes' /\ PollingTypes' /\ sealed' \in SUBSET Modules
         /\ seq' \in Numbers /\ inbox' \in Seq(Messages)
         /\ UNCHANGED <<link, outbox, writer, eof>>
<1>1. /\ t \in Tasks /\ sealed \in SUBSET Modules /\ task[t].modules \in SUBSET Modules
      /\ PublishedTypes /\ PollingTypes /\ LinkTypes /\ seq \in Numbers
      /\ LockInv /\ ServerTypes
  BY HolderIs DEF TypesInv, BridgeTypes, LockInv
<1>2. Unsealed(t) \in SUBSET Modules
  BY <1>1 DEF Unsealed
<1>3. UNCHANGED <<link, outbox>> /\ connected' = connected /\ connected \in BOOLEAN
  BY <1>1 DEF Ensure, link, LinkTypes
<1>4. ASSUME NEW c \in PendingCalls, Request(t, c), sealed' = Unsealed(t), UNCHANGED <<published, polling>>
      PROVE  /\ Continues(t) /\ PublishedTypes' /\ PollingTypes' /\ sealed' \in SUBSET Modules
             /\ seq' \in Numbers /\ inbox' \in Seq(Messages) /\ UNCHANGED <<writer, eof>>
  BY <1>1, <1>2, <1>4, RequestTypes DEF PublishedTypes, PollingTypes, published, polling
<1>5. /\ NewCall(op, "op", RequestOf(op)) \in PendingCalls
      /\ NewCall(op, "ensure", "HELLO") \in PendingCalls
  BY NewCallType, OperationRequests DEF Requests
<1>6. CASE writer = "open" \/ wait = 0
  BY <1>3, <1>4, <1>5, <1>6, <1>1 DEF Ensure, LinkTypes
<1>7. CASE ~(writer = "open" \/ wait = 0)
  <2>1. NotConnected(t, op) /\ UNCHANGED <<writer, eof, seq, inbox>>
    BY <1>7 DEF Ensure
  <2>2. QED
    BY <1>1, <1>3, <2>1, NotConnectedTypes DEF ServerTypes
<1>8. QED
  BY <1>6, <1>7

LEMMA TaskRests ==
  ASSUME LockInv, CallInv, UNCHANGED <<lockq, task, call>>
  PROVE  LockInv' /\ CallInv' /\ (\A pc : Holds(pc)' <=> Holds(pc))
  BY DEF LockInv, CallInv, Holds

LEMMA InvokeKeepsTypes ==
  ASSUME TypesInv, NEW t \in Tasks, Invoke(t)
  PROVE  TypesInv' /\ (\A pc \in Steps : Holds(pc)' <=> Holds(pc))
<1>1. Enters(t)
  <2>1. PICK c \in Commands : task' = [task EXCEPT ![t] = [pc |-> "lock", op |-> c.op,
                                        modules |-> c.modules, value |-> c.value]]
    BY DEF Invoke
  <2>2. c.op \in Methods /\ c.modules \in SUBSET Modules /\ c.value \in BOOLEAN
    BY DEF Commands
  <2>3. QED
    BY <2>1, <2>2 DEF Enters, Invoke
<1>2. /\ LockInv /\ CallInv
      /\ UNCHANGED <<immutable, link, polling, published, api, server, wire, bounds, history>>
  BY DEF TypesInv, Invoke
<1>3. LockInv' /\ (\A pc \in Steps : Holds(pc)' <=> Holds(pc)) /\ call' = call
  BY <1>1, <1>2, EntersKeepsLock DEF api
<1>4. BridgeTypes' /\ ServerTypes'
  BY <1>2 DEF TypesInv, BridgeTypes, ServerTypes, LinkTypes, PollingTypes, PublishedTypes, link, polling, published,
              api, server, wire, bounds, history
<1>5. QED
  BY <1>2, <1>3, <1>4 DEF TypesInv, CallInv, Steps

LEMMA WakeKeepsTypes ==
  ASSUME TypesInv, WakePoll
  PROVE  TypesInv' /\ (\A pc \in Steps : Holds(pc)' <=> Holds(pc))
<1>1. Enters(Poll)
  <2>1. task[Poll].pc = "idle" /\ task' = [task EXCEPT ![Poll].pc = "lock"] /\ lockq' = Append(lockq, Poll)
    BY DEF WakePoll, Goto
  <2>2. task[Poll] \in [pc : Places, op : Methods \cup {"none"}, modules : SUBSET Modules,
                        value : BOOLEAN]
    BY ConstantTypes DEF TypesInv, LockInv
  <2> DEFINE x == [task[Poll] EXCEPT !.pc = "lock"]
  <2>3. /\ x \in [pc : {"lock"}, op : Methods \cup {"none"}, modules : SUBSET Modules, value : BOOLEAN]
        /\ x.op = "none"
    BY <2>2 DEF TypesInv, LockInv
  <2>4. task' = [task EXCEPT ![Poll] = x]
    BY <2>1
  <2> HIDE DEF x
  <2>5. QED
    BY <2>1, <2>3, <2>4, ConstantTypes DEF Enters
<1>2. /\ LockInv /\ CallInv
      /\ UNCHANGED <<immutable, link, polling, published, api, server, wire, bounds, history>>
  BY DEF TypesInv, WakePoll
<1>3. LockInv' /\ (\A pc \in Steps : Holds(pc)' <=> Holds(pc)) /\ call' = call
  BY <1>1, <1>2, EntersKeepsLock, ConstantTypes DEF api
<1>4. BridgeTypes' /\ ServerTypes'
  BY <1>2 DEF TypesInv, BridgeTypes, ServerTypes, LinkTypes, PollingTypes, PublishedTypes, link, polling, published,
              api, server, wire, bounds, history
<1>5. QED
  BY <1>2, <1>3, <1>4 DEF TypesInv, CallInv, Steps

LEMMA NewMasksType ==
  ASSUME LockInv, immutable \in SUBSET Modules, NEW t \in Tasks
  PROVE  NewMasks(t) \in SUBSET Modules
<1>1. task[t].modules \in SUBSET Modules
  BY DEF LockInv
<1>2. QED
  BY <1>1 DEF NewMasks

LEMMA StartKeepsTypes ==
  ASSUME TypesInv, NEW t \in Tasks, Start(t)
  PROVE  TypesInv'
<1> DEFINE op == IF t = Poll THEN "FAST_POLL" ELSE task[t].op
<1>1. /\ HoldsLock(t) /\ immutable' = NewMasks(t) /\ Ensure(t, op) /\ Remembered
      /\ UNCHANGED <<server, bounds>> /\ LockInv /\ immutable \in SUBSET Modules
  BY DEF Start, At, TypesInv, BridgeTypes
<1>2. op \in Operations
  BY <1>1, HolderIs DEF LockInv, Tasks, Operations
<1>3. immutable' \in SUBSET Modules
  BY <1>1, NewMasksType
<1> HIDE DEF op
<1>4. /\ Continues(t) \/ Returns(t)
      /\ PublishedTypes' /\ PollingTypes' /\ sealed' \in SUBSET Modules
      /\ seq' \in Numbers /\ inbox' \in Seq(Messages)
      /\ UNCHANGED <<link, outbox, writer, eof>>
  BY <1>1, <1>2, <1>3, EnsureTypes
<1>5. LockInv' /\ CallInv'
  BY <1>1, <1>4, HolderGoesOn
<1>6. BridgeTypes' /\ ServerTypes'
  BY <1>1, <1>3, <1>4 DEF TypesInv, BridgeTypes, ServerTypes, LinkTypes, Remembered, link, server, bounds
<1>7. QED
  BY <1>5, <1>6 DEF TypesInv

LEMMA SlowPollKeepsTypes ==
  ASSUME TypesInv, SlowPoll
  PROVE  TypesInv'
<1>1. /\ HoldsLock(Poll) /\ UNCHANGED <<immutable, server, bounds, applied>> /\ LockInv
      /\ immutable' \in SUBSET Modules
  BY DEF SlowPoll, At, TypesInv, BridgeTypes
<1>2. CASE Ensure(Poll, "SLOW_POLL")
  <2>1. /\ Continues(Poll) \/ Returns(Poll)
        /\ PublishedTypes' /\ PollingTypes' /\ sealed' \in SUBSET Modules
        /\ seq' \in Numbers /\ inbox' \in Seq(Messages)
        /\ UNCHANGED <<link, outbox, writer, eof>>
    BY <1>1, <1>2, EnsureTypes DEF Operations
  <2>2. LockInv' /\ CallInv'
    BY <1>1, <2>1, HolderGoesOn
  <2>3. BridgeTypes' /\ ServerTypes'
    BY <1>1, <2>1 DEF TypesInv, BridgeTypes, ServerTypes, LinkTypes, link, server, bounds
  <2>4. QED
    BY <2>2, <2>3 DEF TypesInv
<1>3. CASE ~Ensure(Poll, "SLOW_POLL")
  <2>1. /\ cycle' = (cycle + 1) % Ratio /\ Finish(Poll)
        /\ UNCHANGED <<pollEvent, scaling, link, published, writer, eof, seq, wire, sealed>>
    BY <1>3 DEF SlowPoll
  <2>2. cycle' \in 0 .. Ratio - 1
    BY <2>1, Counting DEF TypesInv, BridgeTypes, PollingTypes
  <2>3. LockInv' /\ CallInv'
    BY <1>1, <2>1, HolderGoesOn DEF Finish, Leaves, Returns
  <2>4. BridgeTypes' /\ ServerTypes'
    BY <1>1, <2>1, <2>2
       DEF TypesInv, BridgeTypes, ServerTypes, LinkTypes, PollingTypes, PublishedTypes, link, server,
           bounds, published, wire
  <2>5. QED
    BY <2>3, <2>4 DEF TypesInv
<1>4. QED
  BY <1>2, <1>3

LEMMA ConnectSucceedsKeepsTypes ==
  ASSUME TypesInv, NEW t \in Tasks, ConnectSucceeds(t)
  PROVE  TypesInv'
<1>1. /\ HoldsLock(t) /\ LockInv /\ immutable' = immutable /\ immutable \in SUBSET Modules
      /\ call \in PendingCalls /\ NextSeq \in Numbers
  <2>1. Holds("connect")
    BY HolderIs DEF ConnectSucceeds, At, Holds, TypesInv
  <2>2. NextSeq \in Numbers
    BY Counting DEF TypesInv, BridgeTypes, Numbers
  <2>3. QED
    BY <2>1, <2>2 DEF ConnectSucceeds, At, TypesInv, BridgeTypes, CallInv
<1>2. Numbered(t, "HELLO", NextSeq) \in Messages
  BY <1>1, NumberedType DEF Requests
<1>3. /\ call' = [call EXCEPT !.last = "HELLO", !.seq = NextSeq] /\ seq' = NextSeq
      /\ inbox' = <<Numbered(t, "HELLO", NextSeq)>> /\ outbox' = <<>>
      /\ writer' = "open" /\ eof' = FALSE /\ backlog' = Append(backlog, "cur")
      /\ Stays(t, "recv")
      /\ UNCHANGED <<lockq, link, polling, published, session, stale, configured, config, on,
                     bounds, history>>
  BY DEF ConnectSucceeds, Stays
<1>4. call' \in PendingCalls
  BY <1>1, <1>3 DEF PendingCalls, Requests
<1>5. LockInv' /\ CallInv'
  BY <1>1, <1>3, <1>4, HolderGoesOn DEF Continues
<1>6. inbox' \in Seq(Messages) /\ backlog' \in Seq({"cur", "old"}) /\ outbox' \in Seq(Replies)
  BY <1>2, <1>3, AppendProperties DEF TypesInv, ServerTypes
<1>7. BridgeTypes' /\ ServerTypes'
  BY <1>1, <1>3, <1>6
     DEF TypesInv, BridgeTypes, ServerTypes, LinkTypes, PollingTypes, PublishedTypes, link, polling,
         published, bounds, history
<1>8. QED
  BY <1>5, <1>7 DEF TypesInv

LEMMA GiveUpTypes ==
  ASSUME ServerTypes, GiveUp
  PROVE  /\ session' \in {"none", "old"} /\ backlog' \in Seq({"cur", "old"})
         /\ \A i \in DOMAIN backlog' : backlog'[i] = "old"
         /\ stale' \in Seq(Messages) /\ UNCHANGED <<configured, config, on>>
<1>1. backlog' = [i \in DOMAIN backlog |-> "old"] /\ DOMAIN backlog = 1 .. Len(backlog)
      /\ Len(backlog) \in Nat
  BY LenProperties DEF GiveUp, ServerTypes
<1>2. backlog' \in [1 .. Len(backlog) -> {"cur", "old"}]
  BY <1>1
<1>3. backlog' \in Seq({"cur", "old"})
  BY <1>1, <1>2, SeqDef
<1>4. QED
  BY <1>1, <1>3 DEF GiveUp, ServerTypes

LEMMA AtStep ==
  ASSUME TypesInv, NEW t, NEW pc \in {"connect", "recv"}, At(t, pc)
  PROVE  /\ HoldsLock(t) /\ t \in Tasks /\ LockInv /\ Holds(pc) /\ call \in PendingCalls
         /\ immutable \in SUBSET Modules /\ Head(lockq) = t
<1>1. HoldsLock(t) /\ task[t].pc = pc /\ LockInv /\ CallInv /\ immutable \in SUBSET Modules
  BY DEF At, TypesInv, BridgeTypes
<1>2. Holds(pc) /\ t \in Tasks /\ Head(lockq) = t
  BY <1>1, HolderIs DEF Holds
<1>3. QED
  BY <1>1, <1>2 DEF CallInv

LEMMA ReplyRead ==
  ASSUME ServerTypes, outbox # <<>>, outbox' = Tail(outbox)
  PROVE  outbox' \in Seq(Replies) /\ Head(outbox) \in Replies
  BY HeadTailProperties DEF ServerTypes

LEMMA AnsweredIs ==
  ASSUME TypesInv, NEW t, NEW last, Answered(t, last)
  PROVE  /\ HoldsLock(t) /\ t \in Tasks /\ LockInv /\ Holds("recv") /\ call \in PendingCalls
         /\ Head(lockq) = t /\ call.last = last
         /\ outbox # <<>> /\ outbox' \in Seq(Replies) /\ Head(outbox) \in Replies
         /\ UNCHANGED <<immutable, server, bounds>> /\ immutable \in SUBSET Modules
<1>1. At(t, "recv") /\ outbox # <<>> /\ outbox' = Tail(outbox) /\ call.last = last
      /\ UNCHANGED <<immutable, server, bounds>>
  BY DEF Answered
<1>2. QED
  BY <1>1, AtStep, ReplyRead DEF TypesInv

LEMMA ConnectFailsKeepsTypes ==
  ASSUME TypesInv, NEW t \in Tasks, ConnectFails(t)
  PROVE  TypesInv'
<1>1. /\ At(t, "connect") /\ Failed(t) /\ Remembered /\ writer' = "none"
      /\ UNCHANGED <<immutable, eof, seq, wire, server, cancels>>
  BY DEF ConnectFails
<1>2. HoldsLock(t) /\ LockInv /\ immutable' \in SUBSET Modules
  BY <1>1, AtStep
<1>3. Returns(t) /\ PublishedTypes' /\ PollingTypes' /\ LinkTypes' /\ sealed' \in SUBSET Modules
  BY <1>1, <1>2, FailedTypes
<1>4. LockInv' /\ CallInv'
  BY <1>2, <1>3, HolderGoesOn
<1>5. BridgeTypes' /\ ServerTypes'
  BY <1>1, <1>3 DEF TypesInv, BridgeTypes, ServerTypes, Remembered, server, wire
<1>6. QED
  BY <1>4, <1>5 DEF TypesInv

LEMMA NegotiatedKeepsTypes ==
  ASSUME TypesInv, NEW t \in Tasks, Negotiated(t)
  PROVE  TypesInv'
<1>1. /\ HoldsLock(t) /\ t \in Tasks /\ LockInv /\ call \in PendingCalls /\ ServerTypes
      /\ outbox' \in Seq(Replies) /\ UNCHANGED <<immutable, server, bounds>>
      /\ UNCHANGED <<link, polling, published, history>>
      /\ immutable' \in SUBSET Modules /\ seq \in Numbers /\ Holds("recv") /\ At(t, "recv")
  BY AnsweredIs DEF Negotiated, TypesInv, BridgeTypes, Answered
<1>2. /\ LockInv' /\ CallInv' /\ seq' \in Numbers /\ inbox' \in Seq(Messages)
      /\ UNCHANGED <<writer, eof>>
  <2>1. CASE call.want = "HELLO" /\ Request(t, NewCall(call.op, "ensure", "SET_CONFIG"))
    <3>1. NewCall(call.op, "ensure", "SET_CONFIG") \in PendingCalls
      BY <1>1, NewCallType DEF PendingCalls, Requests
    <3>2. Continues(t) /\ seq' \in Numbers /\ inbox' \in Seq(Messages) /\ UNCHANGED <<writer, eof>>
      BY <1>1, <2>1, <3>1, RequestTypes
    <3>3. QED
      BY <1>1, <3>2, HolderGoesOn
  <2>2. CASE Send(t, call.want, call) /\ UNCHANGED <<tasks, writer, eof>>
    <3>1. NextSeq \in Numbers /\ call.want \in Requests
      BY <1>1, Counting DEF Numbers, PendingCalls
    <3>2. Numbered(t, call.want, NextSeq) \in Messages
      BY <1>1, <3>1, NumberedType
    <3>3. inbox' \in Seq(Messages) /\ seq' = NextSeq
      BY <1>1, <2>2, <3>2, AppendProperties DEF Send, ServerTypes
    <3>4. call' \in PendingCalls
      BY <1>1, <2>2, <3>1 DEF Send, PendingCalls
    <3>5. LockInv' /\ CallInv'
      BY <1>1, <2>2, <3>4 DEF LockInv, CallInv, tasks
    <3>6. QED
      BY <2>2, <3>1, <3>3, <3>5
  <2>3. QED
    BY <2>1, <2>2 DEF Negotiated
<1>3. BridgeTypes' /\ ServerTypes'
  BY <1>1, <1>2
     DEF TypesInv, BridgeTypes, ServerTypes, LinkTypes, PollingTypes, PublishedTypes, link, polling,
         published, server, bounds, history
<1>4. QED
  BY <1>2, <1>3 DEF TypesInv

LEMMA ConfiguredKeepsTypes ==
  ASSUME TypesInv, NEW t \in Tasks, Configured(t)
  PROVE  TypesInv'
<1> DEFINE c == NewCall(call.op, "op", RequestOf(call.op))
<1>1. /\ HoldsLock(t) /\ LockInv /\ call \in PendingCalls /\ ServerTypes
      /\ outbox' \in Seq(Replies) /\ UNCHANGED <<immutable, server, bounds>>
      /\ immutable' \in SUBSET Modules /\ seq \in Numbers
  BY AnsweredIs DEF Configured, TypesInv, BridgeTypes
<1>2. /\ connected' = TRUE /\ contact' = 0 /\ backoff' = 1 /\ pollEvent' = TRUE /\ scaling' = TRUE
      /\ Request(t, c) /\ UNCHANGED <<wait, cycle, published, history>>
  BY DEF Configured
<1>3. c \in PendingCalls
  BY <1>1, NewCallType, OperationRequests DEF PendingCalls
<1> HIDE DEF c
<1>4. Continues(t) /\ seq' \in Numbers /\ inbox' \in Seq(Messages) /\ UNCHANGED <<writer, eof>>
  BY <1>1, <1>2, <1>3, RequestTypes
<1>5. LockInv' /\ CallInv'
  BY <1>1, <1>4, HolderGoesOn
<1>6. LinkTypes'
  BY <1>2, ConstantTypes DEF TypesInv, BridgeTypes, LinkTypes
<1>7. BridgeTypes' /\ ServerTypes'
  BY <1>1, <1>2, <1>4, <1>6
     DEF TypesInv, BridgeTypes, ServerTypes, PollingTypes, PublishedTypes, published, server, bounds,
         history
<1>8. QED
  BY <1>5, <1>7 DEF TypesInv

LEMMA FastAnsweredKeepsTypes ==
  ASSUME TypesInv, FastAnswered
  PROVE  TypesInv'
<1> DEFINE reply == Head(outbox)
           c == [NewCall("L1SCALERS", "op", "L1SCALERS") EXCEPT
                   !.data = reply.data, !.scaling = reply.scaling]
<1>1. /\ HoldsLock(Poll) /\ LockInv /\ call \in PendingCalls /\ ServerTypes /\ reply \in Replies
      /\ outbox' \in Seq(Replies) /\ UNCHANGED <<immutable, server, bounds>>
      /\ immutable' \in SUBSET Modules /\ seq \in Numbers
  BY AnsweredIs DEF FastAnswered, TypesInv, BridgeTypes
<1>2. /\ connected' = TRUE /\ contact' = 0
      /\ UNCHANGED <<wait, backoff, pollEvent, cycle, slow, mutable, history>>
  BY DEF FastAnswered
<1>3. c \in PendingCalls
  <2>1. NewCall("L1SCALERS", "op", "L1SCALERS") \in PendingCalls
    BY NewCallType DEF Operations, Requests
  <2>2. reply.data \in Data /\ reply.scaling \in BOOLEAN
    BY <1>1 DEF Replies
  <2>3. QED
    BY <2>1, <2>2 DEF PendingCalls
<1>4. /\ LockInv' /\ CallInv' /\ seq' \in Numbers /\ inbox' \in Seq(Messages)
      /\ UNCHANGED <<writer, eof>> /\ fast' \in Published /\ scaling' \in BOOLEAN
  <2>1. CASE Request(Poll, c) /\ UNCHANGED <<fast, scaling>>
    <3> HIDE DEF c
    <3>1. Continues(Poll) /\ seq' \in Numbers /\ inbox' \in Seq(Messages) /\ UNCHANGED <<writer, eof>>
      BY <1>1, <1>3, <2>1, RequestTypes
    <3>2. QED
      BY <1>1, <2>1, <3>1, HolderGoesOn DEF TypesInv, BridgeTypes, PollingTypes, PublishedTypes
  <2>2. CASE /\ fast' = Values(TRUE, reply.data) /\ Goto(Poll, "slow") /\ call' = NoCall
             /\ UNCHANGED <<lockq, writer, eof, seq, inbox, scaling>>
    <3>1. fast' \in Published
      BY <1>1, <2>2, StatusType DEF Replies
    <3>2. Returns(Poll)
      BY <2>2 DEF Returns, Stays
    <3>3. QED
      BY <1>1, <2>2, <3>1, <3>2, HolderGoesOn DEF TypesInv, BridgeTypes, PollingTypes, ServerTypes
  <2>3. QED
    BY <2>1, <2>2 DEF FastAnswered
<1>5. LinkTypes'
  BY <1>2, ConstantTypes DEF TypesInv, BridgeTypes, LinkTypes
<1>6. BridgeTypes' /\ ServerTypes'
  BY <1>1, <1>2, <1>4, <1>5
     DEF TypesInv, BridgeTypes, ServerTypes, PollingTypes, PublishedTypes, server, bounds, history
<1>7. QED
  BY <1>4, <1>6 DEF TypesInv

LEMMA ScalersAnsweredKeepsTypes ==
  ASSUME TypesInv, ScalersAnswered
  PROVE  TypesInv'
<1>1. /\ HoldsLock(Poll) /\ LockInv /\ call \in PendingCalls
      /\ outbox' \in Seq(Replies) /\ UNCHANGED <<immutable, server, bounds>>
      /\ connected \in BOOLEAN
  BY AnsweredIs DEF ScalersAnswered, TypesInv, BridgeTypes, LinkTypes
<1>2. /\ scaling' = call.scaling /\ fast' = Values(connected, call.data) /\ Returns(Poll)
      /\ UNCHANGED <<writer, eof, seq, inbox, link, pollEvent, cycle, slow, mutable, history>>
  BY DEF ScalersAnswered, Returns, Stays
<1>3. scaling' \in BOOLEAN /\ fast' \in Published
  BY <1>1, <1>2, StatusType DEF PendingCalls
<1>4. LockInv' /\ CallInv'
  BY <1>1, <1>2, HolderGoesOn
<1>5. BridgeTypes' /\ ServerTypes'
  BY <1>1, <1>2, <1>3
     DEF TypesInv, BridgeTypes, ServerTypes, LinkTypes, PollingTypes, PublishedTypes, link, server, bounds,
         history
<1>6. QED
  BY <1>4, <1>5 DEF TypesInv

LEMMA SlowAnsweredKeepsTypes ==
  ASSUME TypesInv, SlowAnswered
  PROVE  TypesInv'
<1>1. /\ HoldsLock(Poll) /\ LockInv /\ Head(outbox) \in Replies
      /\ outbox' \in Seq(Replies) /\ UNCHANGED <<immutable, server, bounds>>
      /\ connected \in BOOLEAN /\ cycle \in Int
  BY AnsweredIs DEF SlowAnswered, TypesInv, BridgeTypes, LinkTypes, PollingTypes
<1>2. /\ slow' = Values(connected, Head(outbox).data) /\ pollEvent' = FALSE
      /\ cycle' = (cycle + 1) % Ratio /\ Returns(Poll)
      /\ UNCHANGED <<writer, eof, seq, inbox, link, scaling, fast, mutable, history>>
  BY DEF SlowAnswered, Returns, Leaves, Finish
<1>3. cycle' \in 0 .. Ratio - 1 /\ slow' \in Published
  BY <1>1, <1>2, StatusType, Counting DEF Replies
<1>4. LockInv' /\ CallInv'
  BY <1>1, <1>2, HolderGoesOn
<1>5. BridgeTypes' /\ ServerTypes'
  BY <1>1, <1>2, <1>3
     DEF TypesInv, BridgeTypes, ServerTypes, LinkTypes, PollingTypes, PublishedTypes, link, server, bounds,
         history
<1>6. QED
  BY <1>4, <1>5 DEF TypesInv

LEMMA CommandAnsweredKeepsTypes ==
  ASSUME TypesInv, NEW t \in Tasks, CommandAnswered(t)
  PROVE  TypesInv'
<1>1. /\ HoldsLock(t) /\ LockInv /\ outbox' \in Seq(Replies) /\ UNCHANGED <<immutable, server, bounds>>
  BY AnsweredIs DEF CommandAnswered
<1>2. /\ pollEvent' = (pollEvent \/ call.op = "TRIGGER") /\ Returns(t) /\ Remembered
      /\ UNCHANGED <<writer, eof, seq, inbox, link, cycle, scaling, published, sealed>>
  BY DEF CommandAnswered, Returns, Leaves, Finish
<1>3. LockInv' /\ CallInv'
  BY <1>1, <1>2, HolderGoesOn
<1>4. BridgeTypes' /\ ServerTypes'
  BY <1>1, <1>2
     DEF TypesInv, BridgeTypes, ServerTypes, LinkTypes, PollingTypes, PublishedTypes, link, server, bounds,
         published, Remembered
<1>5. QED
  BY <1>3, <1>4 DEF TypesInv

LEMMA ImmutableAnsweredKeepsTypes ==
  ASSUME TypesInv, NEW t \in Tasks, ImmutableAnswered(t)
  PROVE  TypesInv'
<1>1. /\ HoldsLock(t) /\ LockInv /\ outbox' \in Seq(Replies) /\ UNCHANGED <<immutable, server, bounds>>
      /\ immutable' \in SUBSET Modules
  BY AnsweredIs DEF ImmutableAnswered
<1>2. /\ NotConnected(t, "IMMUTABLE") /\ Remembered /\ UNCHANGED <<writer, eof, seq, inbox, link>>
      /\ connected' \in BOOLEAN
  BY DEF ImmutableAnswered, link, TypesInv, BridgeTypes, LinkTypes
<1>3. Returns(t) /\ PublishedTypes' /\ PollingTypes' /\ sealed' \in SUBSET Modules
  BY <1>1, <1>2, NotConnectedTypes
<1>4. LockInv' /\ CallInv'
  BY <1>1, <1>3, HolderGoesOn
<1>5. BridgeTypes' /\ ServerTypes'
  BY <1>1, <1>2, <1>3
     DEF TypesInv, BridgeTypes, ServerTypes, LinkTypes, link, server, bounds, Remembered
<1>6. QED
  BY <1>4, <1>5 DEF TypesInv

LEMMA WrongAnswerKeepsTypes ==
  ASSUME TypesInv, NEW t \in Tasks, WrongAnswer(t)
  PROVE  TypesInv'
<1>1. /\ At(t, "recv") /\ outbox # <<>> /\ outbox' = Tail(outbox) /\ Failed(t) /\ Remembered
      /\ UNCHANGED <<immutable, writer, eof, seq, inbox, server, bounds>>
  BY DEF WrongAnswer
<1>2. HoldsLock(t) /\ LockInv /\ immutable' \in SUBSET Modules /\ outbox' \in Seq(Replies)
  BY <1>1, AtStep, ReplyRead DEF TypesInv
<1>3. Returns(t) /\ PublishedTypes' /\ PollingTypes' /\ LinkTypes' /\ sealed' \in SUBSET Modules
  BY <1>1, <1>2, FailedTypes
<1>4. LockInv' /\ CallInv'
  BY <1>2, <1>3, HolderGoesOn
<1>5. BridgeTypes' /\ ServerTypes'
  BY <1>1, <1>2, <1>3 DEF TypesInv, BridgeTypes, ServerTypes, Remembered, server, bounds
<1>6. QED
  BY <1>4, <1>5 DEF TypesInv

\* The connection is lost or given up.
LEMMA DisconnectKeepsTypes ==
  ASSUME TypesInv, NEW t \in Tasks, ConnectionLost(t) \/ TimesOut(t)
  PROVE  TypesInv'
<1>1. /\ At(t, "recv") /\ Disconnect /\ Failed(t) /\ Remembered
      /\ UNCHANGED <<immutable, seq, cancels>>
  BY DEF ConnectionLost, TimesOut, bounds
<1>2. HoldsLock(t) /\ LockInv /\ immutable' \in SUBSET Modules
  BY <1>1, AtStep
<1>3. Returns(t) /\ PublishedTypes' /\ PollingTypes' /\ LinkTypes' /\ sealed' \in SUBSET Modules
  BY <1>1, <1>2, FailedTypes
<1>4. LockInv' /\ CallInv'
  BY <1>2, <1>3, HolderGoesOn
<1>5. /\ session' \in {"none", "old"} /\ backlog' \in Seq({"cur", "old"})
      /\ stale' \in Seq(Messages) /\ UNCHANGED <<configured, config, on>>
      /\ writer' = "none" /\ eof' = FALSE /\ inbox' = <<>> /\ outbox' = <<>>
  BY <1>1, GiveUpTypes DEF Disconnect, TypesInv
<1>6. BridgeTypes'
  BY <1>1, <1>3, <1>5 DEF TypesInv, BridgeTypes, Remembered
<1>7. ServerTypes'
  BY <1>1, <1>5, EmptySeq DEF TypesInv, ServerTypes
<1>8. QED
  BY <1>4, <1>6, <1>7 DEF TypesInv

LEMMA CancelKeepsTypes ==
  ASSUME TypesInv, NEW t \in Tasks, Cancel(t)
  PROVE  TypesInv'
<1>1. /\ t \in Calls /\ LockInv /\ CallInv /\ cancels' = cancels + 1
      /\ call' = IF HoldsLock(t) THEN NoCall ELSE call
      /\ Remembered
      /\ UNCHANGED <<immutable, link, polling, published, writer, eof, seq, server, wire, sealed>>
  BY DEF Cancel, TypesInv
<1>2. LockInv' /\ (\A pc \in Steps : Holds(pc)' => Holds(pc) /\ ~HoldsLock(t))
  BY <1>1, CancelKeepsLock
<1>3. CallInv'
  BY <1>1, <1>2 DEF CallInv, Steps
<1>4. BridgeTypes'
  BY <1>1 DEF TypesInv, BridgeTypes, LinkTypes, PollingTypes, PublishedTypes, link, polling, published,
              Remembered
<1>5. ServerTypes'
  <2>1. cancels \in 0 .. MaxCancels /\ cancels < MaxCancels /\ MaxCancels \in Nat
    BY BridgeAssumption DEF Cancel, TypesInv, ServerTypes
  <2>2. cancels' \in 0 .. MaxCancels
    BY <1>1, <2>1
  <2>3. QED
    BY <1>1, <2>2 DEF TypesInv, ServerTypes, server, wire
<1>6. QED
  BY <1>2, <1>3, <1>4, <1>5 DEF TypesInv

LEMMA TickKeepsTypes ==
  ASSUME TypesInv, Tick
  PROVE  TypesInv'
<1>1. /\ wait' = IF wait > 0 THEN wait - 1 ELSE 0
      /\ contact' = IF contact \in 0 .. Lifetime - 1 THEN contact + 1 ELSE contact
      /\ UNCHANGED <<tasks, immutable, connected, backoff, polling, published, api,
                      server, wire, bounds, history>>
  BY DEF Tick
<1>2. LockInv' /\ CallInv'
  BY <1>1, TaskRests DEF TypesInv, tasks, api
<1>3. LinkTypes'
  <2>1. LinkTypes /\ Lifetime \in Nat /\ MaxBackoff \in Nat \ {0}
    BY ConstantTypes DEF TypesInv, BridgeTypes
  <2>2. contact' \in -1 .. Lifetime /\ wait' \in 0 .. MaxBackoff
    BY <1>1, <2>1 DEF LinkTypes
  <2>3. QED
    BY <1>1, <2>1, <2>2 DEF LinkTypes
<1>4. BridgeTypes' /\ ServerTypes'
  BY <1>1, <1>3
     DEF TypesInv, BridgeTypes, ServerTypes, PollingTypes, PublishedTypes, polling, published, api, server,
         wire, bounds, history
<1>5. QED
  BY <1>2, <1>4 DEF TypesInv

LEMMA AcceptKeepsTypes ==
  ASSUME TypesInv, Accept
  PROVE  TypesInv'
<1>1. /\ backlog # <<>> /\ backlog' = Tail(backlog)
      /\ UNCHANGED <<client, writer, stale, on, outbox, bounds, history>>
      /\ backlog \in Seq({"cur", "old"})
  BY DEF Accept, TypesInv, ServerTypes
<1>2. backlog' \in Seq({"cur", "old"}) /\ Head(backlog) \in {"cur", "old"}
  BY <1>1, HeadTailProperties
<1>3. /\ session' \in {"none", "cur", "old"} /\ configured' \in BOOLEAN /\ config' \in SUBSET Modules
      /\ eof' \in BOOLEAN /\ inbox' \in Seq(Messages)
  BY <1>2, EmptySeq DEF Accept, TypesInv, ServerTypes, BridgeTypes
<1>4. LockInv' /\ CallInv'
  BY <1>1, TaskRests DEF TypesInv, tasks, client
<1>5. BridgeTypes' /\ ServerTypes'
  BY <1>1, <1>2, <1>3
     DEF TypesInv, BridgeTypes, ServerTypes, LinkTypes, PollingTypes, PublishedTypes, link, polling,
         published, client, bounds, history
<1>6. QED
  BY <1>4, <1>5 DEF TypesInv

LEMMA ExecuteTypes ==
  ASSUME ServerTypes, NEW r \in Messages, Execute(r)
  PROVE  on' \in SUBSET Modules /\ configured' \in BOOLEAN /\ config' \in SUBSET Modules
<1>1. r.modules \in SUBSET Modules /\ on \in SUBSET Modules /\ config \in SUBSET Modules
  BY DEF Messages, ServerTypes
<1>2. configured' \in BOOLEAN /\ config' \in SUBSET Modules
  BY <1>1 DEF Execute
<1>3. on' = on \/ on' = on \cup r.modules \/ on' = on \ r.modules
  BY DEF Execute
<1>4. QED
  BY <1>1, <1>2, <1>3

LEMMA ReplyType ==
  ASSUME NEW r \in Messages, NEW s \in BOOLEAN
  PROVE  Reply(r, s) \in Replies
  BY DEF Reply, Replies, Messages, Refused, Acts, Data

LEMMA ServeKeepsTypes ==
  ASSUME TypesInv, Serve
  PROVE  TypesInv'
<1> DEFINE r == Head(inbox)
<1>1. /\ inbox # <<>> /\ Execute(r) /\ inbox' = Tail(inbox) /\ ServerTypes
      /\ UNCHANGED <<client, writer, eof, backlog, session, stale, bounds, sealed>>
  BY DEF Serve, TypesInv
<1>2. PICK s \in BOOLEAN : outbox' = Append(outbox, Reply(r, s))
  BY DEF Serve
<1>3. r \in Messages /\ inbox' \in Seq(Messages)
  BY <1>1, HeadTailProperties DEF ServerTypes
<1>4. applied' \in SUBSET Calls
  BY DEF Serve, TypesInv, BridgeTypes
<1> HIDE DEF r
<1>5. outbox' \in Seq(Replies)
  BY <1>1, <1>2, <1>3, ReplyType, AppendProperties DEF ServerTypes
<1>6. on' \in SUBSET Modules /\ configured' \in BOOLEAN /\ config' \in SUBSET Modules
  BY <1>1, <1>3, ExecuteTypes
<1>7. LockInv' /\ CallInv'
  BY <1>1, TaskRests DEF TypesInv, tasks, client
<1>8. BridgeTypes' /\ ServerTypes'
  BY <1>1, <1>3, <1>4, <1>5, <1>6
     DEF TypesInv, BridgeTypes, ServerTypes, LinkTypes, PollingTypes, PublishedTypes, link, polling,
         published, client, bounds
<1>9. QED
  BY <1>7, <1>8 DEF TypesInv

\* The steps of the server and the network that leave the bridge alone.
LEMMA ServerKeepsTypes ==
  ASSUME TypesInv, ServeStale \/ DropOld \/ ServerCloses \/ Reset
  PROVE  TypesInv'
<1>1. /\ UNCHANGED <<client, outbox, cancels, history>> /\ ServerTypes /\ BridgeTypes
      /\ writer' \in {"none", "open", "closing"} /\ eof' \in BOOLEAN
  BY DEF ServeStale, DropOld, ServerCloses, Reset, bounds, wire, TypesInv, BridgeTypes
<1>2. /\ session' \in {"none", "cur", "old"} /\ backlog' \in Seq({"cur", "old"})
      /\ inbox' \in Seq(Messages) /\ stale' \in Seq(Messages)
      /\ configured' \in BOOLEAN /\ config' \in SUBSET Modules /\ on' \in SUBSET Modules
  <2>1. CASE ServeStale
    <3>1. Head(stale) \in Messages /\ stale' \in Seq(Messages)
      BY <1>1, <2>1, HeadTailProperties DEF ServeStale, ServerTypes
    <3>2. QED
      BY <1>1, <2>1, <3>1, ExecuteTypes DEF ServeStale, ServerTypes, wire
  <2>2. CASE DropOld
    BY <1>1, <2>2, EmptySeq DEF DropOld, ServerTypes, wire
  <2>3. CASE ServerCloses
    BY <1>1, <2>3, EmptySeq DEF ServerCloses, ServerTypes
  <2>4. CASE Reset
    <3>1. GiveUp /\ inbox' = <<>>
      BY <2>4 DEF Reset
    <3>2. QED
      BY <1>1, <3>1, GiveUpTypes, EmptySeq DEF ServerTypes
  <2>5. QED
    BY <2>1, <2>2, <2>3, <2>4
<1>3. LockInv' /\ CallInv'
  BY <1>1, TaskRests DEF TypesInv, tasks, client
<1>4. BridgeTypes' /\ ServerTypes'
  BY <1>1, <1>2
     DEF BridgeTypes, ServerTypes, LinkTypes, PollingTypes, PublishedTypes, link, polling,
         published, client, history
<1>5. QED
  BY <1>3, <1>4 DEF TypesInv

LEMMA InitTypes == Init => TypesInv
<1> SUFFICES ASSUME Init PROVE TypesInv
  OBVIOUS
<1>1. LockInv
  <2>1. lockq = <<>> /\ lockq \in Seq(Tasks) /\ Len(lockq) = 0
    BY EmptySeq DEF Init
  <2>2. task = [t \in Tasks |-> Idle]
    BY DEF Init
  <2>3. QED
    BY <2>1, <2>2, ConstantTypes DEF LockInv, Idle, Places
<1>2. LinkTypes /\ PollingTypes /\ PublishedTypes
  <2>1. LinkTypes
    <3>1. connected = FALSE /\ contact = -1 /\ wait = 0 /\ backoff = 1
      BY DEF Init
    <3>2. -1 \in -1 .. Lifetime /\ 0 \in 0 .. MaxBackoff /\ 1 \in 1 .. MaxBackoff
      BY ConstantTypes
    <3>3. QED
      BY <3>1, <3>2 DEF LinkTypes
  <2>2. PollingTypes
    BY Counting DEF Init, PollingTypes
  <2>3. PublishedTypes
    <3>1. fast = [status |-> "Waiting", data |-> "none"] /\ slow = fast /\ mutable \in SUBSET Modules
      BY DEF Init
    <3>2. QED
      BY <3>1 DEF PublishedTypes, Published, Data
  <2>4. QED
    BY <2>1, <2>2, <2>3
<1>3. BridgeTypes
  BY <1>2, Counting DEF Init, BridgeTypes
<1>4. ServerTypes
  <2>1. 0 \in 0 .. MaxCancels
    BY BridgeAssumption
  <2>2. QED
    BY <2>1, EmptySeq DEF Init, ServerTypes
<1>5. CallInv
  BY DEF Init, CallInv, Holds
<1>6. QED
  BY <1>1, <1>3, <1>4, <1>5 DEF TypesInv

LEMMA TypesInductive == TypesInv /\ [Next]_vars => TypesInv'
<1> SUFFICES ASSUME TypesInv, [Next]_vars PROVE TypesInv'
  OBVIOUS
<1>1. ASSUME NEW t \in Tasks, Invoke(t) \/ Cancel(t) PROVE TypesInv'
  BY <1>1, InvokeKeepsTypes, CancelKeepsTypes
<1>2. ASSUME NEW t \in Tasks, Progress(t) PROVE TypesInv'
  BY <1>2, StartKeepsTypes, ConnectSucceedsKeepsTypes, ConnectFailsKeepsTypes, NegotiatedKeepsTypes,
     ConfiguredKeepsTypes, CommandAnsweredKeepsTypes, ImmutableAnsweredKeepsTypes,
     WrongAnswerKeepsTypes, DisconnectKeepsTypes
     DEF Progress
<1>3. CASE WakePoll \/ PollProgress \/ Tick
  BY <1>3, WakeKeepsTypes, SlowPollKeepsTypes, FastAnsweredKeepsTypes, ScalersAnsweredKeepsTypes,
     SlowAnsweredKeepsTypes, TickKeepsTypes
     DEF PollProgress
<1>4. CASE Server \/ ServerCloses \/ Reset
  BY <1>4, AcceptKeepsTypes, ServeKeepsTypes, ServerKeepsTypes DEF Server
<1>5. CASE UNCHANGED vars
  <2>1. LockInv' /\ CallInv'
    BY <1>5, TaskRests DEF vars, tasks, api, TypesInv
  <2>2. BridgeTypes' /\ ServerTypes'
    BY <1>5
       DEF vars, TypesInv, BridgeTypes, ServerTypes, LinkTypes, PollingTypes, PublishedTypes, link,
           polling, published, api, server, wire, bounds, history
  <2>3. QED
    BY <2>1, <2>2 DEF TypesInv
<1>6. QED
  BY <1>1, <1>2, <1>3, <1>4, <1>5 DEF Next

\* Every variable keeps its type: the queue of the lock holds tasks, every task
\* stands at one of its awaits, what is published has a status, and what
\* travels is a request or a reply (module Bridge, TypeOK).
THEOREM BridgeTypesCorrect == Spec => []TypeOK
<1>1. TypesInv => TypeOK
  <2> SUFFICES ASSUME TypesInv PROVE TypeOK
    OBVIOUS
  <2>1. \A q \in {inbox, stale} : \A i \in DOMAIN q : q[i].type \in Requests
    <3>1. \A q \in Seq(Messages) : \A i \in DOMAIN q : q[i] \in Messages
      BY ElementOfSeq, LenProperties
    <3>2. QED
      BY <3>1 DEF TypesInv, ServerTypes, Messages
  <2>2. outbox \in Seq(Replies)
    BY DEF TypesInv, ServerTypes
  <2>3. QED
    BY <2>1, <2>2
       DEF TypeOK, TypesInv, LockInv, BridgeTypes, ServerTypes, LinkTypes, PollingTypes, PublishedTypes,
           Places, Published, Data, Numbers, Replies
<1>2. QED
  BY <1>1, InitTypes, TypesInductive, PTL DEF Spec

-----------------------------------------------------------------------------
(* The session *)

\* The network is not in use.
LEMMA RestKeepsSession ==
  ASSUME ~Holds("connect")', ~Holds("recv")', Quiet',
         writer' # "open" => session' # "cur", NoneComing', writer' # "none" => wait' = 0,
         writer' = "open" /\ session' = "cur" => Settled',
         LinkInv', GoodInv'
  PROVE  SessionInv'
<1>1. ClosedInv'
  BY DEF ClosedInv, Quiet
<1>2. OpenInv'
  BY DEF OpenInv, NoneComing
<1>3. QED
  BY <1>1, <1>2 DEF SessionInv, ConnectInv, StageInv, ExchangeInv

\* What the invariant says to a task that has no request under way.
LEMMA Resting ==
  ASSUME TypesInv, SessionInv, ~Holds("recv")
  PROVE  /\ Quiet /\ NoneComing /\ LinkInv /\ GoodInv
         /\ writer # "open" => session # "cur"
         /\ writer # "none" => wait = 0
         /\ writer = "open" /\ session = "cur" => Settled
  BY DEF TypesInv, BridgeTypes, SessionInv, ClosedInv, OpenInv, NoneComing

\* What it says to the task that waits for a reply.
LEMMA Waiting ==
  ASSUME SessionInv, Holds("recv")
  PROVE  /\ writer # "none" /\ wait = 0 /\ Fits(call)
         /\ call.last # "HELLO" => call.want = call.last
         /\ call.want = call.last \/ Resets = TRUE
         /\ session = "cur" /\ call.last = "HELLO" => configured = FALSE
         /\ session = "cur" /\ call.last \notin {"HELLO", "SET_CONFIG"} => Settled
  BY DEF SessionInv, ClosedInv, OpenInv, StageInv

\* What it says once there is a reply.
LEMMA ReplyReady ==
  ASSUME TypesInv, SessionInv, Holds("recv"), outbox # <<>>
  PROVE  /\ inbox = <<>> /\ Tail(outbox) = <<>> /\ NoneComing
         /\ Head(outbox).seq = call.seq
         /\ call.last \notin ModuleOps => Head(outbox).ok = TRUE
         /\ Resets = FALSE /\ call.last \in {"FAST_POLL", "L1SCALERS"} => Head(outbox).data = "read"
         /\ call.last = "SET_CONFIG" /\ session = "cur" => Settled
<1>1. outbox = <<Head(outbox)>> /\ inbox = <<>>
  BY DEF SessionInv, ExchangeInv
<1>2. Tail(outbox) = <<>>
  <2>1. \A x : Tail(<<x>>) = <<>>
    OBVIOUS
  <2>2. QED
    BY <1>1, <2>1
<1>3. NoneComing
  BY DEF SessionInv, ClosedInv, OpenInv, NoneComing
<1>4. QED
  BY <1>1, <1>2, <1>3 DEF SessionInv, ExchangeInv

\* The request is written to the connection, or on one that was reset nowhere.
LEMMA SendKeepsSession ==
  ASSUME TypesInv, NEW t, HoldsLock(t), NEW c \in PendingCalls, Send(t, c.want, c),
         Holds("recv")', ~Holds("connect")',
         immutable' \in SUBSET Modules, UNCHANGED server, writer' = writer,
         writer # "none", inbox = <<>>, outbox' = <<>>, NoneComing, wait' = 0,
         Fits(c), c.want # "HELLO", writer # "open" => session # "cur",
         Resets = FALSE /\ c.want = "L1SCALERS" => c.data = "read",
         writer = "open" /\ session = "cur" /\ c.want # "SET_CONFIG" => Settled',
         GoodInv'
  PROVE  SessionInv'
<1> DEFINE m == Numbered(t, c.want, NextSeq)
<1>1. /\ UNCHANGED <<backlog, session, configured, config>> /\ NoneComing'
      /\ writer \in {"open", "closing"}
  BY DEF TypesInv, BridgeTypes, server, NoneComing
<1>2. call' = [c EXCEPT !.last = c.want, !.seq = NextSeq] /\ seq' = NextSeq
  BY DEF Send
<1>3. /\ call'.want = c.want /\ call'.last = c.want /\ call'.seq = NextSeq /\ call'.stage = c.stage
      /\ call'.op = c.op /\ call'.data = c.data
  BY <1>2 DEF PendingCalls
<1>4. m.type = c.want /\ m.seq = NextSeq /\ (c.want = "SET_CONFIG" => m.modules = immutable')
  BY DEF Numbered, Payload, Masks, ModuleOps
<1>5. \/ writer # "open" /\ inbox' = <<>>
      \/ writer = "open" /\ inbox' = <<m>> /\ Head(inbox') = m /\ inbox' # <<>>
  <2>1. \A x : Append(<<>>, x) = <<x>> /\ Head(<<x>>) = x /\ <<x>> # <<>>
    OBVIOUS
  <2>2. inbox' = IF writer = "open" THEN Append(inbox, m) ELSE inbox
    BY DEF Send
  <2>3. QED
    BY <2>1, <2>2
<1> HIDE DEF m
<1>6. ClosedInv' /\ OpenInv' /\ ConnectInv'
  BY <1>1, <1>5 DEF ClosedInv, OpenInv, ConnectInv, NoneComing
<1>7. StageInv'
  BY <1>1, <1>2, <1>3 DEF StageInv, Fits
<1>8. ExchangeInv'
  <2>1. inbox' # <<>> \/ (session' # "cur" /\ NoneComing')
    BY <1>1, <1>5
  <2>2. QED
    BY <1>3, <1>4, <1>5, <2>1 DEF ExchangeInv
<1>9. LinkInv'
  BY DEF LinkInv
<1>10. QED
  BY <1>6, <1>7, <1>8, <1>9 DEF SessionInv

\* A request goes out, or the connection for it is made first.
LEMMA RequestKeepsSession ==
  ASSUME TypesInv, NEW t, HoldsLock(t), NEW c \in PendingCalls, Request(t, c),
         immutable' \in SUBSET Modules, UNCHANGED server,
         inbox = <<>>, writer = "open" => outbox' = <<>>, NoneComing, wait' = 0, Fits(c),
         Resets = FALSE /\ c.want = "L1SCALERS" => c.data = "read",
         writer = "open" => c.want # "HELLO",
         writer = "open" /\ session = "cur" /\ c.want # "SET_CONFIG" => Settled',
         writer # "open" => session # "cur" /\ (Resets = FALSE => c.want = "HELLO"),
         GoodInv'
  PROVE  SessionInv'
<1>1. LockInv /\ writer' = writer
  BY DEF TypesInv, Request
<1>2. CASE writer = "open"
  <2>1. Send(t, c.want, c) /\ Stays(t, "recv")
    BY <1>2 DEF Request, Stays
  <2>2. Holds("recv")' /\ ~Holds("connect")'
    BY <1>1, <2>1, StaysKeepsLock DEF Steps
  <2>3. QED
    BY <1>1, <1>2, <2>1, <2>2, SendKeepsSession
<1>3. CASE writer # "open"
  <2>1. inbox' = <<>> /\ call' = c /\ Stays(t, "connect")
    BY <1>3 DEF Request, Stays
  <2>2. Holds("connect")' /\ ~Holds("recv")'
    BY <1>1, <2>1, StaysKeepsLock DEF Steps
  <2>3. session' = session /\ NoneComing'
    BY DEF server, NoneComing
  <2>4. ClosedInv' /\ OpenInv'
    BY <1>1, <1>3, <2>1, <2>2, <2>3 DEF ClosedInv, OpenInv, Quiet
  <2>5. ConnectInv'
    BY <1>1, <1>3, <2>1 DEF ConnectInv, Fits
  <2>6. QED
    BY <2>2, <2>4, <2>5 DEF SessionInv, StageInv, ExchangeInv, LinkInv
<1>4. QED
  BY <1>2, <1>3

\* Without a connection nothing is published as read.
LEMMA NotConnectedKeepsGood ==
  ASSUME NEW t, NEW op, NotConnected(t, op), connected' = FALSE, GoodMeansRead
  PROVE  GoodMeansRead'
<1>1. Values(FALSE, "none").status # "Good"
  BY StatusType DEF Data
<1>2. CASE op = "FAST_POLL"
  BY <1>1, <1>2 DEF NotConnected, PublishNothing, GoodMeansRead
<1>3. CASE op # "FAST_POLL"
  <2>1. fast' = fast
    BY <1>3 DEF NotConnected, published
  <2>2. QED
    BY <2>1 DEF GoodMeansRead
<1>4. QED
  BY <1>2, <1>3

LEMMA FailedKeepsGood ==
  ASSUME TypesInv, LinkInv, NEW t, HoldsLock(t), Failed(t), call \in PendingCalls
  PROVE  LinkInv' /\ (GoodMeansRead => GoodMeansRead')
<1>1. LinkInv /\ connected \in BOOLEAN
  BY DEF TypesInv, BridgeTypes, LinkTypes
<1>2. CASE call.stage = "op" /\ Raised(t, call.op)
  <2>1. wait' = wait /\ connected' \in {connected, FALSE}
    BY <1>2, RaisedTypes
  <2>2. GoodMeansRead => GoodMeansRead'
    <3>1. CASE call.op \in {"FAST_POLL", "L1SCALERS"}
      <4>1. fast' = Values(FALSE, "none")
        BY <1>2, <3>1 DEF Raised, PublishNothing
      <4>2. QED
        BY <4>1, StatusType DEF Data, GoodMeansRead
    <3>2. CASE call.op \notin {"FAST_POLL", "L1SCALERS"}
      <4>1. fast' = fast
        BY <1>2, <3>2 DEF Raised, published
      <4>2. QED
        BY <1>1, <4>1 DEF GoodMeansRead
    <3>3. QED
      BY <3>1, <3>2
  <2>3. QED
    BY <1>1, <2>1, <2>2 DEF LinkInv
<1>3. CASE ~(call.stage = "op" /\ Raised(t, call.op))
  <2>1. connected' = FALSE /\ NotConnected(t, call.op)
    BY <1>3 DEF Failed
  <2>2. QED
    BY <1>1, <2>1, NotConnectedKeepsGood DEF LinkInv
<1>4. QED
  BY <1>2, <1>3

\* A task that returns leaves the network at rest.
LEMMA ReturnsRests ==
  ASSUME LockInv, NEW t, HoldsLock(t), Returns(t)
  PROVE  ~Holds("connect")' /\ ~Holds("recv")'
<1>1. CASE Stays(t, "slow")
  BY <1>1, StaysKeepsLock DEF Steps
<1>2. CASE Leaves(t)
  BY <1>2, LeavesKeepsLock DEF Steps
<1>3. QED
  BY <1>1, <1>2 DEF Returns

\* Steps that leave the lock's holder, the connection and the server alone.
LEMMA SessionRests ==
  ASSUME SessionInv, \A pc \in Steps : Holds(pc)' <=> Holds(pc), wait = 0 => wait' = 0,
         UNCHANGED <<immutable, connected, published, api, server, wire>>
  PROVE  SessionInv'
<1>1. /\ UNCHANGED <<immutable, connected, fast, writer, call, backlog, session, configured, config>>
      /\ UNCHANGED <<inbox, outbox, seq>>
      /\ (Holds("recv")' <=> Holds("recv")) /\ (Holds("connect")' <=> Holds("connect"))
  BY DEF published, api, server, wire, Steps
<1>2. ClosedInv' /\ OpenInv'
  BY <1>1 DEF SessionInv, ClosedInv, OpenInv, Quiet, NoneComing, Settled, Aligned
<1>3. ConnectInv' /\ LinkInv' /\ StageInv'
  BY <1>1 DEF SessionInv, ConnectInv, LinkInv, StageInv, Fits, Settled, Aligned
<1>4. ExchangeInv'
  BY <1>1 DEF SessionInv, ExchangeInv, NoneComing, Settled, Aligned
<1>5. QED
  BY <1>1, <1>2, <1>3, <1>4 DEF SessionInv, GoodInv, GoodMeansRead

LEMMA EnsureKeepsSession ==
  ASSUME TypesInv, SessionInv, NEW t, HoldsLock(t), task[t].pc \in {"lock", "slow"},
         NEW op \in Operations \ {"L1SCALERS"}, Ensure(t, op), UNCHANGED server,
         immutable' \in SUBSET Modules, op = "IMMUTABLE" \/ immutable' = immutable
  PROVE  SessionInv'
<1>1. LockInv /\ ~Holds("recv") /\ ~Holds("connect")
  BY HolderIs DEF TypesInv, Holds
<1>2. /\ Quiet /\ NoneComing /\ LinkInv /\ GoodInv
      /\ writer # "open" => session # "cur"
      /\ writer # "none" => wait = 0
      /\ writer = "open" /\ session = "cur" => Settled
  BY <1>1, Resting
<1>3. UNCHANGED <<connected, wait, outbox, backlog, session, configured, config, writer>>
  BY DEF Ensure, link, server, Request
<1>4. ASSUME NEW c \in PendingCalls, Request(t, c), UNCHANGED published, wait = 0,
             Fits(c), c.want # "L1SCALERS",
             writer = "open" => c.want # "HELLO",
             writer = "open" /\ c.want # "SET_CONFIG" => immutable' = immutable,
             writer # "open" => c.want = "HELLO"
      PROVE  SessionInv'
  <2>1. writer = "open" /\ session = "cur" /\ c.want # "SET_CONFIG" => Settled'
    BY <1>2, <1>3, <1>4 DEF Settled, Aligned
  <2>2. GoodInv'
    BY <1>2, <1>3, <1>4 DEF GoodInv, GoodMeansRead, published
  <2>3. inbox = <<>> /\ (writer = "open" => outbox' = <<>>) /\ wait' = 0
    BY <1>2, <1>3, <1>4 DEF Quiet
  <2>4. QED
    BY <1>2, <1>4, <2>1, <2>2, <2>3, RequestKeepsSession
<1>5. CASE writer = "open"
  <2> DEFINE c == NewCall(op, "op", RequestOf(op))
  <2>1. Request(t, c) /\ UNCHANGED published
    BY <1>5 DEF Ensure
  <2>2. c \in PendingCalls
    BY NewCallType, OperationRequests
  <2>3. /\ c.stage = "op" /\ c.want = RequestOf(c.op) /\ c.want \notin {"HELLO", "L1SCALERS"}
        /\ c.want # "SET_CONFIG" => op # "IMMUTABLE"
    BY ConstantTypes DEF NewCall, RequestOf, Operations
  <2> HIDE DEF c
  <2>4. Fits(c)
    BY <2>3 DEF Fits
  <2>5. QED
    BY <1>2, <1>4, <1>5, <2>1, <2>2, <2>3, <2>4
<1>6. CASE writer # "open" /\ wait = 0
  <2> DEFINE c == NewCall(op, "ensure", "HELLO")
  <2>1. Request(t, c) /\ UNCHANGED published
    BY <1>6 DEF Ensure
  <2>2. c \in PendingCalls /\ c.stage = "ensure" /\ c.want = "HELLO" /\ c.op # "L1SCALERS"
    BY NewCallType DEF NewCall, Requests
  <2> HIDE DEF c
  <2>3. QED
    BY <1>4, <1>6, <2>1, <2>2 DEF Fits
<1>7. CASE ~(writer = "open") /\ ~(wait = 0)
  <2>1. NotConnected(t, op) /\ UNCHANGED <<writer, eof, seq, inbox>>
    BY <1>7 DEF Ensure
  <2>2. connected' = FALSE
    BY <1>2, <1>3, <1>7 DEF LinkInv, TypesInv, BridgeTypes, LinkTypes
  <2>3. Returns(t) /\ (GoodMeansRead => GoodMeansRead')
    BY <2>1, <2>2, NotConnectedTypes, NotConnectedKeepsGood
  <2>4. ~Holds("recv")' /\ ~Holds("connect")'
    BY <1>1, <2>3, ReturnsRests
  <2>5. /\ Quiet' /\ NoneComing' /\ LinkInv' /\ GoodInv'
        /\ writer' = "none" /\ session' # "cur"
    BY <1>2, <1>3, <1>7, <2>1, <2>2, <2>3 DEF Quiet, NoneComing, LinkInv, GoodInv, TypesInv, BridgeTypes
  <2>6. QED
    BY <2>4, <2>5, RestKeepsSession
<1>8. QED
  BY <1>5, <1>6, <1>7

LEMMA StartKeepsSession ==
  ASSUME TypesInv, SessionInv, NEW t \in Tasks, Start(t)
  PROVE  SessionInv'
<1> DEFINE op == IF t = Poll THEN "FAST_POLL" ELSE task[t].op
<1>1. /\ HoldsLock(t) /\ task[t].pc = "lock" /\ immutable' = NewMasks(t) /\ Ensure(t, op)
      /\ UNCHANGED server /\ LockInv /\ immutable \in SUBSET Modules
  BY DEF Start, At, TypesInv, BridgeTypes
<1>2. op \in Operations \ {"L1SCALERS"} /\ immutable' \in SUBSET Modules
  BY <1>1, HolderIs, NewMasksType, ConstantTypes DEF LockInv, Tasks, Operations
<1>3. op = "IMMUTABLE" \/ immutable' = immutable
  BY <1>1 DEF NewMasks, LockInv
<1> HIDE DEF op
<1>4. QED
  BY <1>1, <1>2, <1>3, EnsureKeepsSession

LEMMA SlowPollKeepsSession ==
  ASSUME TypesInv, SessionInv, SlowPoll
  PROVE  SessionInv'
<1>1. /\ HoldsLock(Poll) /\ task[Poll].pc = "slow" /\ UNCHANGED <<immutable, server>> /\ LockInv
      /\ immutable' \in SUBSET Modules
  BY DEF SlowPoll, At, TypesInv, BridgeTypes
<1>2. CASE Ensure(Poll, "SLOW_POLL")
  BY <1>1, <1>2, EnsureKeepsSession DEF Operations
<1>3. CASE ~Ensure(Poll, "SLOW_POLL")
  <2>1. /\ Leaves(Poll) /\ UNCHANGED <<link, published, writer, wire>>
    BY <1>3 DEF SlowPoll, Finish, Leaves
  <2>2. /\ Quiet /\ NoneComing /\ LinkInv /\ GoodInv
        /\ writer # "open" => session # "cur"
        /\ writer # "none" => wait = 0
        /\ writer = "open" /\ session = "cur" => Settled
    <3>1. ~Holds("recv")
      BY <1>1, HolderIs DEF Holds
    <3>2. QED
      BY <3>1, Resting
  <2>3. ~Holds("recv")' /\ ~Holds("connect")'
    BY <1>1, <2>1, LeavesKeepsLock DEF Steps
  <2>4. /\ LinkInv' /\ GoodInv' /\ Quiet' /\ NoneComing'
        /\ writer' = writer /\ session' = session /\ wait' = wait /\ (Settled => Settled')
    BY <1>1, <2>1, <2>2
       DEF LinkInv, GoodInv, GoodMeansRead, Quiet, NoneComing, Settled, Aligned, link, published, wire, server
  <2>5. QED
    BY <2>2, <2>3, <2>4, RestKeepsSession
<1>4. QED
  BY <1>2, <1>3

LEMMA ConnectSucceedsKeepsSession ==
  ASSUME TypesInv, SessionInv, NEW t \in Tasks, ConnectSucceeds(t)
  PROVE  SessionInv'
<1> DEFINE m == Numbered(t, "HELLO", NextSeq)
<1>1. /\ HoldsLock(t) /\ LockInv /\ Holds("connect") /\ call \in PendingCalls
  BY AtStep DEF ConnectSucceeds
<1>2. /\ writer # "open" /\ wait = 0 /\ Fits(call) /\ (Resets = FALSE => call.want = "HELLO")
      /\ session # "cur" /\ NoneComing /\ GoodInv
  BY <1>1 DEF SessionInv, ConnectInv, ClosedInv
<1>3. /\ call' = [call EXCEPT !.last = "HELLO", !.seq = NextSeq] /\ inbox' = <<m>> /\ seq' = NextSeq
      /\ outbox' = <<>> /\ writer' = "open" /\ backlog' = Append(backlog, "cur") /\ Stays(t, "recv")
      /\ UNCHANGED <<session, fast, wait, connected>>
  BY DEF ConnectSucceeds, Stays, link, published
<1>4. Holds("recv")' /\ ~Holds("connect")'
  BY <1>1, <1>3, StaysKeepsLock DEF Steps
<1>5. /\ call'.want = call.want /\ call'.last = "HELLO" /\ call'.seq = NextSeq
      /\ call'.stage = call.stage /\ call'.op = call.op
  BY <1>1, <1>3 DEF PendingCalls
<1>6. m.type = "HELLO" /\ m.seq = NextSeq
  BY DEF Numbered
<1> HIDE DEF m
<1>7. inbox' # <<>> /\ Head(inbox') = m
  BY <1>3
<1>8. \A i \in DOMAIN backlog' : backlog'[i] = "cur" => i = Len(backlog) + 1
  <2>1. /\ Len(backlog') = Len(backlog) + 1 /\ backlog' \in Seq({"cur", "old"})
        /\ \A i \in 1 .. Len(backlog) : backlog'[i] = backlog[i]
        /\ DOMAIN backlog = 1 .. Len(backlog) /\ DOMAIN backlog' = 1 .. Len(backlog')
        /\ Len(backlog) \in Nat
    BY <1>3, AppendProperties, LenProperties DEF TypesInv, ServerTypes
  <2>2. QED
    BY <1>2, <2>1 DEF NoneComing
<1>9. ClosedInv' /\ OpenInv' /\ ConnectInv'
  BY <1>2, <1>3, <1>4, <1>5, <1>8 DEF ClosedInv, OpenInv, ConnectInv
<1>10. StageInv'
  BY <1>2, <1>3, <1>5, BridgeAssumption DEF StageInv, Fits
<1>11. ExchangeInv'
  BY <1>3, <1>5, <1>6, <1>7 DEF ExchangeInv, ModuleOps
<1>12. LinkInv' /\ GoodInv'
  BY <1>2, <1>3 DEF LinkInv, GoodInv, GoodMeansRead
<1>13. QED
  BY <1>9, <1>10, <1>11, <1>12 DEF SessionInv

LEMMA ConnectFailsKeepsSession ==
  ASSUME TypesInv, SessionInv, NEW t \in Tasks, ConnectFails(t)
  PROVE  SessionInv'
<1>1. /\ HoldsLock(t) /\ LockInv /\ Holds("connect") /\ call \in PendingCalls /\ Failed(t)
      /\ writer' = "none" /\ UNCHANGED <<immutable, wire, server>> /\ immutable' \in SUBSET Modules
  BY AtStep DEF ConnectFails
<1>2. Quiet /\ NoneComing /\ session # "cur" /\ GoodInv
  BY <1>1 DEF SessionInv, ConnectInv, ClosedInv, Holds
<1>3. Returns(t) /\ LinkInv' /\ GoodInv'
  BY <1>1, <1>2, FailedTypes, FailedKeepsGood DEF GoodInv, SessionInv
<1>4. ~Holds("recv")' /\ ~Holds("connect")'
  BY <1>1, <1>3, ReturnsRests
<1>5. Quiet' /\ NoneComing' /\ session' # "cur"
  BY <1>1, <1>2 DEF Quiet, NoneComing, wire, server
<1>6. QED
  BY <1>1, <1>3, <1>4, <1>5, RestKeepsSession

\* A reply is read and nothing follows it.
LEMMA AnswerEnds ==
  ASSUME TypesInv, SessionInv, NEW t, HoldsLock(t), Holds("recv"), outbox # <<>>,
         outbox' = Tail(outbox), Returns(t),
         UNCHANGED <<immutable, server, writer, inbox, wait>>,
         call.last # "HELLO", LinkInv', GoodMeansRead => GoodMeansRead'
  PROVE  SessionInv'
<1>1. /\ LockInv /\ wait = 0 /\ inbox = <<>> /\ Tail(outbox) = <<>> /\ NoneComing
      /\ session = "cur" => Settled
      /\ writer # "open" => session # "cur"
      /\ GoodInv
  BY Waiting, ReplyReady DEF TypesInv, SessionInv, ClosedInv
<1>2. ~Holds("recv")' /\ ~Holds("connect")'
  BY <1>1, ReturnsRests
<1>3. /\ Quiet' /\ NoneComing' /\ wait' = 0 /\ (session' = "cur" => Settled')
      /\ writer' # "open" => session' # "cur"
      /\ GoodInv'
  BY <1>1 DEF Quiet, NoneComing, Settled, Aligned, GoodInv, server
<1>4. QED
  BY <1>2, <1>3, RestKeepsSession

LEMMA NegotiatedKeepsSession ==
  ASSUME TypesInv, SessionInv, NEW t \in Tasks, Negotiated(t)
  PROVE  SessionInv'
<1>1. /\ HoldsLock(t) /\ Holds("recv") /\ call \in PendingCalls /\ outbox # <<>> /\ LockInv
      /\ outbox' = Tail(outbox) /\ call.last = "HELLO" /\ immutable' \in SUBSET Modules
      /\ UNCHANGED <<immutable, server>>
  BY AnsweredIs DEF Negotiated, Answered
<1>2. /\ writer # "none" /\ wait = 0 /\ inbox = <<>> /\ outbox' = <<>> /\ NoneComing /\ Fits(call)
      /\ call.want = "HELLO" \/ Resets = TRUE
      /\ session = "cur" => configured = FALSE
  BY <1>1, Waiting, ReplyReady
<1>3. /\ GoodInv /\ (writer # "open" => session # "cur")
      /\ UNCHANGED <<link, published, writer>>
  BY DEF SessionInv, ClosedInv, Negotiated, Request
<1>4. GoodInv' /\ wait' = 0
  BY <1>2, <1>3 DEF GoodInv, GoodMeansRead, link, published
<1>5. CASE call.want = "HELLO"
  <2> DEFINE c == NewCall(call.op, "ensure", "SET_CONFIG")
  <2>1. Request(t, c) /\ call.op # "L1SCALERS"
    <3>1. Request(t, c)
      BY <1>5 DEF Negotiated
    <3>2. call.stage \in {"ensure", "op"}
      BY <1>1 DEF PendingCalls
    <3>3. QED
      BY <1>2, <1>5, <3>1, <3>2 DEF Fits
  <2>2. c \in PendingCalls
    BY <1>1, NewCallType DEF PendingCalls, Requests
  <2>3. c.stage = "ensure" /\ c.want = "SET_CONFIG" /\ c.op # "L1SCALERS"
    BY <2>1 DEF NewCall
  <2> HIDE DEF c
  <2>4. Fits(c)
    BY <2>3 DEF Fits
  <2>5. CASE writer = "open"
    BY <1>1, <1>2, <1>4, <2>1, <2>2, <2>3, <2>4, <2>5, RequestKeepsSession
  <2>6. CASE writer # "open"
    \* After a reset the configuration follows on another connection.
    <3>1. Resets = TRUE
      BY <1>2, <1>3, <2>6, BridgeAssumption DEF GoodInv, TypesInv, BridgeTypes
    <3>2. QED
      BY <1>1, <1>2, <1>3, <1>4, <2>1, <2>2, <2>3, <2>4, <2>6, <3>1, RequestKeepsSession
  <2>7. QED
    BY <2>5, <2>6
\* The request for which the connection was made; its session has no configuration.
<1>6. CASE call.want # "HELLO"
  <2>1. Send(t, call.want, call) /\ UNCHANGED <<lockq, task>>
    BY <1>6 DEF Negotiated, Request, tasks
  <2>2. Holds("recv")' /\ ~Holds("connect")'
    BY <1>1, <2>1 DEF Holds
  <2>3. Resets = TRUE
    BY <1>2, <1>6
  <2>4. session = "cur" => Settled'
    BY <1>1, <1>2, <2>3 DEF Settled, Aligned, server
  <2>5. QED
    BY <1>1, <1>2, <1>3, <1>4, <1>6, <2>1, <2>2, <2>3, <2>4, SendKeepsSession
<1>7. QED
  BY <1>5, <1>6

LEMMA ConfiguredKeepsSession ==
  ASSUME TypesInv, SessionInv, NEW t \in Tasks, Configured(t)
  PROVE  SessionInv'
<1> DEFINE c == NewCall(call.op, "op", RequestOf(call.op))
<1>1. /\ HoldsLock(t) /\ Holds("recv") /\ call \in PendingCalls /\ outbox # <<>>
      /\ outbox' = Tail(outbox) /\ call.last = "SET_CONFIG" /\ immutable' \in SUBSET Modules
      /\ UNCHANGED <<immutable, server>> /\ call.stage = "ensure"
  BY AnsweredIs DEF Configured, Answered
<1>2. /\ writer # "none" /\ wait = 0 /\ inbox = <<>> /\ outbox' = <<>> /\ Fits(call)
      /\ NoneComing /\ (session = "cur" => Settled)
  BY <1>1, Waiting, ReplyReady
<1>3. /\ Request(t, c) /\ UNCHANGED <<wait, published, writer>>
      /\ GoodInv /\ (writer # "open" => session # "cur")
  BY DEF Configured, Request, SessionInv, ClosedInv
<1>4. /\ call.op \in Operations /\ RequestOf(call.op) \notin {"HELLO", "L1SCALERS"}
  BY <1>1, <1>2, ConstantTypes DEF PendingCalls, RequestOf, Operations, Fits
<1>5. c \in PendingCalls
  BY <1>4, NewCallType, OperationRequests
<1>6. c.stage = "op" /\ c.want = RequestOf(c.op) /\ c.want \notin {"HELLO", "L1SCALERS"}
  BY <1>4 DEF NewCall
<1> HIDE DEF c
<1>7. GoodInv' /\ wait' = 0 /\ (session = "cur" => Settled')
  BY <1>1, <1>2, <1>3 DEF GoodInv, GoodMeansRead, published, Settled, Aligned, server
<1>8. writer # "open" => Resets = TRUE
  BY <1>2, <1>3, BridgeAssumption DEF GoodInv, TypesInv, BridgeTypes
<1>9. Fits(c)
  BY <1>6 DEF Fits
<1>10. QED
  BY <1>1, <1>2, <1>3, <1>5, <1>6, <1>7, <1>8, <1>9, RequestKeepsSession

LEMMA FastAnsweredKeepsSession ==
  ASSUME TypesInv, SessionInv, FastAnswered
  PROVE  SessionInv'
<1> DEFINE reply == Head(outbox)
           c == [NewCall("L1SCALERS", "op", "L1SCALERS") EXCEPT
                   !.data = reply.data, !.scaling = reply.scaling]
<1>1. /\ HoldsLock(Poll) /\ Holds("recv") /\ outbox # <<>> /\ outbox' = Tail(outbox)
      /\ call.last = "FAST_POLL" /\ immutable' \in SUBSET Modules
      /\ UNCHANGED <<immutable, server>> /\ reply \in Replies
  BY AnsweredIs DEF FastAnswered, Answered
<1>2. /\ writer # "none" /\ wait = 0 /\ inbox = <<>> /\ outbox' = <<>> /\ NoneComing
      /\ (session = "cur" => Settled) /\ (Resets = FALSE => reply.data = "read")
  BY <1>1, Waiting, ReplyReady
<1>3. /\ GoodInv /\ (writer # "open" => session # "cur") /\ UNCHANGED <<wait, writer>>
  BY DEF SessionInv, ClosedInv, FastAnswered, Request
<1>4. CASE Request(Poll, c) /\ UNCHANGED <<fast, scaling>>
  <2>1. c \in PendingCalls
    <3>1. NewCall("L1SCALERS", "op", "L1SCALERS") \in PendingCalls
      BY NewCallType DEF Operations, Requests
    <3>2. reply.data \in Data /\ reply.scaling \in BOOLEAN
      BY <1>1 DEF Replies
    <3>3. QED
      BY <3>1, <3>2 DEF PendingCalls
  <2>2. /\ c.stage = "op" /\ c.want = RequestOf(c.op) /\ c.want # "HELLO"
        /\ Resets = FALSE => c.data = "read"
    BY <1>2 DEF NewCall, RequestOf
  <2> HIDE DEF c
  <2>3. GoodInv' /\ wait' = 0 /\ (session = "cur" => Settled')
    BY <1>1, <1>2, <1>3, <1>4 DEF GoodInv, GoodMeansRead, Settled, Aligned, server
  <2>4. Fits(c) /\ (writer # "open" => Resets = TRUE)
    BY <1>2, <1>3, <2>2, BridgeAssumption DEF Fits, GoodInv, TypesInv, BridgeTypes
  <2>5. QED
    BY <1>1, <1>2, <1>3, <1>4, <2>1, <2>2, <2>3, <2>4, RequestKeepsSession
<1>5. CASE /\ fast' = Values(TRUE, reply.data) /\ Goto(Poll, "slow") /\ call' = NoCall
           /\ UNCHANGED <<lockq, writer, eof, seq, inbox, scaling>>
  <2>1. ~Holds("connect")' /\ ~Holds("recv")'
    <3>1. Returns(Poll) /\ LockInv
      BY <1>5 DEF Returns, Stays, TypesInv
    <3>2. QED
      BY <1>1, <3>1, ReturnsRests
  <2>2. LinkInv' /\ GoodInv'
    BY <1>2, <1>3, <1>5 DEF LinkInv, GoodInv, GoodMeansRead, Values
  <2>3. /\ Quiet' /\ NoneComing' /\ (session' = "cur" => Settled')
        /\ writer' # "open" => session' # "cur"
    BY <1>1, <1>2, <1>3, <1>5 DEF Quiet, NoneComing, Settled, Aligned, server
  <2>4. QED
    BY <1>2, <1>3, <2>1, <2>2, <2>3, RestKeepsSession
<1>6. QED
  BY <1>4, <1>5 DEF FastAnswered

LEMMA ScalersAnsweredKeepsSession ==
  ASSUME TypesInv, SessionInv, ScalersAnswered
  PROVE  SessionInv'
<1>1. /\ HoldsLock(Poll) /\ Holds("recv") /\ outbox # <<>> /\ outbox' = Tail(outbox)
      /\ call.last = "L1SCALERS" /\ UNCHANGED <<immutable, server>>
  BY AnsweredIs DEF ScalersAnswered, Answered
<1>2. /\ Returns(Poll) /\ fast' = Values(connected, call.data) /\ UNCHANGED <<writer, inbox, link>>
  BY DEF ScalersAnswered, Returns, Stays
<1>3. LockInv /\ LinkInv /\ GoodInv /\ (Resets = FALSE => call.data = "read")
  BY <1>1 DEF TypesInv, SessionInv, StageInv
<1>4. LinkInv' /\ GoodInv'
  BY <1>2, <1>3 DEF LinkInv, GoodInv, GoodMeansRead, Values, link
<1>5. /\ wait = 0 /\ inbox = <<>> /\ Tail(outbox) = <<>> /\ NoneComing
      /\ session = "cur" => Settled
      /\ writer # "open" => session # "cur"
  BY <1>1, Waiting, ReplyReady DEF SessionInv, ClosedInv
<1>6. /\ Quiet' /\ NoneComing' /\ wait' = 0 /\ (session' = "cur" => Settled')
      /\ writer' # "open" => session' # "cur"
  BY <1>1, <1>2, <1>5 DEF Quiet, NoneComing, Settled, Aligned, server, link
<1>7. ~Holds("connect")' /\ ~Holds("recv")'
  BY <1>1, <1>2, <1>3, ReturnsRests
<1>8. QED
  BY <1>4, <1>6, <1>7, RestKeepsSession

LEMMA SlowAnsweredKeepsSession ==
  ASSUME TypesInv, SessionInv, SlowAnswered
  PROVE  SessionInv'
<1>1. /\ HoldsLock(Poll) /\ Holds("recv") /\ outbox # <<>> /\ outbox' = Tail(outbox)
      /\ call.last = "SLOW_POLL" /\ UNCHANGED <<immutable, server>>
  BY AnsweredIs DEF SlowAnswered, Answered
<1>2. Returns(Poll) /\ UNCHANGED <<writer, inbox, link, fast>>
  BY DEF SlowAnswered, Returns, Leaves, Finish
<1>3. LinkInv' /\ (GoodMeansRead => GoodMeansRead')
  BY <1>2 DEF SessionInv, LinkInv, GoodMeansRead, link
<1>4. QED
  BY <1>1, <1>2, <1>3, AnswerEnds DEF link

LEMMA CommandAnsweredKeepsSession ==
  ASSUME TypesInv, SessionInv, NEW t \in Tasks, CommandAnswered(t)
  PROVE  SessionInv'
<1>1. /\ HoldsLock(t) /\ Holds("recv") /\ outbox # <<>> /\ outbox' = Tail(outbox)
      /\ call.last # "HELLO" /\ UNCHANGED <<immutable, server>>
  BY AnsweredIs DEF CommandAnswered, Answered, ModuleOps
<1>2. Returns(t) /\ UNCHANGED <<writer, inbox, link, fast>>
  BY DEF CommandAnswered, Returns, Leaves, Finish, published
<1>3. LinkInv' /\ (GoodMeansRead => GoodMeansRead')
  BY <1>2 DEF SessionInv, LinkInv, GoodMeansRead, link
<1>4. QED
  BY <1>1, <1>2, <1>3, AnswerEnds DEF link

LEMMA ImmutableAnsweredKeepsSession ==
  ASSUME TypesInv, SessionInv, NEW t \in Tasks, ImmutableAnswered(t)
  PROVE  SessionInv'
<1>1. /\ HoldsLock(t) /\ Holds("recv") /\ outbox # <<>> /\ outbox' = Tail(outbox)
      /\ call.last = "SET_CONFIG" /\ UNCHANGED <<immutable, server>>
  BY AnsweredIs DEF ImmutableAnswered, Answered
<1>2. Returns(t) /\ UNCHANGED <<writer, inbox, link, fast>>
  BY DEF ImmutableAnswered, NotConnected, Returns, Leaves, Finish
<1>3. LinkInv' /\ (GoodMeansRead => GoodMeansRead')
  BY <1>2 DEF SessionInv, LinkInv, GoodMeansRead, link
<1>4. QED
  BY <1>1, <1>2, <1>3, AnswerEnds DEF link

\* Only a command to a module is answered by an ERROR.
LEMMA WrongAnswerKeepsSession ==
  ASSUME TypesInv, SessionInv, NEW t \in Tasks, WrongAnswer(t)
  PROVE  SessionInv'
<1>1. /\ HoldsLock(t) /\ Holds("recv") /\ outbox # <<>> /\ outbox' = Tail(outbox)
      /\ Head(outbox).seq # call.seq \/ ~Head(outbox).ok
      /\ Failed(t) /\ UNCHANGED <<immutable, writer, inbox, server>> /\ call \in PendingCalls
      /\ immutable' \in SUBSET Modules
  BY AtStep DEF WrongAnswer
<1>2. call.last \in ModuleOps /\ call.stage = "op" /\ call.last = RequestOf(call.op)
  BY <1>1, Waiting, ReplyReady DEF ModuleOps, PendingCalls, Fits
<1>3. Raised(t, call.op)
  BY <1>1, <1>2 DEF Failed
<1>4. Returns(t) /\ wait' = wait /\ LinkInv' /\ (GoodMeansRead => GoodMeansRead')
  BY <1>1, <1>3, RaisedTypes, FailedKeepsGood DEF SessionInv
<1>5. QED
  BY <1>1, <1>2, <1>4, AnswerEnds DEF ModuleOps

LEMMA DisconnectKeepsSession ==
  ASSUME TypesInv, LinkInv, GoodInv, NEW t \in Tasks, ConnectionLost(t) \/ TimesOut(t)
  PROVE  SessionInv'
<1>1. /\ HoldsLock(t) /\ Holds("recv") /\ LockInv /\ call \in PendingCalls /\ Disconnect /\ Failed(t)
      /\ immutable' \in SUBSET Modules
  BY AtStep DEF ConnectionLost, TimesOut
<1>2. writer' = "none" /\ Quiet' /\ NoneComing' /\ session' # "cur"
  BY <1>1, GiveUpTypes DEF Disconnect, Quiet, NoneComing, TypesInv
<1>3. Returns(t) /\ LinkInv' /\ GoodInv'
  BY <1>1, <1>2, FailedTypes, FailedKeepsGood DEF GoodInv
<1>4. ~Holds("recv")' /\ ~Holds("connect")'
  BY <1>1, <1>3, ReturnsRests
<1>5. QED
  BY <1>2, <1>3, <1>4, RestKeepsSession

\* The connection at the head of the backlog leaves it.
LEMMA Accepting ==
  ASSUME TypesInv, SessionInv, Accept
  PROVE  /\ backlog' = Tail(backlog) /\ backlog \in Seq({"cur", "old"})
         /\ 1 \in DOMAIN backlog /\ Head(backlog) = backlog[1]
         /\ \A i \in DOMAIN backlog' : /\ i + 1 \in DOMAIN backlog /\ i + 1 # 1
                                       /\ backlog'[i] = backlog[i + 1]
         /\ NoneComing => NoneComing'
         /\ backlog[1] = "cur" => /\ writer = "open" /\ Holds("recv") /\ call.last = "HELLO"
                                  /\ session # "cur" /\ outbox = <<>> /\ NoneComing'
<1>1. backlog # <<>> /\ backlog' = Tail(backlog) /\ backlog \in Seq({"cur", "old"})
  BY DEF Accept, TypesInv, ServerTypes
<1>2. /\ 1 \in DOMAIN backlog /\ Head(backlog) = backlog[1]
      /\ \A i \in DOMAIN backlog' : /\ i + 1 \in DOMAIN backlog /\ i + 1 # 1
                                    /\ backlog'[i] = backlog[i + 1]
  BY <1>1, HeadTailProperties, LenProperties, NotEmpty
\* If the API's connection is at the head, its HELLO is under way and it is the only one.
<1>3. ASSUME backlog[1] = "cur"
      PROVE  /\ writer = "open" /\ Holds("recv") /\ call.last = "HELLO"
             /\ session # "cur" /\ outbox = <<>> /\ NoneComing'
  <2>1. writer = "open"
    BY <1>2, <1>3 DEF SessionInv, ClosedInv, NoneComing
  <2>2. /\ Holds("recv") /\ call.last = "HELLO" /\ session # "cur" /\ outbox = <<>>
        /\ \A j \in DOMAIN backlog : backlog[j] = "cur" => j = 1
    BY <1>2, <1>3, <2>1 DEF SessionInv, OpenInv
  <2>3. QED
    BY <1>2, <2>1, <2>2 DEF NoneComing
<1>4. QED
  BY <1>1, <1>2, <1>3 DEF NoneComing

\* The client of a session is accepted, or a second one is sent away.
LEMMA AcceptKeepsSession ==
  ASSUME TypesInv, SessionInv, Accept
  PROVE  SessionInv'
<1>1. /\ backlog' = Tail(backlog) /\ backlog # <<>> /\ backlog \in Seq({"cur", "old"})
      /\ UNCHANGED <<lockq, task, immutable, connected, wait, fast, seq, call, writer, outbox>>
  BY DEF Accept, TypesInv, ServerTypes, client, tasks, link, published
<1>2. /\ 1 \in DOMAIN backlog /\ Head(backlog) = backlog[1]
      /\ \A i \in DOMAIN backlog' : /\ i + 1 \in DOMAIN backlog /\ i + 1 # 1
                                    /\ backlog'[i] = backlog[i + 1]
  BY Accepting
<1>3. /\ Holds("recv")' <=> Holds("recv")
      /\ Holds("connect")' <=> Holds("connect")
  BY <1>1 DEF Holds
<1>4. Quiet => Quiet'
  BY <1>1 DEF Accept, Quiet
<1>5. backlog[1] = "cur" => /\ writer = "open" /\ Holds("recv") /\ call.last = "HELLO"
                            /\ session # "cur" /\ outbox = <<>> /\ NoneComing'
  BY Accepting
<1>6. /\ session' \in {session, "old"} \/ (session' = "cur" /\ backlog[1] = "cur")
      /\ session' = "cur" /\ session = "cur" => UNCHANGED <<configured, config>>
      /\ session' = "cur" /\ session # "cur" => configured' = FALSE
      /\ inbox' = inbox \/ (inbox' = <<>> /\ backlog[1] = "cur" /\ session' = session)
  BY <1>1, <1>2 DEF Accept, TypesInv, ServerTypes
<1>7. ClosedInv'
  <2>1. NoneComing => NoneComing'
    BY Accepting
  <2>2. QED
    BY <1>1, <1>3, <1>4, <1>5, <1>6, <2>1 DEF SessionInv, ClosedInv
<1>8. OpenInv'
  <2> SUFFICES ASSUME writer = "open" PROVE OpenInv'
    BY <1>1 DEF OpenInv
  <2>1. ~Holds("connect")'
    BY <1>1, <1>3 DEF SessionInv, OpenInv
  <2>2. ~Holds("recv")' /\ session' = "cur" => Settled'
    BY <1>1, <1>3, <1>5, <1>6 DEF SessionInv, OpenInv, Settled, Aligned
  <2>3. ASSUME NEW i \in DOMAIN backlog', backlog'[i] = "cur"
        PROVE  /\ Holds("recv")' /\ call'.last = "HELLO" /\ session' # "cur" /\ outbox' = <<>>
               /\ \A j \in DOMAIN backlog' : backlog'[j] = "cur" => j = i
    <3>1. i + 1 \in DOMAIN backlog /\ backlog[i + 1] = "cur" /\ backlog[1] # "cur"
      BY <1>2, <1>5, <2>3 DEF NoneComing
    <3>2. /\ Holds("recv") /\ call.last = "HELLO" /\ session # "cur" /\ outbox = <<>>
          /\ \A j \in DOMAIN backlog : backlog[j] = "cur" => j = i + 1
      BY <3>1 DEF SessionInv, OpenInv
    <3>3. \A j \in DOMAIN backlog' : backlog'[j] = "cur" => j + 1 = i + 1
      BY <1>2, <3>2
    <3>4. DOMAIN backlog' \subseteq Int
      BY <1>1, HeadTailProperties, LenProperties
    <3>5. QED
      BY <1>1, <1>3, <1>6, <3>1, <3>2, <3>3, <3>4
  <2>4. QED
    BY <2>1, <2>2, <2>3 DEF OpenInv
<1>9. StageInv'
  BY <1>1, <1>3, <1>5, <1>6 DEF SessionInv, StageInv, Fits, Settled, Aligned
<1>10. ExchangeInv'
  <2>1. session' = "cur" => UNCHANGED <<configured, config, session>> \/ call.last = "HELLO"
    BY <1>5, <1>6
  <2>2. Holds("recv") /\ inbox' = <<>> /\ outbox' = <<>> => session' # "cur" /\ NoneComing'
    <3>1. CASE inbox' = inbox
      <4>1. Holds("recv") /\ inbox = <<>> /\ outbox = <<>> => session # "cur" /\ NoneComing
        BY DEF SessionInv, ExchangeInv
      <4>2. NoneComing => NoneComing' /\ backlog[1] # "cur"
        BY <1>2, Accepting DEF NoneComing
      <4>3. QED
        BY <1>1, <1>6, <3>1, <4>1, <4>2
    <3>2. CASE inbox' # inbox
      BY <1>5, <1>6, <3>2
    <3>3. QED
      BY <3>1, <3>2
  <2>3. QED
    BY <1>1, <1>3, <1>6, <2>1, <2>2 DEF SessionInv, ExchangeInv, Settled, Aligned
<1>11. ConnectInv' /\ LinkInv' /\ GoodInv'
  BY <1>1, <1>3 DEF SessionInv, ConnectInv, Fits, LinkInv, GoodInv, GoodMeansRead
<1>12. QED
  BY <1>7, <1>8, <1>9, <1>10, <1>11 DEF SessionInv

LEMMA ServeKeepsSession ==
  ASSUME TypesInv, SessionInv, Serve
  PROVE  SessionInv'
<1> DEFINE r == Head(inbox)
<1>1. /\ session = "cur" /\ inbox # <<>> /\ inbox' = Tail(inbox) /\ Execute(r)
      /\ UNCHANGED <<lockq, task, immutable, connected, wait, fast, seq, call, writer, backlog, session>>
  BY DEF Serve, client, tasks, link, published
<1>2. PICK s \in BOOLEAN : outbox' = Append(outbox, Reply(r, s))
  BY DEF Serve
<1>3. writer = "open" /\ Holds("recv") /\ wait = 0 /\ ~Holds("connect")
  BY <1>1 DEF SessionInv, ClosedInv, OpenInv, Quiet
<1>4. /\ inbox = <<r>> /\ outbox = <<>> /\ r.type = call.last /\ r.seq = call.seq
      /\ call.last = "SET_CONFIG" => r.modules = immutable
  BY <1>1, <1>3 DEF SessionInv, ExchangeInv
<1>5. NoneComing
  BY <1>1, <1>3 DEF SessionInv, OpenInv, NoneComing
<1> HIDE DEF r
<1>6. inbox' = <<>> /\ outbox' = <<Reply(r, s)>> /\ Head(outbox') = Reply(r, s)
  <2>1. \A x : Tail(<<x>>) = <<>> /\ Append(<<>>, x) = <<x>> /\ Head(<<x>>) = x
    OBVIOUS
  <2>2. QED
    BY <1>1, <1>2, <1>4, <2>1
<1>7. /\ Holds("recv")' /\ ~Holds("connect")' /\ NoneComing'
  BY <1>1, <1>3, <1>5 DEF Holds, NoneComing
<1>8. /\ call.last = "SET_CONFIG" => Settled'
      /\ call.last # "SET_CONFIG" /\ Settled => Settled'
      /\ call.last = "HELLO" /\ configured = FALSE => configured' = FALSE
  BY <1>1, <1>4, BridgeAssumption DEF Execute, Settled, Aligned
<1>9. call.last \notin {"HELLO", "SET_CONFIG"} => Settled
  BY <1>1, <1>3 DEF SessionInv, StageInv
<1>10. /\ Reply(r, s).seq = call.seq
       /\ call.last \notin ModuleOps => Reply(r, s).ok = TRUE
       /\ Resets = FALSE /\ call.last \in {"FAST_POLL", "L1SCALERS"} => Reply(r, s).data = "read"
  BY <1>4, <1>9 DEF Reply, Refused, Settled
<1>11. ClosedInv' /\ OpenInv' /\ ConnectInv'
  BY <1>1, <1>3, <1>7 DEF ClosedInv, OpenInv, ConnectInv, NoneComing
<1>12. StageInv'
  BY <1>1, <1>3, <1>8, <1>9 DEF SessionInv, StageInv, Fits
<1>13. ExchangeInv'
  BY <1>1, <1>6, <1>8, <1>10 DEF ExchangeInv
<1>14. LinkInv' /\ GoodInv'
  BY <1>1 DEF SessionInv, LinkInv, GoodInv, GoodMeansRead
<1>15. QED
  BY <1>11, <1>12, <1>13, <1>14 DEF SessionInv

\* The server is busy with another client, or loses the API's.
LEMMA ServerKeepsSession ==
  ASSUME SessionInv, ServeStale \/ DropOld \/ ServerCloses
  PROVE  SessionInv'
<1>1. /\ UNCHANGED <<lockq, task, immutable, connected, wait, fast, seq, call, writer, backlog, outbox>>
      /\ session' # "cur"
      /\ \/ inbox' = inbox /\ session # "cur"
         \/ inbox' = <<>> /\ session = "cur"
  BY DEF ServeStale, DropOld, ServerCloses, client, tasks, link, published, wire
<1>2. /\ Holds("recv")' <=> Holds("recv")
      /\ Holds("connect")' <=> Holds("connect")
  BY <1>1 DEF Holds
<1>3. ClosedInv' /\ OpenInv'
  BY <1>1, <1>2 DEF SessionInv, ClosedInv, OpenInv, NoneComing, Quiet
<1>4. ConnectInv' /\ LinkInv' /\ StageInv' /\ GoodInv'
  BY <1>1, <1>2 DEF SessionInv, ConnectInv, LinkInv, StageInv, Fits, GoodInv, GoodMeansRead
<1>5. ExchangeInv'
  <2>1. session = "cur" => NoneComing
    BY DEF SessionInv, ClosedInv, OpenInv, NoneComing
  <2>2. QED
    BY <1>1, <1>2, <2>1 DEF SessionInv, ExchangeInv, NoneComing
<1>6. QED
  BY <1>1, <1>3, <1>4, <1>5 DEF SessionInv

\* The connection is lost while nobody looks, and the server has yet to notice.
LEMMA ResetKeepsSession ==
  ASSUME TypesInv, SessionInv, Reset
  PROVE  SessionInv'
<1>1. /\ Resets = TRUE /\ writer = "open" /\ writer' = "closing" /\ inbox' = <<>> /\ GiveUp /\ ServerTypes
      /\ UNCHANGED <<lockq, task, immutable, connected, wait, fast, seq, call, outbox>>
  BY BridgeAssumption DEF Reset, TypesInv, client, tasks, link, published
<1>2. session' # "cur" /\ NoneComing'
  BY <1>1, GiveUpTypes DEF NoneComing
<1>3. /\ Holds("recv")' <=> Holds("recv")
      /\ Holds("connect")' <=> Holds("connect")
  BY <1>1 DEF Holds
<1>4. ClosedInv' /\ OpenInv' /\ ConnectInv'
  BY <1>1, <1>2, <1>3 DEF SessionInv, ClosedInv, OpenInv, ConnectInv, Quiet
<1>5. StageInv' /\ LinkInv' /\ GoodInv'
  BY <1>1, <1>2, <1>3 DEF SessionInv, StageInv, Fits, LinkInv, GoodInv
<1>6. ExchangeInv'
  BY <1>1, <1>2, <1>3 DEF SessionInv, ExchangeInv
<1>7. QED
  BY <1>4, <1>5, <1>6 DEF SessionInv

LEMMA InitSession == Init => SessionInv
<1> SUFFICES ASSUME Init PROVE SessionInv
  OBVIOUS
<1>1. lockq = <<>> /\ backlog = <<>> /\ writer = "none" /\ session # "cur" /\ inbox = <<>> /\ outbox = <<>>
      /\ connected = FALSE /\ fast.status # "Good"
  BY DEF Init
<1>2. ~Holds("recv") /\ ~Holds("connect") /\ NoneComing
  BY <1>1 DEF Holds, NoneComing
<1>3. QED
  BY <1>1, <1>2
     DEF SessionInv, ClosedInv, OpenInv, ConnectInv, LinkInv, StageInv, ExchangeInv, GoodInv, GoodMeansRead, Quiet

\* Only a cancellation counts.
LEMMA OnlyCancelCounts ==
  ASSUME TypesInv, [Next]_vars
  PROVE  \/ cancels' = cancels /\ \A t \in Tasks : ~Cancel(t)
         \/ cancels' = cancels + 1 /\ \E t \in Tasks : Cancel(t)
<1>1. ASSUME NEW t \in Tasks, Cancel(t) PROVE cancels' = cancels + 1
  BY <1>1 DEF Cancel
<1>2. ASSUME NEW t \in Tasks, Invoke(t) \/ Progress(t) PROVE cancels' = cancels
  BY <1>2
     DEF Progress, Invoke, Start, ConnectSucceeds, ConnectFails, Negotiated, Configured, CommandAnswered,
         ImmutableAnswered, WrongAnswer, ConnectionLost, TimesOut, Answered, bounds
<1>3. ASSUME PollProgress \/ Server \/ ServerCloses \/ Reset PROVE cancels' = cancels
  BY <1>3
     DEF PollProgress, SlowPoll, FastAnswered, ScalersAnswered, SlowAnswered, Answered, Server, Accept,
         Serve, ServeStale, DropOld, ServerCloses, Reset, bounds
<1>4. ASSUME WakePoll \/ Tick \/ UNCHANGED vars PROVE cancels' = cancels
  BY <1>4 DEF WakePoll, Tick, vars, bounds
<1>5. QED
  BY <1>1, <1>2, <1>3, <1>4 DEF Next

LEMMA SessionGoesOn ==
  ASSUME TypesInv, SessionInv, [Next]_vars, \A t \in Tasks : ~Cancel(t)
  PROVE  SessionInv'
<1>1. ASSUME NEW t \in Tasks, Invoke(t) PROVE SessionInv'
  <2>1. /\ UNCHANGED <<immutable, connected, wait, published, api, server, wire>>
    BY <1>1 DEF Invoke, link
  <2>2. QED
    BY <1>1, <2>1, InvokeKeepsTypes, SessionRests
<1>2. ASSUME NEW t \in Tasks, Progress(t) PROVE SessionInv'
  <2>1. LinkInv /\ GoodInv
    BY DEF SessionInv
  <2>2. QED
    BY <1>2, <2>1, StartKeepsSession, ConnectSucceedsKeepsSession, ConnectFailsKeepsSession,
       NegotiatedKeepsSession, ConfiguredKeepsSession, CommandAnsweredKeepsSession,
       ImmutableAnsweredKeepsSession, WrongAnswerKeepsSession, DisconnectKeepsSession
       DEF Progress
<1>3. CASE WakePoll
  <2>1. /\ UNCHANGED <<immutable, connected, wait, published, api, server, wire>>
    BY <1>3 DEF WakePoll, link
  <2>2. QED
    BY <1>3, <2>1, WakeKeepsTypes, SessionRests
<1>4. CASE PollProgress
  BY <1>4, SlowPollKeepsSession, FastAnsweredKeepsSession, ScalersAnsweredKeepsSession,
     SlowAnsweredKeepsSession
     DEF PollProgress
<1>5. CASE Tick
  <2>1. /\ UNCHANGED <<lockq, task, immutable, connected, published, api, server, wire>>
        /\ wait = 0 => wait' = 0
    BY <1>5 DEF Tick, tasks
  <2>2. QED
    BY <2>1, SessionRests DEF Holds
<1>6. CASE Server \/ ServerCloses \/ Reset
  BY <1>6, AcceptKeepsSession, ServeKeepsSession, ServerKeepsSession, ResetKeepsSession DEF Server
<1>7. CASE UNCHANGED vars
  <2>1. UNCHANGED <<lockq, task, immutable, connected, wait, published, api, server, wire>>
    BY <1>7 DEF vars, tasks, link
  <2>2. QED
    BY <2>1, SessionRests DEF Holds
<1>8. QED
  BY <1>1, <1>2, <1>3, <1>4, <1>5, <1>6, <1>7 DEF Next

-----------------------------------------------------------------------------
(* What a method promises *)

\* The task of a method keeps its arguments until it returns.
LEMMA ArgumentsKept ==
  ASSUME LockInv, SingleInv, NEW t, HoldsLock(t), (\E pc \in Steps : Stays(t, pc)) \/ Leaves(t)
  PROVE  SingleInv'
<1>1. t \in Tasks
  BY HolderIs
<1>2. CASE \E pc \in Steps : Stays(t, pc)
  <2>1. \A u \in Tasks : task'[u].op = task[u].op /\ task'[u].modules = task[u].modules
    BY <1>1, <1>2 DEF Stays, Goto, LockInv
  <2>2. QED
    BY <2>1, ConstantTypes DEF SingleInv
<1>3. CASE Leaves(t)
  <2>1. \A u \in Tasks : task'[u] = IF u = t THEN Idle ELSE task[u]
    BY <1>1, <1>3 DEF Leaves, LockInv
  <2>2. QED
    BY <2>1, ConstantTypes DEF SingleInv, Idle, ModuleOps
<1>4. QED
  BY <1>2, <1>3

LEMMA OwnerStays ==
  ASSUME LockInv, NEW t, HoldsLock(t), NEW pc \in Steps, Stays(t, pc)
  PROVE  /\ Owner' = t /\ task'[t].op = task[t].op /\ task'[t].modules = task[t].modules
         /\ task'[t].value = task[t].value
<1>1. t \in Tasks /\ Head(lockq) = t
  BY HolderIs
<1>2. QED
  BY <1>1 DEF Owner, Stays, Goto, LockInv

\* A task that joins the queue leaves its owner alone.
LEMMA OwnerUntouched ==
  ASSUME LockInv, NEW t \in Tasks, Enters(t), lockq # <<>>
  PROVE  Owner' = Owner /\ task'[Owner] = task[Owner]
<1>1. Head(lockq) = lockq[1] /\ 1 \in 1 .. Len(lockq) /\ Head(lockq) \in Tasks /\ task[lockq[1]].pc # "idle"
  BY NotEmpty DEF LockInv
<1>2. /\ lockq' = Append(lockq, t) /\ lockq' \in Seq(Tasks) /\ lockq'[1] = lockq[1] /\ lockq' # <<>>
  BY <1>1, AppendProperties DEF Enters, LockInv
<1>3. Head(lockq') = lockq'[1]
  BY <1>2, NotEmpty
<1>4. task'[lockq[1]] = task[lockq[1]]
  <2>1. lockq[1] # t
    BY <1>1 DEF Enters
  <2>2. QED
    BY <1>1, <2>1 DEF Enters, LockInv
<1>5. QED
  BY <1>1, <1>2, <1>3, <1>4 DEF Owner

LEMMA ReturnsKeepsPromises ==
  ASSUME LockInv, SingleInv, NEW t, HoldsLock(t), Returns(t), SealInv'
  PROVE  PromiseInv'
<1>1. ~Holds("connect")' /\ ~Holds("recv")'
  BY ReturnsRests
<1>2. SingleInv'
  BY ArgumentsKept DEF Returns, Steps
<1>3. QED
  BY <1>1, <1>2 DEF PromiseInv, PledgeInv, OwnerInv, ApplyInv

LEMMA SendKeepsPledge ==
  ASSUME SingleInv', NEW t, NEW c \in PendingCalls, Send(t, c.want, c),
         Owner' = t, task'[t].op = task[t].op, task'[t].modules = task[t].modules,
         task'[t].value = task[t].value, SealInv',
         c.op \in Methods => t \in Calls /\ task[t].op = c.op,
         c.op = "IMMUTABLE" /\ task[t].value => task[t].modules \subseteq immutable'
  PROVE  PledgeInv'
<1>1. call' = [c EXCEPT !.last = c.want, !.seq = NextSeq]
  BY DEF Send
<1>2. call'.op = c.op
  BY <1>1 DEF PendingCalls
<1>3. QED
  BY <1>2 DEF PledgeInv, OwnerInv

LEMMA SendApplies ==
  ASSUME NEW t, NEW c \in PendingCalls, Send(t, c.want, c),
         Owner' = t, task'[t].modules = task[t].modules, inbox = <<>>, outbox' = <<>>
  PROVE  ApplyInv'
<1> DEFINE m == Numbered(t, c.want, NextSeq)
<1>1. call' = [c EXCEPT !.last = c.want, !.seq = NextSeq]
  BY DEF Send
<1>2. call'.last = c.want
  BY <1>1 DEF PendingCalls
<1>3. inbox' = <<>> \/ (inbox' = <<m>> /\ Head(inbox') = m)
  <2>1. \A x : Append(<<>>, x) = <<x>> /\ Head(<<x>>) = x
    OBVIOUS
  <2>2. inbox' = IF writer = "open" THEN Append(inbox, m) ELSE inbox
    BY DEF Send
  <2>3. QED
    BY <2>1, <2>2
<1>4. m.by = t /\ (c.want \in ModuleOps => m.modules = task[t].modules)
  BY DEF Numbered, Payload, ModuleOps
<1> HIDE DEF m
<1>5. QED
  BY <1>2, <1>3, <1>4 DEF ApplyInv

LEMMA RequestKeepsPledge ==
  ASSUME TypesInv, SingleInv, NEW t, HoldsLock(t), NEW c \in PendingCalls, Request(t, c), SealInv',
         c.op \in Methods => t \in Calls /\ task[t].op = c.op,
         c.op = "IMMUTABLE" /\ task[t].value => task[t].modules \subseteq immutable'
  PROVE  PledgeInv'
<1>1. LockInv /\ t \in Tasks
  BY HolderIs DEF TypesInv
<1>2. PICK pc \in {"recv", "connect"} : Stays(t, pc)
  BY DEF Request, Stays
<1>3. /\ Owner' = t /\ task'[t].op = task[t].op /\ task'[t].modules = task[t].modules
      /\ task'[t].value = task[t].value
  BY <1>1, <1>2, OwnerStays DEF Steps
<1>4. SingleInv'
  BY <1>1, <1>2, ArgumentsKept DEF Steps
<1>5. CASE writer = "open"
  BY <1>3, <1>4, <1>5, SendKeepsPledge DEF Request
<1>6. CASE writer # "open"
  <2>1. call' = c
    BY <1>6 DEF Request
  <2>2. QED
    BY <1>3, <1>4, <2>1 DEF PledgeInv, OwnerInv
<1>7. QED
  BY <1>5, <1>6

LEMMA RequestKeepsPromises ==
  ASSUME TypesInv, SingleInv, NEW t, HoldsLock(t), NEW c \in PendingCalls, Request(t, c),
         inbox = <<>>, writer = "open" => outbox' = <<>>, SealInv',
         c.op \in Methods => t \in Calls /\ task[t].op = c.op,
         c.op = "IMMUTABLE" /\ task[t].value => task[t].modules \subseteq immutable'
  PROVE  PromiseInv'
<1>1. LockInv /\ PledgeInv'
  BY RequestKeepsPledge DEF TypesInv
<1>2. CASE writer = "open"
  <2>1. Send(t, c.want, c) /\ Stays(t, "recv")
    BY <1>2 DEF Request, Stays
  <2>2. Owner' = t /\ task'[t].modules = task[t].modules
    BY <1>1, <2>1, OwnerStays DEF Steps
  <2>3. QED
    BY <1>1, <1>2, <2>1, <2>2, SendApplies DEF PromiseInv, PledgeInv
<1>3. CASE writer # "open"
  <2>1. Stays(t, "connect")
    BY <1>3 DEF Request, Stays
  <2>2. ~Holds("recv")'
    BY <1>1, <2>1, StaysKeepsLock DEF Steps
  <2>3. QED
    BY <1>1, <2>2 DEF PromiseInv, PledgeInv, ApplyInv
<1>4. QED
  BY <1>2, <1>3

\* A module is sealed only once the masks protect it.
LEMMA NotConnectedSeals ==
  ASSUME NEW t, NEW op, NotConnected(t, op), Unsealed(t) \subseteq immutable',
         op = "IMMUTABLE" /\ task[t].value => sealed \cup task[t].modules \subseteq immutable'
  PROVE  SealInv'
<1>1. sealed' = Unsealed(t) \/ (op = "IMMUTABLE" /\ task[t].value /\ sealed' = sealed \cup task[t].modules)
  BY DEF NotConnected
<1>2. QED
  BY <1>1 DEF SealInv

LEMMA FailedSeals ==
  ASSUME PledgeInv, NEW t, Head(lockq) = t, Holds("connect") \/ Holds("recv"), Failed(t),
         immutable' = immutable
  PROVE  SealInv'
<1>1. /\ sealed \subseteq immutable /\ Unsealed(t) \subseteq immutable
      /\ call.op = "IMMUTABLE" /\ task[t].value => task[t].modules \subseteq immutable
  BY DEF PromiseInv, PledgeInv, SealInv, OwnerInv, Owner, Unsealed
<1>2. CASE sealed' = sealed
  BY <1>1, <1>2 DEF SealInv
<1>3. CASE NotConnected(t, call.op)
  BY <1>1, <1>3, NotConnectedSeals
<1>4. QED
  BY <1>2, <1>3 DEF Failed

\* A task that has got the lock, or goes on with it, under the masks it leaves.
LEMMA EnsureKeepsPromises ==
  ASSUME TypesInv, SessionInv, PromiseInv, NEW t, HoldsLock(t), task[t].pc \in {"lock", "slow"},
         NEW op \in Operations, Ensure(t, op), immutable' \in SUBSET Modules,
         Unsealed(t) \subseteq immutable',
         op \in Methods => t \in Calls /\ task[t].op = op,
         op = "IMMUTABLE" /\ task[t].value => sealed \cup task[t].modules \subseteq immutable'
  PROVE  PromiseInv'
<1>1. LockInv /\ SingleInv /\ ~Holds("recv")
  BY HolderIs DEF TypesInv, PromiseInv, PledgeInv, Holds
<1>2. inbox = <<>> /\ (writer = "open" => outbox' = <<>>)
  <2>1. Quiet
    BY <1>1 DEF SessionInv, ClosedInv
  <2>2. QED
    BY <2>1 DEF Quiet, Ensure
<1>3. ASSUME NEW c \in PendingCalls, Request(t, c), sealed' = Unsealed(t), c.op = op
      PROVE  PromiseInv'
  BY <1>1, <1>2, <1>3, RequestKeepsPromises DEF SealInv
<1>4. /\ NewCall(op, "op", RequestOf(op)) \in PendingCalls /\ NewCall(op, "op", RequestOf(op)).op = op
      /\ NewCall(op, "ensure", "HELLO") \in PendingCalls /\ NewCall(op, "ensure", "HELLO").op = op
  <2>1. /\ NewCall(op, "op", RequestOf(op)) \in PendingCalls
        /\ NewCall(op, "ensure", "HELLO") \in PendingCalls
    BY NewCallType, OperationRequests DEF Requests
  <2>2. QED
    BY <2>1 DEF NewCall
<1>5. CASE writer = "open" \/ wait = 0
  BY <1>3, <1>4, <1>5 DEF Ensure
<1>6. CASE ~(writer = "open" \/ wait = 0)
  <2>1. NotConnected(t, op) /\ connected' = connected
    BY <1>6 DEF Ensure, link
  <2>2. Returns(t) /\ SealInv'
    BY <2>1, NotConnectedTypes, NotConnectedSeals DEF TypesInv, BridgeTypes, LinkTypes
  <2>3. QED
    BY <1>1, <2>2, ReturnsKeepsPromises
<1>7. QED
  BY <1>5, <1>6

\* What a task does that goes on with the lock.
Ensures(t, op) ==
  /\ HoldsLock(t) /\ task[t].pc \in {"lock", "slow"} /\ Ensure(t, op) /\ UNCHANGED server
  /\ immutable' \in SUBSET Modules
  /\ Unsealed(t) \subseteq immutable'
  /\ op \in Methods => t \in Calls /\ task[t].op = op
  /\ op = "IMMUTABLE" /\ task[t].value => sealed \cup task[t].modules \subseteq immutable'

LEMMA Starting ==
  ASSUME TypesInv, PledgeInv, NEW t \in Tasks, Start(t)
  PROVE  \E op \in Operations \ {"L1SCALERS"} : Ensures(t, op)
<1> DEFINE op == IF t = Poll THEN "FAST_POLL" ELSE task[t].op
<1>1. /\ HoldsLock(t) /\ task[t].pc = "lock" /\ immutable' = NewMasks(t) /\ Ensure(t, op)
      /\ LockInv /\ immutable \in SUBSET Modules /\ sealed \subseteq immutable /\ UNCHANGED server
  BY DEF Start, At, TypesInv, BridgeTypes, PledgeInv, SealInv
<1>2. op \in Operations \ {"L1SCALERS"} /\ immutable' \in SUBSET Modules
  BY <1>1, HolderIs, NewMasksType, ConstantTypes DEF LockInv, Tasks, Operations
<1>3. op \in Methods => t \in Calls /\ task[t].op = op
  BY ConstantTypes DEF Tasks
<1>4. /\ Unsealed(t) \subseteq immutable'
      /\ op = "IMMUTABLE" /\ task[t].value => sealed \cup task[t].modules \subseteq immutable'
  BY <1>1 DEF NewMasks, Unsealed
<1> HIDE DEF op
<1>5. QED
  BY <1>1, <1>2, <1>3, <1>4 DEF Ensures

LEMMA PollingSlowly ==
  ASSUME TypesInv, PledgeInv, SlowPoll
  PROVE  \/ Ensures(Poll, "SLOW_POLL")
         \/ /\ HoldsLock(Poll) /\ task[Poll].pc = "slow" /\ Returns(Poll) /\ Leaves(Poll)
            /\ UNCHANGED <<immutable, server, link, published, writer, eof, seq, wire, sealed>>
<1>1. /\ HoldsLock(Poll) /\ task[Poll].pc = "slow" /\ UNCHANGED <<immutable, server>> /\ LockInv
      /\ immutable' \in SUBSET Modules /\ sealed \subseteq immutable /\ task[Poll].op = "none"
  BY DEF SlowPoll, At, TypesInv, BridgeTypes, LockInv, PledgeInv, SealInv
<1>2. CASE Ensure(Poll, "SLOW_POLL")
  <2>1. Unsealed(Poll) \subseteq immutable' /\ "SLOW_POLL" \notin Methods
    BY <1>1, ConstantTypes DEF Unsealed
  <2>2. QED
    BY <1>1, <1>2, <2>1 DEF Ensures
<1>3. CASE ~Ensure(Poll, "SLOW_POLL")
  BY <1>1, <1>3 DEF SlowPoll, Finish, Leaves, Returns
<1>4. QED
  BY <1>2, <1>3

LEMMA StartKeepsPromises ==
  ASSUME TypesInv, SessionInv, PromiseInv, NEW t \in Tasks, Start(t)
  PROVE  PromiseInv'
<1>1. PICK op \in Operations \ {"L1SCALERS"} : Ensures(t, op)
  BY Starting DEF PromiseInv
<1>2. QED
  BY <1>1, EnsureKeepsPromises DEF Ensures

LEMMA SlowPollKeepsPromises ==
  ASSUME TypesInv, SessionInv, PromiseInv, SlowPoll
  PROVE  PromiseInv'
<1>1. CASE Ensures(Poll, "SLOW_POLL")
  BY <1>1, EnsureKeepsPromises DEF Ensures, Operations
<1>2. CASE ~Ensures(Poll, "SLOW_POLL")
  <2>1. HoldsLock(Poll) /\ Returns(Poll) /\ UNCHANGED <<immutable, sealed>> /\ LockInv
    BY <1>2, PollingSlowly DEF PromiseInv, TypesInv
  <2>2. QED
    BY <2>1, ReturnsKeepsPromises DEF SealInv, PromiseInv, PledgeInv
<1>3. QED
  BY <1>1, <1>2

LEMMA ConnectSucceedsKeepsPromises ==
  ASSUME TypesInv, PromiseInv, NEW t \in Tasks, ConnectSucceeds(t)
  PROVE  PromiseInv'
<1> DEFINE m == Numbered(t, "HELLO", NextSeq)
<1>1. /\ HoldsLock(t) /\ LockInv /\ Holds("connect") /\ call \in PendingCalls /\ Owner = t
  BY AtStep DEF ConnectSucceeds, Owner
<1>2. /\ call' = [call EXCEPT !.last = "HELLO", !.seq = NextSeq] /\ inbox' = <<m>>
      /\ outbox' = <<>> /\ Stays(t, "recv") /\ UNCHANGED <<immutable, sealed>>
  BY DEF ConnectSucceeds, Stays, history
<1>3. call'.op = call.op /\ call'.last = "HELLO"
  BY <1>1, <1>2 DEF PendingCalls
<1>4. m.by = t
  BY DEF Numbered
<1> HIDE DEF m
<1>5. inbox' # <<>> /\ Head(inbox') = m
  BY <1>2
<1>6. /\ Owner' = t /\ task'[t].op = task[t].op /\ task'[t].modules = task[t].modules
      /\ task'[t].value = task[t].value
  BY <1>1, <1>2, OwnerStays DEF Steps
<1>7. OwnerInv' /\ SealInv'
  BY <1>1, <1>2, <1>3, <1>6 DEF PromiseInv, PledgeInv, OwnerInv, SealInv
<1>8. ApplyInv'
  BY <1>2, <1>3, <1>4, <1>5, <1>6 DEF ApplyInv, ModuleOps
<1>9. SingleInv'
  BY <1>1, <1>2, ArgumentsKept DEF PromiseInv, PledgeInv, Steps
<1>10. QED
  BY <1>7, <1>8, <1>9 DEF PromiseInv, PledgeInv

\* The connection or the request has failed.
LEMMA FailureKeepsPromises ==
  ASSUME TypesInv, PledgeInv, NEW t \in Tasks,
         ConnectFails(t) \/ WrongAnswer(t) \/ ConnectionLost(t) \/ TimesOut(t)
  PROVE  PromiseInv'
<1>1. /\ HoldsLock(t) /\ LockInv /\ Head(lockq) = t /\ Failed(t)
      /\ Holds("connect") \/ Holds("recv")
      /\ immutable' = immutable /\ immutable' \in SUBSET Modules /\ SingleInv
  BY AtStep DEF ConnectFails, WrongAnswer, ConnectionLost, TimesOut, PromiseInv, PledgeInv
<1>2. Returns(t) /\ SealInv'
  BY <1>1, FailedTypes, FailedSeals
<1>3. QED
  BY <1>1, <1>2, ReturnsKeepsPromises

\* A reply is read, and another request follows.
LEMMA AnswerThenRequest ==
  ASSUME TypesInv, SessionInv, PromiseInv, NEW t, NEW last, Answered(t, last), sealed' = sealed,
         NEW c \in PendingCalls, Request(t, c), c.op = call.op \/ c.op \notin Methods
  PROVE  PromiseInv'
<1>1. /\ HoldsLock(t) /\ Holds("recv") /\ call \in PendingCalls /\ outbox # <<>> /\ Owner = t
      /\ outbox' = Tail(outbox) /\ immutable' = immutable
  BY AnsweredIs DEF Answered, Owner
<1>2. inbox = <<>> /\ outbox' = <<>>
  BY <1>1, ReplyReady
<1>3. SealInv' /\ SingleInv
  BY <1>1 DEF PromiseInv, PledgeInv, SealInv
<1>4. /\ c.op \in Methods => t \in Calls /\ task[t].op = c.op
      /\ c.op = "IMMUTABLE" /\ task[t].value => task[t].modules \subseteq immutable'
  <2>1. c.op = "IMMUTABLE" => c.op \in Methods
    BY DEF PendingCalls, Operations
  <2>2. QED
    BY <1>1, <2>1 DEF PromiseInv, PledgeInv, OwnerInv
<1>5. QED
  BY <1>1, <1>2, <1>3, <1>4, RequestKeepsPromises

LEMMA RequestsKeepPromises ==
  ASSUME TypesInv, SessionInv, PromiseInv, NEW t \in Tasks, Negotiated(t) \/ Configured(t)
  PROVE  PromiseInv'
<1>1. PICK last : Answered(t, last)
  BY DEF Negotiated, Configured
<1>2. call \in PendingCalls /\ sealed' = sealed
  BY <1>1, AnsweredIs DEF Negotiated, Configured, history
<1>3. ASSUME NEW stage \in {"ensure", "op"}, NEW want \in Requests,
             Request(t, NewCall(call.op, stage, want))
      PROVE  PromiseInv'
  <2>1. NewCall(call.op, stage, want) \in PendingCalls
    BY <1>2, NewCallType DEF PendingCalls
  <2>2. NewCall(call.op, stage, want).op = call.op
    BY DEF NewCall
  <2>3. QED
    BY <1>1, <1>2, <1>3, <2>1, <2>2, AnswerThenRequest
<1>4. CASE Configured(t)
  <2>1. Request(t, NewCall(call.op, "op", RequestOf(call.op))) /\ RequestOf(call.op) \in Requests
    BY <1>2, <1>4, OperationRequests DEF Configured, PendingCalls
  <2>2. QED
    BY <1>3, <2>1
<1>5. CASE Negotiated(t) /\ call.want = "HELLO"
  <2>1. Request(t, NewCall(call.op, "ensure", "SET_CONFIG")) /\ "SET_CONFIG" \in Requests
    BY <1>5 DEF Negotiated, Requests
  <2>2. QED
    BY <1>3, <2>1
<1>6. CASE Negotiated(t) /\ call.want # "HELLO"
  <2>1. Send(t, call.want, call) /\ UNCHANGED <<lockq, task>>
    BY <1>6 DEF Negotiated, tasks
  <2>2. /\ HoldsLock(t) /\ Holds("recv") /\ outbox # <<>> /\ Owner = t
        /\ outbox' = Tail(outbox) /\ immutable' = immutable
    BY <1>1, AnsweredIs DEF Answered, Owner
  <2>3. inbox = <<>> /\ outbox' = <<>>
    BY <2>2, ReplyReady
  <2>4. SealInv' /\ SingleInv' /\ Owner' = t /\ task' = task
    BY <1>2, <2>1, <2>2 DEF PromiseInv, PledgeInv, SealInv, SingleInv, Owner
  <2>5. /\ call.op \in Methods => t \in Calls /\ task[t].op = call.op
        /\ call.op = "IMMUTABLE" /\ task[t].value => task[t].modules \subseteq immutable'
    BY <2>2 DEF PromiseInv, PledgeInv, OwnerInv
  <2>6. QED
    BY <1>2, <2>1, <2>3, <2>4, <2>5, SendKeepsPledge, SendApplies DEF PromiseInv
<1>7. QED
  BY <1>4, <1>5, <1>6

\* A reply is read, and the task returns.
LEMMA AnswerThenReturn ==
  ASSUME TypesInv, PromiseInv, NEW t, NEW last, Answered(t, last), Returns(t),
         sealed' = sealed
  PROVE  PromiseInv'
<1>1. HoldsLock(t) /\ LockInv /\ SealInv' /\ SingleInv
  BY AnsweredIs DEF PromiseInv, PledgeInv, SealInv
<1>2. QED
  BY <1>1, ReturnsKeepsPromises

LEMMA PollAnswersKeepPromises ==
  ASSUME TypesInv, SessionInv, PromiseInv, FastAnswered \/ ScalersAnswered \/ SlowAnswered
  PROVE  PromiseInv'
<1> DEFINE c == [NewCall("L1SCALERS", "op", "L1SCALERS") EXCEPT
                   !.data = Head(outbox).data, !.scaling = Head(outbox).scaling]
<1>1. PICK last : Answered(Poll, last)
  BY DEF FastAnswered, ScalersAnswered, SlowAnswered
<1>2. sealed' = sealed
  BY DEF FastAnswered, ScalersAnswered, SlowAnswered, history
<1>3. Returns(Poll) \/ Request(Poll, c)
  BY DEF FastAnswered, ScalersAnswered, SlowAnswered, Returns, Stays, Leaves, Finish
<1>4. c \in PendingCalls /\ c.op \notin Methods
  <2>1. NewCall("L1SCALERS", "op", "L1SCALERS") \in PendingCalls
    BY NewCallType DEF Operations, Requests
  <2>2. Head(outbox).data \in Data /\ Head(outbox).scaling \in BOOLEAN
    BY <1>1, AnsweredIs DEF Replies
  <2>3. c \in PendingCalls
    BY <2>1, <2>2 DEF PendingCalls
  <2>4. c.op = "L1SCALERS"
    BY DEF NewCall
  <2>5. QED
    BY <2>3, <2>4, ConstantTypes
<1> HIDE DEF c
<1>5. CASE Returns(Poll)
  BY <1>1, <1>2, <1>5, AnswerThenReturn
<1>6. CASE Request(Poll, c)
  BY <1>1, <1>2, <1>4, <1>6, AnswerThenRequest
<1>7. QED
  BY <1>3, <1>5, <1>6

LEMMA MethodAnswersKeepPromises ==
  ASSUME TypesInv, SessionInv, PromiseInv, NEW t \in Tasks, CommandAnswered(t) \/ ImmutableAnswered(t)
  PROVE  PromiseInv'
<1>1. CASE CommandAnswered(t)
  <2>1. PICK last : Answered(t, last)
    BY <1>1 DEF CommandAnswered
  <2>2. Returns(t) /\ sealed' = sealed
    BY <1>1 DEF CommandAnswered, Returns, Leaves, Finish
  <2>3. QED
    BY <2>1, <2>2, AnswerThenReturn
<1>2. CASE ImmutableAnswered(t)
  <2>1. /\ HoldsLock(t) /\ LockInv /\ Holds("recv") /\ call \in PendingCalls /\ Owner = t
        /\ immutable' = immutable /\ call.stage = "op" /\ call.last = "SET_CONFIG"
        /\ NotConnected(t, "IMMUTABLE")
    BY <1>2, AnsweredIs DEF ImmutableAnswered, Answered, Owner
  <2>2. call.op = "IMMUTABLE"
    BY <2>1, Waiting, ConstantTypes DEF PendingCalls, Operations, RequestOf, Fits
  <2>3. /\ Unsealed(t) \subseteq immutable'
        /\ task[t].value => sealed \cup task[t].modules \subseteq immutable'
    BY <2>1, <2>2 DEF PromiseInv, PledgeInv, SealInv, OwnerInv, Unsealed
  <2>4. Returns(t) /\ SealInv'
    <3>1. Returns(t)
      BY <2>1 DEF NotConnected, Returns, Leaves, Finish
    <3>2. QED
      BY <2>1, <2>3, <3>1, NotConnectedSeals
  <2>5. QED
    BY <2>1, <2>4, ReturnsKeepsPromises DEF PromiseInv, PledgeInv
<1>3. QED
  BY <1>1, <1>2

\* Steps that leave the owner, its request and what is promised alone.
LEMMA PledgeRests ==
  ASSUME PledgeInv, \A pc \in Steps : Holds(pc)' => Holds(pc), SingleInv',
         Holds("connect")' \/ Holds("recv")' => Owner' = Owner /\ task'[Owner] = task[Owner] /\ call' = call,
         UNCHANGED <<immutable, sealed>>
  PROVE  PledgeInv'
<1>1. /\ Holds("recv")' => Holds("recv")
      /\ Holds("connect")' => Holds("connect")
  BY DEF Steps
<1>2. OwnerInv' /\ SealInv'
  BY <1>1 DEF PledgeInv, OwnerInv, SealInv
<1>3. QED
  BY <1>2 DEF PledgeInv

LEMMA PromisesRest ==
  ASSUME PromiseInv, \A pc \in Steps : Holds(pc)' => Holds(pc), SingleInv',
         Holds("connect")' \/ Holds("recv")' => Owner' = Owner /\ task'[Owner] = task[Owner] /\ call' = call,
         Holds("recv")' /\ Owner \in applied => Owner \in applied',
         inbox' \in {inbox, <<>>},
         UNCHANGED <<immutable, sealed, outbox>>
  PROVE  PromiseInv'
<1>1. Holds("recv")' => Holds("recv")
  BY DEF Steps
<1>2. PledgeInv'
  BY PledgeRests DEF PromiseInv
<1>3. ApplyInv'
  BY <1>1 DEF PromiseInv, ApplyInv
<1>4. QED
  BY <1>2, <1>3 DEF PromiseInv

\* A task that arrives leaves the one that waits for its reply alone.
LEMMA ArrivalKeepsOwner ==
  ASSUME LockInv, SingleInv, (\E t \in Tasks : Invoke(t)) \/ WakePoll
  PROVE  /\ SingleInv'
         /\ Holds("connect") \/ Holds("recv") => Owner' = Owner /\ task'[Owner] = task[Owner]
<1> DEFINE Goal == /\ SingleInv'
                   /\ Holds("connect") \/ Holds("recv") => Owner' = Owner /\ task'[Owner] = task[Owner]
<1>1. LockInv /\ SingleInv
  OBVIOUS
<1>2. ASSUME NEW t \in Tasks, Enters(t), SingleInv' PROVE Goal
  <2>1. Holds("connect") \/ Holds("recv") => lockq # <<>>
    BY DEF Holds
  <2>2. QED
    BY <1>1, <1>2, <2>1, OwnerUntouched
<1>3. ASSUME NEW t \in Tasks, Invoke(t) PROVE Goal
  <2>1. PICK c \in Commands : task' = [task EXCEPT ![t] = [pc |-> "lock", op |-> c.op,
                                        modules |-> c.modules, value |-> c.value]]
    BY <1>3 DEF Invoke
  <2>2. c.op \in Methods /\ c.modules \in SUBSET Modules /\ c.value \in BOOLEAN
    BY DEF Commands
  <2>3. Enters(t)
    BY <1>3, <2>1, <2>2 DEF Enters, Invoke
  <2>4. c.op \in ModuleOps => \E m \in Modules : c.modules = {m}
    BY DEF Commands, ModuleOps
  <2>5. \A u \in Tasks : task'[u] = IF u = t THEN [pc |-> "lock", op |-> c.op, modules |-> c.modules,
                                                   value |-> c.value] ELSE task[u]
    BY <1>1, <2>1 DEF LockInv
  <2>6. SingleInv'
    BY <1>1, <2>4, <2>5, ConstantTypes DEF SingleInv
  <2>7. QED
    BY <1>2, <2>3, <2>6
<1>4. ASSUME WakePoll PROVE Goal
  <2>1. /\ \A u \in Tasks : u # Poll => task'[u] = task[u]
        /\ task'[Poll] = [task[Poll] EXCEPT !.pc = "lock"]
        /\ lockq' = Append(lockq, Poll) /\ task[Poll].pc = "idle"
    BY <1>1, <1>4, ConstantTypes DEF WakePoll, Goto, LockInv
  <2>2. SingleInv'
    BY <1>1, <2>1, ConstantTypes DEF SingleInv
  <2>3. Holds("connect") \/ Holds("recv") => Owner' = Owner /\ task'[Owner] = task[Owner]
    <3>1. CASE lockq = <<>>
      BY <3>1 DEF Holds
    <3>2. CASE lockq # <<>>
      <4>1. Head(lockq) = lockq[1] /\ 1 \in 1 .. Len(lockq) /\ Head(lockq) \in Tasks
            /\ task[lockq[1]].pc # "idle"
        BY <1>1, <3>2, NotEmpty DEF LockInv
      <4>2. lockq' \in Seq(Tasks) /\ lockq'[1] = lockq[1] /\ lockq' # <<>>
        BY <1>1, <2>1, <4>1, AppendProperties, ConstantTypes DEF LockInv
      <4>3. Head(lockq') = lockq'[1]
        BY <4>2, NotEmpty
      <4>4. QED
        BY <2>1, <4>1, <4>2, <4>3 DEF Owner
    <3>3. QED
      BY <3>1, <3>2
  <2>4. QED
    BY <2>2, <2>3
<1> HIDE DEF Goal
<1>5. Goal
  BY <1>3, <1>4
<1>6. QED
  BY <1>5 DEF Goal

LEMMA ArrivalKeepsPromises ==
  ASSUME TypesInv, PledgeInv, (\E t \in Tasks : Invoke(t)) \/ WakePoll
  PROVE  PledgeInv' /\ (PromiseInv => PromiseInv')
<1>1. /\ \A pc \in Steps : Holds(pc)' <=> Holds(pc)
      /\ UNCHANGED <<immutable, sealed, applied, call, inbox, outbox>>
  BY InvokeKeepsTypes, WakeKeepsTypes DEF Invoke, WakePoll, api, wire, history
<1>2. /\ SingleInv'
      /\ Holds("connect") \/ Holds("recv") => Owner' = Owner /\ task'[Owner] = task[Owner]
  BY ArrivalKeepsOwner DEF TypesInv, PledgeInv
<1>3. Holds("connect")' \/ Holds("recv")' => Holds("connect") \/ Holds("recv")
  BY <1>1 DEF Steps
<1>4. QED
  BY <1>1, <1>2, <1>3, PledgeRests, PromisesRest

LEMMA ServeKeepsPromises ==
  ASSUME TypesInv, SessionInv, PromiseInv, Serve
  PROVE  PromiseInv'
<1> DEFINE r == Head(inbox)
<1>1. /\ session = "cur" /\ inbox # <<>> /\ inbox' = Tail(inbox)
      /\ UNCHANGED <<lockq, task, immutable, call, sealed>>
      /\ applied' = IF Acts(r) /\ r.by \in Calls /\ task[r.by].pc # "idle"
                      THEN applied \cup {r.by} ELSE applied
  BY DEF Serve, client, tasks
<1>2. PICK s \in BOOLEAN : outbox' = Append(outbox, Reply(r, s))
  BY DEF Serve
<1>3. Holds("recv") /\ call \in PendingCalls
  BY <1>1 DEF SessionInv, ClosedInv, Quiet, TypesInv, CallInv
<1>4. /\ inbox = <<r>> /\ outbox = <<>> /\ r.type = call.last
      /\ r.by = Owner /\ (call.last \in ModuleOps => r.modules = task[Owner].modules)
      /\ task[Owner].pc = "recv"
  BY <1>1, <1>3 DEF SessionInv, ExchangeInv, PromiseInv, PledgeInv, ApplyInv, Holds, Owner
<1>5. call.last \in ModuleOps \cup {"CRATE"} => Settled /\ call.op = call.last /\ call.op \in Methods
  <2>1. call.last \in ModuleOps \cup {"CRATE"} => Settled
    BY <1>1, <1>3, Waiting DEF ModuleOps
  <2>2. call.last \in ModuleOps \cup {"CRATE"} => call.last = RequestOf(call.op)
    BY <1>3, Waiting DEF ModuleOps, PendingCalls, Fits
  <2>3. call.last \in ModuleOps \cup {"CRATE"} => call.op = call.last /\ call.op \in Methods
    BY <1>3, <2>2 DEF ModuleOps, RequestOf, PendingCalls, Operations
  <2>4. QED
    BY <2>1, <2>3
<1> HIDE DEF r
<1>6. inbox' = <<>> /\ outbox' # <<>> /\ Head(outbox') = Reply(r, s)
  <2>1. \A x : Tail(<<x>>) = <<>> /\ Append(<<>>, x) = <<x>> /\ Head(<<x>>) = x /\ <<x>> # <<>>
    OBVIOUS
  <2>2. QED
    BY <1>1, <1>2, <1>4, <2>1
<1>7. ASSUME Reply(r, s).ok, Owner \in Calls,
             call.last \in ModuleOps \/ (Resets = FALSE /\ call.last = "CRATE")
      PROVE  Owner \in applied' \/ (task[Owner].op = "POWER" /\ task[Owner].modules \subseteq immutable)
  <2>1. CASE Acts(r)
    BY <1>1, <1>4, <1>7, <2>1
  <2>2. CASE ~Acts(r)
    <3>1. r.type = "POWER" /\ r.modules \cap config # {} /\ config = immutable
      BY <1>4, <1>5, <1>7, <2>2 DEF Reply, Refused, Acts, Settled, Aligned, ModuleOps
    <3>2. task[Owner].op = "POWER" /\ r.modules = task[Owner].modules
      BY <1>3, <1>4, <1>5, <3>1 DEF PromiseInv, PledgeInv, OwnerInv, ModuleOps
    <3>3. \E m \in Modules : task[Owner].modules = {m}
      BY <1>7, <3>2 DEF PromiseInv, PledgeInv, SingleInv, ModuleOps
    <3>4. QED
      BY <3>1, <3>2, <3>3
  <2>3. QED
    BY <2>1, <2>2
<1>8. Owner' = Owner
  BY <1>1 DEF Owner
<1>9. ApplyInv'
  BY <1>1, <1>6, <1>7, <1>8 DEF ApplyInv
<1>10. SealInv' /\ OwnerInv' /\ SingleInv'
  BY <1>1, <1>8 DEF PromiseInv, PledgeInv, SealInv, OwnerInv, SingleInv, Holds
<1>11. QED
  BY <1>9, <1>10 DEF PromiseInv, PledgeInv

LEMMA ServerKeepsPromises ==
  ASSUME PledgeInv,
         Accept \/ ServeStale \/ DropOld \/ ServerCloses \/ Reset \/ Tick \/ UNCHANGED vars
  PROVE  PledgeInv' /\ (PromiseInv => PromiseInv')
<1>1. /\ UNCHANGED <<lockq, task, immutable, sealed, applied, call, outbox>>
      /\ inbox' \in {inbox, <<>>}
  BY DEF Accept, ServeStale, DropOld, ServerCloses, Reset, Tick, vars, client, tasks, wire, api, history
<1>2. (\A pc \in Steps : Holds(pc)' <=> Holds(pc)) /\ Owner' = Owner /\ task'[Owner] = task[Owner]
  BY <1>1 DEF Holds, Owner
<1>3. SingleInv'
  BY <1>1 DEF PledgeInv, SingleInv
<1>4. QED
  BY <1>1, <1>2, <1>3, PledgeRests, PromisesRest

LEMMA PromisesGoOn ==
  ASSUME TypesInv, SessionInv, PromiseInv, [Next]_vars, \A t \in Tasks : ~Cancel(t)
  PROVE  PromiseInv'
<1>1. PledgeInv
  BY DEF PromiseInv
<1>2. ASSUME NEW t \in Tasks, Progress(t) PROVE PromiseInv'
  BY <1>1, <1>2, StartKeepsPromises, ConnectSucceedsKeepsPromises, FailureKeepsPromises,
     RequestsKeepPromises, MethodAnswersKeepPromises
     DEF Progress
<1>3. CASE (\E t \in Tasks : Invoke(t)) \/ WakePoll
  BY <1>1, <1>3, ArrivalKeepsPromises
<1>4. CASE PollProgress
  BY <1>4, SlowPollKeepsPromises, PollAnswersKeepPromises DEF PollProgress
<1>5. CASE Server \/ ServerCloses \/ Reset \/ Tick \/ UNCHANGED vars
  BY <1>1, <1>5, ServeKeepsPromises, ServerKeepsPromises DEF Server
<1>6. QED
  BY <1>2, <1>3, <1>4, <1>5 DEF Next

LEMMA InitPromises == Init => PromiseInv /\ PunctualInv
<1> SUFFICES ASSUME Init PROVE PromiseInv /\ PunctualInv
  OBVIOUS
<1>1. lockq = <<>> /\ sealed = {} /\ task = [t \in Tasks |-> Idle] /\ stale = <<>> /\ eof = FALSE
  BY DEF Init
<1>2. SingleInv
  BY <1>1, ConstantTypes DEF SingleInv, Idle, ModuleOps
<1>3. QED
  BY <1>1, <1>2
     DEF PromiseInv, PledgeInv, SealInv, OwnerInv, ApplyInv, PunctualInv, Holds

-----------------------------------------------------------------------------
(* After a cancellation *)

LEMMA NextNumber ==
  ASSUME seq \in Numbers
  PROVE  NextSeq = IF seq = SeqSize - 1 THEN 0 ELSE seq + 1
<1>1. \A m \in Nat \ {0} : m % m = 0 /\ \A n \in 0 .. m - 1 : n % m = n
  OBVIOUS
<1>2. SeqSize \in Nat \ {0}
  BY ConstantTypes
<1>3. QED
  BY <1>1, <1>2 DEF NextSeq, Numbers

\* Every number is one older when the next one is in turn, but the one that comes again.
LEMMA OneOlder ==
  ASSUME seq \in Numbers
  PROVE  /\ Age(seq, seq) = 0 /\ Age(NextSeq, NextSeq) = 0
         /\ \A n \in Numbers : Age(n, seq) < SeqSize - 1 => Age(n, NextSeq) = Age(n, seq) + 1
  BY NextNumber, ConstantTypes DEF Age, Numbers

\* A connection at the head of the backlog leaves it.
LEMMA AcceptingOne ==
  ASSUME TypesInv, OneComing, Accept
  PROVE  /\ OneComing'
         /\ Head(backlog) = "cur" => session # "cur" /\ NoneComing' /\ ~NoneComing
         /\ Head(backlog) # "cur" => (NoneComing' <=> NoneComing)
<1>1. backlog # <<>> /\ backlog' = Tail(backlog) /\ backlog \in Seq({"cur", "old"})
  BY DEF Accept, TypesInv, ServerTypes
<1>2. /\ Head(backlog) = backlog[1] /\ backlog' \in Seq({"cur", "old"}) /\ Len(backlog) \in Nat
      /\ DOMAIN backlog = 1 .. Len(backlog) /\ DOMAIN backlog' = 1 .. Len(backlog) - 1
      /\ \A i \in DOMAIN backlog' : backlog'[i] = backlog[i + 1]
      /\ 1 \in DOMAIN backlog
  BY <1>1, HeadTailProperties, LenProperties, NotEmpty
<1>3. /\ \A i \in DOMAIN backlog' : i \in Int /\ i + 1 \in DOMAIN backlog /\ i + 1 # 1
      /\ \A i \in DOMAIN backlog : i \in Int /\ (i # 1 => i - 1 \in DOMAIN backlog' /\ (i - 1) + 1 = i)
  BY <1>2
<1>4. CASE Head(backlog) = "cur"
  <2>1. session # "cur" /\ \A j \in DOMAIN backlog : backlog[j] = "cur" => j = 1
    BY <1>2, <1>4 DEF OneComing
  <2>2. NoneComing'
    BY <1>2, <1>3, <2>1 DEF NoneComing
  <2>3. QED
    BY <1>2, <1>4, <2>1, <2>2 DEF OneComing, NoneComing
<1>5. CASE Head(backlog) # "cur"
  <2>1. NoneComing' <=> NoneComing
    BY <1>2, <1>3, <1>5 DEF NoneComing
  <2>2. ASSUME NEW i \in DOMAIN backlog', backlog'[i] = "cur"
        PROVE  session' # "cur" /\ \A j \in DOMAIN backlog' : backlog'[j] = "cur" => j = i
    <3>1. /\ i + 1 \in DOMAIN backlog /\ backlog[i + 1] = "cur" /\ i \in Int
      BY <1>2, <1>3, <2>2
    <3>2. session # "cur" /\ \A j \in DOMAIN backlog : backlog[j] = "cur" => j = i + 1
      BY <3>1 DEF OneComing
    <3>3. \A j \in DOMAIN backlog' : backlog'[j] = "cur" => j + 1 = i + 1 /\ j \in Int
      BY <1>2, <1>3, <3>2
    <3>4. session' # "cur"
      BY <1>5, <3>2 DEF Accept
    <3>5. QED
      BY <3>1, <3>3, <3>4
  <2>3. OneComing'
    BY <2>2 DEF OneComing
  <2>4. QED
    BY <1>5, <2>1, <2>3
<1>6. QED
  BY <1>4, <1>5

LEMMA SessionHasOneComing == SessionInv => OneComing
  BY DEF SessionInv, ClosedInv, OpenInv, NoneComing, OneComing

\* The numbers of what is under way.
LEMMA NumbersUnderWay ==
  ASSUME TypesInv
  PROVE  /\ seq \in Numbers /\ Len(outbox) \in Nat /\ Len(inbox) \in Nat
         /\ \A i \in 1 .. Len(outbox) : outbox[i].seq \in Numbers
         /\ \A i \in 1 .. Len(inbox) : inbox[i].seq \in Numbers
<1>1. outbox \in Seq(Replies) /\ inbox \in Seq(Messages) /\ seq \in Numbers
  BY DEF TypesInv, ServerTypes, BridgeTypes
<1>2. /\ \A i \in 1 .. Len(outbox) : outbox[i] \in Replies
      /\ \A i \in 1 .. Len(inbox) : inbox[i] \in Messages
      /\ Len(outbox) \in Nat /\ Len(inbox) \in Nat
  BY <1>1, LenProperties
<1>3. QED
  BY <1>1, <1>2 DEF Replies, Messages

\* Steps that leave the exchange with the server alone.
LEMMA LateRests ==
  ASSUME NEW g, LateInv(g), Holds("recv")' <=> Holds("recv"), ~Holds("connect")',
         Holds("recv")' => call' = call, wait' = 0,
         UNCHANGED <<writer, seq, backlog, session, inbox, outbox, fast>>
  PROVE  LateInv(g)'
<1>1. Turn' = Turn /\ (Heard' <=> Heard) /\ (GoodInv => GoodInv') /\ (OneComing => OneComing')
  BY DEF Turn, Heard, NoneComing, GoodInv, GoodMeansRead, OneComing
<1>2. (LateReplies(g) => LateReplies(g)') /\ (LateRequests(g) => LateRequests(g)')
  BY <1>1 DEF LateReplies, LateRequests
<1>3. QED
  BY <1>1, <1>2 DEF LateInv

\* The reply at hand is to an earlier request.
LEMMA LateUnanswered ==
  ASSUME TypesInv, NEW g \in Nat \ {0}, LateInv(g), Holds("recv"), outbox # <<>>
  PROVE  Head(outbox).seq # call.seq
<1>1. outbox \in Seq(Replies) /\ Len(outbox) > 0 /\ Head(outbox) = outbox[1] /\ 1 \in 1 .. Len(outbox)
  BY NotEmpty DEF TypesInv, ServerTypes
<1>2. Age(outbox[1].seq, seq) = g + 1 - 1 /\ call.seq = seq
  BY <1>1 DEF LateInv, LateReplies, Turn
<1>3. Age(seq, seq) = 0
  BY OneOlder, NumbersUnderWay
<1>4. QED
  BY <1>1, <1>2, <1>3

\* A new request waits behind those whose replies nobody waits for.
LEMMA SendStaysLate ==
  ASSUME TypesInv, NEW g \in 1 .. SeqSize - 1, LateInv(g), writer = "open",
         ~Holds("recv"), Holds("recv")', ~Holds("connect")',
         NEW t, NEW c \in PendingCalls, c.stage = "op", Send(t, c.want, c),
         outbox' = outbox, wait' = 0, UNCHANGED <<writer, fast, server>>
  PROVE  LateInv(g)'
<1> DEFINE m == Numbered(t, c.want, NextSeq)
<1>1. /\ seq' = NextSeq /\ call' = [c EXCEPT !.last = c.want, !.seq = NextSeq]
      /\ inbox' = Append(inbox, m) /\ UNCHANGED <<backlog, session>>
  BY DEF Send, server
<1>2. call'.stage = "op" /\ call'.seq = seq'
  BY <1>1 DEF PendingCalls
<1>3. m.seq = NextSeq
  BY DEF Numbered
<1> HIDE DEF m
<1>4. /\ Len(inbox') = Len(inbox) + 1 /\ inbox'[Len(inbox) + 1].seq = NextSeq
      /\ \A i \in 1 .. Len(inbox) : inbox'[i] = inbox[i]
  <2>1. Len(inbox') = Len(inbox) + 1 /\ inbox'[Len(inbox) + 1] = m
        /\ \A i \in 1 .. Len(inbox) : inbox'[i] = inbox[i]
    BY <1>1 DEF TypesInv, ServerTypes
  <2>2. QED
    BY <1>3, <2>1
<1>5. Turn = 0 /\ Turn' = 1 /\ (Heard' <=> Heard) /\ SeqSize \in Nat /\ g \in 1 .. SeqSize - 1
  BY <1>1, ConstantTypes DEF Turn, Heard, NoneComing
<1>6. /\ seq \in Numbers /\ Len(outbox) \in Nat /\ Len(inbox) \in Nat
      /\ \A i \in 1 .. Len(outbox) : outbox[i].seq \in Numbers
      /\ \A i \in 1 .. Len(inbox) : inbox[i].seq \in Numbers
  BY NumbersUnderWay
<1>7. LateReplies(g)'
  <2> SUFFICES ASSUME NEW i \in 1 .. Len(outbox) PROVE Age(outbox[i].seq, NextSeq) = g + 1 - i
    BY <1>1, <1>5 DEF LateReplies
  <2>1. Age(outbox[i].seq, seq) = g - i
    BY <1>5 DEF LateInv, LateReplies
  <2>2. g - i < SeqSize - 1 /\ g - i + 1 = g + 1 - i
    BY <1>5, <1>6
  <2>3. QED
    BY <1>6, <2>1, <2>2, OneOlder
<1>8. LateRequests(g)'
  <2> SUFFICES ASSUME Heard
               PROVE  /\ Len(outbox) + Len(inbox') = g + 1
                      /\ \A i \in 1 .. Len(inbox') : Age(inbox'[i].seq, NextSeq) = g + 1 - Len(outbox) - i
    BY <1>1, <1>5 DEF LateRequests
  <2>1. Len(outbox) + Len(inbox) = g
    BY <1>5, <1>6 DEF LateInv, LateRequests
  <2>2. ASSUME NEW i \in 1 .. Len(inbox)
        PROVE  Age(inbox[i].seq, NextSeq) = g + 1 - Len(outbox) - i
    <3>1. Age(inbox[i].seq, seq) = g - Len(outbox) - i
      BY <1>5, <1>6 DEF LateInv, LateRequests
    <3>2. g - Len(outbox) - i < SeqSize - 1 /\ g - Len(outbox) - i + 1 = g + 1 - Len(outbox) - i
      BY <1>5, <1>6
    <3>3. QED
      BY <1>6, <3>1, <3>2, OneOlder
  <2>3. Age(inbox'[Len(inbox) + 1].seq, NextSeq) = 0
    BY <1>4, <1>6, OneOlder
  <2>4. \A i \in 1 .. Len(inbox') : i \in 1 .. Len(inbox) \/ i = Len(inbox) + 1
    BY <1>4, <1>6
  <2>5. g + 1 - Len(outbox) - (Len(inbox) + 1) = 0 /\ Len(outbox) + Len(inbox') = g + 1
    BY <1>4, <1>5, <1>6, <2>1
  <2>6. QED
    BY <1>4, <2>2, <2>3, <2>4, <2>5
<1>9. GoodInv' /\ OneComing'
  BY <1>1 DEF LateInv, GoodInv, GoodMeansRead, OneComing
<1>10. QED
  BY <1>2, <1>7, <1>8, <1>9 DEF LateInv

\* A reply is read that nobody waited for.
LEMMA ReadStaysLate ==
  ASSUME TypesInv, NEW g \in Nat, LateInv(g), writer = "open", Holds("recv"), outbox # <<>>,
         outbox' = Tail(outbox), ~Holds("recv")', ~Holds("connect")', wait' = 0,
         GoodMeansRead => GoodMeansRead',
         UNCHANGED <<writer, seq, backlog, session, inbox>>
  PROVE  LateInv(g)'
<1>1. /\ Len(outbox') = Len(outbox) - 1 /\ Len(outbox) \in Nat \ {0} /\ Len(inbox) \in Nat
      /\ \A i \in 1 .. Len(outbox') : outbox'[i] = outbox[i + 1]
  <2>1. outbox \in Seq(Replies) /\ inbox \in Seq(Messages)
    BY DEF TypesInv, ServerTypes
  <2>2. QED
    BY <2>1, HeadTailProperties, LenProperties, NotEmpty
<1>2. Turn = 1 /\ Turn' = 0 /\ (Heard' <=> Heard)
  BY DEF Turn, Heard, NoneComing
<1>3. LateReplies(g)'
  <2> SUFFICES ASSUME NEW i \in 1 .. Len(outbox') PROVE Age(outbox[i + 1].seq, seq) = g - i
    BY <1>1, <1>2 DEF LateReplies
  <2>1. i + 1 \in 1 .. Len(outbox) /\ g + 1 - (i + 1) = g - i
    BY <1>1
  <2>2. QED
    BY <1>2, <2>1 DEF LateInv, LateReplies
<1>4. LateRequests(g)'
  <2> SUFFICES ASSUME Heard
               PROVE  /\ Len(outbox') + Len(inbox) = g
                      /\ \A i \in 1 .. Len(inbox) : Age(inbox[i].seq, seq) = g - Len(outbox') - i
    BY <1>1, <1>2 DEF LateRequests
  <2>1. /\ Len(outbox) + Len(inbox) = g + 1
        /\ \A i \in 1 .. Len(inbox) : Age(inbox[i].seq, seq) = g + 1 - Len(outbox) - i
    BY <1>2 DEF LateInv, LateRequests
  <2>2. \A i \in 1 .. Len(inbox) : g + 1 - Len(outbox) - i = g - Len(outbox') - i
    BY <1>1
  <2>3. QED
    BY <1>1, <2>1, <2>2
<1>5. GoodInv' /\ OneComing'
  BY DEF LateInv, GoodInv, OneComing
<1>6. QED
  BY <1>3, <1>4, <1>5 DEF LateInv

\* The server answers the requests in the order in which they were written.
LEMMA ServeStaysLate ==
  ASSUME TypesInv, NEW g \in Nat, LateInv(g), Serve
  PROVE  LateInv(g)'
<1> DEFINE r == Head(inbox)
<1>1. /\ session = "cur" /\ inbox # <<>> /\ inbox' = Tail(inbox)
      /\ UNCHANGED <<lockq, task, immutable, connected, wait, fast, seq, call, writer, backlog, session>>
  BY DEF Serve, client, tasks, link, published
<1>2. PICK x : x \in BOOLEAN /\ outbox' = Append(outbox, Reply(r, x))
  BY DEF Serve
<1>3. Reply(r, x).seq = inbox[1].seq
  <2>1. r = inbox[1]
    BY <1>1, NotEmpty DEF TypesInv, ServerTypes
  <2>2. QED
    BY <2>1 DEF Reply
<1> HIDE DEF r
<1>4. /\ Len(outbox') = Len(outbox) + 1 /\ outbox'[Len(outbox) + 1].seq = inbox[1].seq
      /\ \A i \in 1 .. Len(outbox) : outbox'[i] = outbox[i]
  BY <1>2, <1>3 DEF TypesInv, ServerTypes
<1>5. /\ Len(inbox') = Len(inbox) - 1 /\ Len(inbox) \in Nat \ {0} /\ Len(outbox) \in Nat
      /\ \A i \in 1 .. Len(inbox') : inbox'[i] = inbox[i + 1]
  <2>1. outbox \in Seq(Replies) /\ inbox \in Seq(Messages)
    BY DEF TypesInv, ServerTypes
  <2>2. QED
    BY <1>1, <2>1, HeadTailProperties, LenProperties, NotEmpty
<1>6. /\ Turn' = Turn /\ (Holds("recv")' <=> Holds("recv")) /\ (Holds("connect")' <=> Holds("connect"))
      /\ Heard /\ Heard' /\ Turn \in Int
  BY <1>1 DEF Turn, Holds, Heard
<1>7. /\ Len(outbox) + Len(inbox) = g + Turn
      /\ \A i \in 1 .. Len(inbox) : Age(inbox[i].seq, seq) = g + Turn - Len(outbox) - i
      /\ \A i \in 1 .. Len(outbox) : Age(outbox[i].seq, seq) = g + Turn - i
  BY <1>6 DEF LateInv, LateRequests, LateReplies
<1>8. LateReplies(g)'
  <2>1. Age(inbox[1].seq, seq) = g + Turn - (Len(outbox) + 1)
    <3>1. 1 \in 1 .. Len(inbox) /\ g + Turn - Len(outbox) - 1 = g + Turn - (Len(outbox) + 1)
      BY <1>5, <1>6
    <3>2. QED
      BY <1>7, <3>1
  <2>2. \A i \in 1 .. Len(outbox') : i \in 1 .. Len(outbox) \/ i = Len(outbox) + 1
    BY <1>4, <1>5
  <2>3. QED
    BY <1>1, <1>4, <1>6, <1>7, <2>1, <2>2 DEF LateReplies
<1>9. LateRequests(g)'
  <2>1. \A i \in 1 .. Len(inbox') : /\ i + 1 \in 1 .. Len(inbox)
                                    /\ g + Turn - Len(outbox) - (i + 1) = g + Turn - Len(outbox') - i
    BY <1>4, <1>5, <1>6
  <2>2. Len(outbox') + Len(inbox') = g + Turn
    BY <1>4, <1>5, <1>6, <1>7
  <2>3. QED
    BY <1>1, <1>5, <1>6, <1>7, <2>1, <2>2 DEF LateRequests
<1>10. /\ GoodInv' /\ OneComing'
       /\ writer' # "closing"
  BY <1>1, <1>6 DEF LateInv, GoodInv, GoodMeansRead, OneComing
<1>11. QED
  BY <1>1, <1>6, <1>8, <1>9, <1>10 DEF LateInv

LEMMA AcceptStaysLate ==
  ASSUME TypesInv, NEW g, LateInv(g), Accept
  PROVE  LateInv(g)'
<1>1. /\ UNCHANGED <<lockq, task, immutable, connected, wait, fast, seq, call, writer, outbox>>
      /\ OneComing' /\ OneComing
  BY AcceptingOne DEF Accept, LateInv, client, tasks, link, published
<1>2. /\ Turn' = Turn /\ (Holds("recv")' <=> Holds("recv")) /\ (Holds("connect")' <=> Holds("connect"))
      /\ GoodInv => GoodInv'
  BY <1>1 DEF Turn, Holds, GoodInv, GoodMeansRead
<1>3. \/ ~Heard' /\ (inbox = <<>> => inbox' = <<>>)
      \/ (Heard' <=> Heard) /\ inbox' = inbox
  <2>1. CASE Head(backlog) = "cur"
    <3>1. session # "cur" /\ NoneComing' /\ Heard
      BY <1>1, <2>1, AcceptingOne DEF Heard
    <3>2. \/ session' = "cur" /\ inbox' = inbox
          \/ session' = session /\ inbox' = <<>>
      BY <2>1 DEF Accept
    <3>3. QED
      BY <3>1, <3>2 DEF Heard
  <2>2. CASE Head(backlog) # "cur"
    <3>1. NoneComing' <=> NoneComing
      BY <1>1, <2>2, AcceptingOne
    <3>2. inbox' = inbox /\ (session' = "cur" <=> session = "cur")
      BY <2>2 DEF Accept
    <3>3. QED
      BY <3>1, <3>2 DEF Heard
  <2>3. QED
    BY <2>1, <2>2
<1>4. (LateReplies(g) => LateReplies(g)') /\ (LateRequests(g) => LateRequests(g)')
  BY <1>1, <1>2, <1>3 DEF LateReplies, LateRequests
<1>5. QED
  BY <1>1, <1>2, <1>3, <1>4 DEF LateInv

\* The server is busy with another client, or loses the API's.
LEMMA ServerStaysLate ==
  ASSUME NEW g, LateInv(g), ServeStale \/ DropOld \/ ServerCloses
  PROVE  LateInv(g)'
<1>1. /\ UNCHANGED <<lockq, task, immutable, connected, wait, fast, seq, call, writer, backlog, outbox>>
      /\ session' # "cur"
      /\ \/ inbox' = inbox /\ session # "cur"
         \/ inbox' = <<>> /\ session = "cur"
  BY DEF ServeStale, DropOld, ServerCloses, client, tasks, link, published, wire
<1>2. /\ Turn' = Turn /\ (Holds("recv")' <=> Holds("recv")) /\ (Holds("connect")' <=> Holds("connect"))
      /\ GoodInv => GoodInv'
      /\ OneComing /\ (OneComing => OneComing')
  BY <1>1 DEF Turn, Holds, GoodInv, GoodMeansRead, OneComing, LateInv
<1>3. \/ ~Heard' /\ inbox' = <<>>
      \/ (Heard' <=> Heard) /\ inbox' = inbox
  <2>1. session = "cur" => NoneComing
    BY <1>2 DEF OneComing, NoneComing
  <2>2. NoneComing' <=> NoneComing
    BY <1>1 DEF NoneComing
  <2>3. QED
    BY <1>1, <2>1, <2>2 DEF Heard
<1>4. (LateReplies(g) => LateReplies(g)') /\ (LateRequests(g) => LateRequests(g)')
  BY <1>1, <1>2, <1>3 DEF LateReplies, LateRequests
<1>5. QED
  BY <1>1, <1>2, <1>3, <1>4 DEF LateInv

\* The connection ends: requests and replies are in step again.
LEMMA EndsLate ==
  ASSUME PledgeInv', ~Holds("recv")', ~Holds("connect")', inbox' = <<>>, writer' # "open",
         session' # "cur", NoneComing', writer' # "none" => wait' = 0, LinkInv', GoodInv'
  PROVE  SessionInv' /\ PromiseInv'
<1>1. Quiet'
  BY DEF Quiet
<1>2. ApplyInv'
  BY DEF ApplyInv
<1>3. QED
  BY <1>1, <1>2, RestKeepsSession DEF PromiseInv

LEMMA ResetLate ==
  ASSUME TypesInv, PledgeInv, NEW g, LateInv(g), Reset
  PROVE  (LateInv(g)' /\ PledgeInv') \/ (SessionInv' /\ PromiseInv')
<1>1. /\ Resets = TRUE /\ writer' = "closing" /\ inbox' = <<>> /\ GiveUp /\ ServerTypes
      /\ UNCHANGED <<lockq, task, immutable, connected, wait, fast, seq, call, outbox>>
  BY BridgeAssumption DEF Reset, TypesInv, client, tasks, link, published
<1>2. session' # "cur" /\ NoneComing' /\ ~Heard' /\ OneComing'
  BY <1>1, GiveUpTypes DEF NoneComing, Heard, OneComing
<1>3. /\ Turn' = Turn /\ (Holds("recv")' <=> Holds("recv")) /\ ~Holds("connect")' /\ wait' = 0
      /\ GoodInv' /\ LinkInv'
  BY <1>1 DEF LateInv, Turn, Holds, GoodInv, LinkInv
<1>4. PledgeInv'
  BY ServerKeepsPromises
<1>5. CASE Holds("recv")
  <2>1. LateReplies(g)' /\ LateRequests(g)'
    BY <1>1, <1>2, <1>3 DEF LateInv, LateReplies, LateRequests
  <2>2. QED
    BY <1>1, <1>2, <1>3, <1>4, <1>5, <2>1 DEF LateInv
<1>6. CASE ~Holds("recv")
  BY <1>1, <1>2, <1>3, <1>4, <1>6, EndsLate
<1>7. QED
  BY <1>5, <1>6

\* A task gets the lock and writes its request behind the others.
LEMMA EnsureStaysLate ==
  ASSUME TypesInv, PledgeInv, NEW g \in 1 .. SeqSize - 1, LateInv(g), NEW t,
         NEW op \in Operations \ {"L1SCALERS"}, Ensures(t, op)
  PROVE  LateInv(g)' /\ PledgeInv'
<1> DEFINE c == NewCall(op, "op", RequestOf(op))
<1>1. /\ HoldsLock(t) /\ LockInv /\ ~Holds("recv") /\ Ensure(t, op) /\ UNCHANGED server
      /\ immutable' \in SUBSET Modules
  BY HolderIs DEF Ensures, TypesInv, Holds
<1>2. writer = "open" /\ wait = 0
  BY <1>1 DEF LateInv, TypesInv, BridgeTypes
<1>3. /\ Request(t, c) /\ sealed' = Unsealed(t)
      /\ UNCHANGED <<outbox, published, wait, writer>>
  BY <1>1, <1>2 DEF Ensure, Request, link
<1>4. c \in PendingCalls /\ c.op = op /\ c.stage = "op"
  <2>1. c \in PendingCalls
    BY NewCallType, OperationRequests
  <2>2. QED
    BY <2>1 DEF NewCall
<1> HIDE DEF c
<1>5. Send(t, c.want, c) /\ Stays(t, "recv")
  BY <1>2, <1>3 DEF Request, Stays
<1>6. Holds("recv")' /\ ~Holds("connect")'
  BY <1>1, <1>5, StaysKeepsLock DEF Steps
<1>7. LateInv(g)'
  BY <1>1, <1>2, <1>3, <1>4, <1>5, <1>6, SendStaysLate DEF published
<1>8. PledgeInv'
  <2>1. SealInv' /\ SingleInv
    BY <1>3 DEF SealInv, Ensures, PledgeInv
  <2>2. /\ c.op \in Methods => t \in Calls /\ task[t].op = c.op
        /\ c.op = "IMMUTABLE" /\ task[t].value => task[t].modules \subseteq immutable'
    BY <1>4 DEF Ensures
  <2>3. QED
    BY <1>1, <1>3, <1>4, <2>1, <2>2, RequestKeepsPledge
<1>9. QED
  BY <1>7, <1>8

LEMMA SlowPollStaysLate ==
  ASSUME TypesInv, PledgeInv, NEW g \in 1 .. SeqSize - 1, LateInv(g), SlowPoll
  PROVE  LateInv(g)' /\ PledgeInv'
<1>1. CASE Ensures(Poll, "SLOW_POLL")
  BY <1>1, EnsureStaysLate DEF Operations
<1>2. CASE ~Ensures(Poll, "SLOW_POLL")
  <2>1. /\ HoldsLock(Poll) /\ task[Poll].pc = "slow" /\ Returns(Poll) /\ LockInv
        /\ UNCHANGED <<immutable, server, link, published, writer, eof, seq, wire, sealed>>
    BY <1>2, PollingSlowly DEF TypesInv
  <2>2. ~Holds("recv") /\ ~Holds("recv")' /\ ~Holds("connect")'
    BY <2>1, HolderIs, ReturnsRests DEF Holds
  <2>3. LateInv(g)'
    <3>1. /\ UNCHANGED <<writer, seq, backlog, session, inbox, outbox, fast>>
          /\ wait' = 0
      BY <2>1 DEF LateInv, server, link, published, wire
    <3>2. QED
      BY <2>2, <3>1, LateRests
  <2>4. PledgeInv'
    BY <2>1, ReturnsKeepsPromises DEF PromiseInv, PledgeInv, SealInv
  <2>5. QED
    BY <2>3, <2>4
<1>3. QED
  BY <1>1, <1>2

\* Every reply is another request's: the task raises, and the next one may fare better.
LEMMA WrongAnswerLate ==
  ASSUME TypesInv, PledgeInv, NEW g \in Nat, LateInv(g), NEW t \in Tasks, WrongAnswer(t)
  PROVE  (LateInv(g)' /\ PledgeInv') \/ (SessionInv' /\ PromiseInv')
<1>1. /\ HoldsLock(t) /\ Holds("recv") /\ outbox # <<>> /\ outbox' = Tail(outbox) /\ LockInv
      /\ Failed(t) /\ UNCHANGED <<immutable, writer, seq, inbox, server>> /\ call \in PendingCalls
      /\ immutable' \in SUBSET Modules
  BY AtStep DEF WrongAnswer
<1>2. call.stage = "op" /\ wait = 0 /\ LinkInv /\ GoodInv /\ writer \in {"open", "closing"}
  BY <1>1 DEF LateInv, LinkInv, TypesInv, BridgeTypes
<1>3. Raised(t, call.op)
  BY <1>1, <1>2 DEF Failed
<1>4. Returns(t) /\ wait' = 0 /\ LinkInv' /\ (GoodMeansRead => GoodMeansRead')
  BY <1>1, <1>2, <1>3, RaisedTypes, FailedKeepsGood
<1>5. ~Holds("recv")' /\ ~Holds("connect")'
  BY <1>1, <1>4, ReturnsRests
<1>6. PledgeInv'
  BY FailureKeepsPromises DEF PromiseInv
<1>7. UNCHANGED <<backlog, session>>
  BY <1>1 DEF server
<1>8. CASE writer = "open"
  BY <1>1, <1>4, <1>5, <1>6, <1>7, <1>8, ReadStaysLate
<1>9. CASE writer = "closing"
  <2>1. session' # "cur" /\ NoneComing' /\ inbox' = <<>> /\ GoodInv'
    BY <1>1, <1>2, <1>4, <1>7, <1>9 DEF LateInv, Heard, NoneComing, GoodInv
  <2>2. QED
    BY <1>1, <1>4, <1>5, <1>6, <1>9, <2>1, EndsLate
<1>10. QED
  BY <1>2, <1>8, <1>9

LEMMA LateGoesOn ==
  ASSUME TypesInv, PledgeInv, NEW g \in 1 .. SeqSize - 1, LateInv(g), [Next]_vars,
         \A t \in Tasks : ~Cancel(t)
  PROVE  (LateInv(g)' /\ PledgeInv') \/ (SessionInv' /\ PromiseInv')
<1> DEFINE Goal == (LateInv(g)' /\ PledgeInv') \/ (SessionInv' /\ PromiseInv')
<1>1. g \in Nat \ {0} /\ wait = 0 /\ ~Holds("connect") /\ LinkInv /\ GoodInv
  BY ConstantTypes DEF LateInv, LinkInv
<1>2. \A t, last : ~Answered(t, last)
  BY <1>1, AnsweredIs, LateUnanswered DEF Answered
<1>3. \A t : ~At(t, "connect")
  BY <1>1, AtStep
<1>4. ASSUME NEW t \in Tasks, Progress(t) PROVE Goal
  <2>1. CASE Start(t)
    <3>1. PICK op \in Operations \ {"L1SCALERS"} : Ensures(t, op)
      BY <2>1, Starting
    <3>2. QED
      BY <3>1, EnsureStaysLate
  <2>2. CASE WrongAnswer(t)
    BY <1>1, <2>2, WrongAnswerLate
  <2>3. CASE ConnectionLost(t) \/ TimesOut(t)
    BY <1>1, <2>3, DisconnectKeepsSession, FailureKeepsPromises
  <2>4. CASE ~Start(t) /\ ~WrongAnswer(t) /\ ~(ConnectionLost(t) \/ TimesOut(t))
    BY <1>2, <1>3, <1>4, <2>4
       DEF Progress, ConnectSucceeds, ConnectFails, Negotiated, Configured, CommandAnswered, ImmutableAnswered
  <2>5. QED
    BY <2>1, <2>2, <2>3, <2>4
<1>5. CASE (\E t \in Tasks : Invoke(t)) \/ WakePoll
  <2>1. /\ \A pc \in Steps : Holds(pc)' <=> Holds(pc)
        /\ UNCHANGED <<call, wait, writer, seq, backlog, session, inbox, outbox, fast>>
    BY <1>5, InvokeKeepsTypes, WakeKeepsTypes DEF Invoke, WakePoll, link, published, api, server, wire
  <2>2. LateInv(g)'
    BY <1>1, <2>1, LateRests DEF Steps
  <2>3. QED
    BY <1>5, <2>2, ArrivalKeepsPromises
<1>6. CASE PollProgress
  BY <1>2, <1>6, SlowPollStaysLate DEF PollProgress, FastAnswered, ScalersAnswered, SlowAnswered
<1>7. CASE Tick \/ UNCHANGED vars
  <2>1. /\ UNCHANGED <<lockq, task, call, writer, seq, backlog, session, inbox, outbox, fast>>
        /\ wait' = 0
    BY <1>1, <1>7 DEF Tick, vars, tasks, link, published, api, server, wire
  <2>2. LateInv(g)'
    BY <1>1, <2>1, LateRests DEF Holds
  <2>3. QED
    BY <1>7, <2>2, ServerKeepsPromises
<1>8. CASE Accept \/ ServeStale \/ DropOld \/ ServerCloses
  BY <1>8, AcceptStaysLate, ServerStaysLate, ServerKeepsPromises
<1>9. CASE Serve
  <2>1. /\ UNCHANGED <<lockq, task, immutable, call, sealed>>
    BY <1>9 DEF Serve, client, tasks
  <2>2. PledgeInv'
    BY <2>1 DEF PledgeInv, SealInv, OwnerInv, SingleInv, Holds, Owner
  <2>3. QED
    BY <1>1, <1>9, <2>2, ServeStaysLate
<1>10. CASE Reset
  BY <1>10, ResetLate
<1>11. QED
  BY <1>4, <1>5, <1>6, <1>7, <1>8, <1>9, <1>10 DEF Next, Server

\* A task that is cancelled while it waits for the lock leaves its holder alone, and
\* the holder leaves the lock to the next one.
LEMMA Cancelling ==
  ASSUME TypesInv, PledgeInv, NEW t \in Tasks, Cancel(t)
  PROVE  /\ HoldsLock(t) => \A pc \in Steps : ~Holds(pc)'
         /\ ~HoldsLock(t) => /\ \A pc \in Steps : Holds(pc)' <=> Holds(pc)
                             /\ lockq # <<>> => Owner' = Owner /\ task'[Owner] = task[Owner]
                             /\ call' = call
                             /\ Holds("recv") /\ Owner \in applied => Owner \in applied'
         /\ UNCHANGED <<immutable, connected, wait, published, fast, writer, eof, seq, server, wire, sealed>>
         /\ PledgeInv'
<1>1. /\ t \in Calls /\ LockInv /\ task' = [task EXCEPT ![t] = Idle]
      /\ applied' = {u \in applied : task'[u].pc # "idle"}
      /\ call' = IF HoldsLock(t) THEN NoCall ELSE call
      /\ UNCHANGED <<immutable, connected, wait, published, fast, writer, eof, seq, server, wire, sealed>>
  BY DEF Cancel, Remembered, TypesInv, link, published
<1>2. /\ \A pc \in Steps : Holds(pc)' => Holds(pc) /\ ~HoldsLock(t)
      /\ ~HoldsLock(t) /\ lockq # <<>> =>
           Head(lockq') = Head(lockq) /\ task'[Head(lockq)] = task[Head(lockq)] /\ lockq' # <<>>
  BY <1>1, CancelKeepsLock
<1>3. ASSUME ~HoldsLock(t), lockq # <<>>
      PROVE  /\ \A pc \in Steps : Holds(pc)' <=> Holds(pc)
             /\ Owner' = Owner /\ task'[Owner] = task[Owner]
  BY <1>2, <1>3 DEF Holds, Owner
<1>4. ASSUME ~HoldsLock(t), Holds("recv"), Owner \in applied PROVE Owner \in applied'
  <2>1. task'[Owner].pc = "recv"
    BY <1>3, <1>4 DEF Holds, Owner
  <2>2. QED
    BY <1>1, <1>4, <2>1
<1>5. lockq = <<>> => \A pc \in Steps : ~Holds(pc)' /\ ~Holds(pc)
  BY <1>2 DEF Holds
<1>6. SingleInv'
  <2>1. \A u \in Tasks : task'[u] = IF u = t THEN Idle ELSE task[u]
    BY <1>1 DEF LockInv
  <2>2. QED
    BY <2>1, ConstantTypes DEF PledgeInv, SingleInv, Idle, ModuleOps
<1>7. PledgeInv'
  <2>1. Holds("connect")' \/ Holds("recv")' =>
          Owner' = Owner /\ task'[Owner] = task[Owner] /\ call' = call
    BY <1>1, <1>2, <1>3, <1>5 DEF Steps
  <2>2. QED
    BY <1>1, <1>2, <1>6, <2>1, PledgeRests
<1>8. QED
  BY <1>1, <1>2, <1>3, <1>4, <1>5, <1>7

\* The reply to a request that nobody waits for any more is left to the next one.
LEMMA CancelInStep ==
  ASSUME TypesInv, SessionInv, PromiseInv, NEW t \in Tasks, Cancel(t)
  PROVE  (SessionInv' /\ PromiseInv') \/ (LateInv(1)' /\ PledgeInv')
<1>1. /\ UNCHANGED <<immutable, connected, wait, published, fast, writer, eof, seq, server, wire, sealed>>
      /\ PledgeInv' /\ LinkInv /\ GoodInv
  BY Cancelling DEF PromiseInv, SessionInv
<1>2. /\ UNCHANGED <<backlog, session, configured, config, inbox, outbox>>
      /\ LinkInv' /\ GoodInv'
  BY <1>1 DEF server, wire, LinkInv, GoodInv, GoodMeansRead
<1>3. CASE ~HoldsLock(t)
  <2>1. /\ \A pc \in Steps : Holds(pc)' <=> Holds(pc)
        /\ call' = call
        /\ Holds("recv") /\ Owner \in applied => Owner \in applied'
    BY <1>3, Cancelling DEF PromiseInv
  <2>2. SessionInv'
    BY <1>1, <2>1, SessionRests DEF api
  <2>3. ApplyInv'
    <3>1. Holds("recv")' <=> Holds("recv")
      BY <2>1 DEF Steps
    <3>2. Holds("recv") => Owner' = Owner /\ task'[Owner] = task[Owner]
      BY <1>3, Cancelling DEF PromiseInv, Holds
    <3>3. QED
      BY <1>1, <1>2, <2>1, <3>1, <3>2 DEF PromiseInv, ApplyInv
  <2>4. QED
    BY <1>1, <2>2, <2>3 DEF PromiseInv
<1>4. CASE HoldsLock(t)
  <2>1. ~Holds("connect")' /\ ~Holds("recv")' /\ ApplyInv'
    BY <1>4, Cancelling DEF PromiseInv, Steps, ApplyInv
  <2>2. CASE Holds("recv") /\ writer = "open"
    <3>1. wait' = 0 /\ writer' = "open" /\ OneComing' /\ Turn' = 0 /\ (Heard' <=> Heard)
      BY <1>1, <1>2, <2>1, <2>2, SessionHasOneComing, Waiting DEF OneComing, Turn, Heard, NoneComing
    <3>2. call.seq = seq /\ Age(seq, seq) = 0
      BY <2>2, OneOlder, NumbersUnderWay DEF SessionInv, StageInv
    <3>3. /\ (outbox = <<>> /\ Len(outbox) = 0) \/ (Len(outbox) = 1 /\ outbox[1].seq = seq)
          /\ (inbox = <<>> /\ Len(inbox) = 0) \/ (Len(inbox) = 1 /\ inbox[1].seq = seq)
      <4>1. Len(<<>>) = 0 /\ \A x : Len(<<x>>) = 1 /\ <<x>>[1] = x
        OBVIOUS
      <4>2. /\ outbox # <<>> => outbox = <<Head(outbox)>> /\ Head(outbox).seq = call.seq
            /\ inbox # <<>> => inbox = <<Head(inbox)>> /\ Head(inbox).seq = call.seq
        BY <2>2 DEF SessionInv, ExchangeInv
      <4>3. QED
        BY <3>2, <4>1, <4>2
    <3>4. Heard => (outbox = <<>> /\ inbox # <<>>) \/ (outbox # <<>> /\ inbox = <<>>)
      BY <2>2 DEF SessionInv, ExchangeInv, Heard
    <3>5. LateReplies(1)'
      <4> SUFFICES ASSUME NEW i \in 1 .. Len(outbox) PROVE Age(outbox[i].seq, seq) = 1 - i
        BY <1>1, <1>2, <3>1 DEF LateReplies
      <4>1. i = 1 /\ outbox[1].seq = seq
        <5>1. \A n \in {0, 1} : \A j \in 1 .. n : j = 1 /\ n = 1
          OBVIOUS
        <5>2. Len(outbox) \in {0, 1} /\ (Len(outbox) = 1 => outbox[1].seq = seq)
          BY <3>3
        <5>3. i = 1 /\ Len(outbox) = 1
          BY <5>1, <5>2
        <5>4. QED
          BY <5>2, <5>3
      <4>2. QED
        BY <3>2, <4>1
    <3>6. LateRequests(1)'
      <4> SUFFICES ASSUME Heard
                   PROVE  /\ Len(outbox) + Len(inbox) = 1
                          /\ \A i \in 1 .. Len(inbox) : Age(inbox[i].seq, seq) = 1 - Len(outbox) - i
        BY <1>1, <1>2, <3>1 DEF LateRequests
      <4>1. \/ Len(outbox) = 0 /\ Len(inbox) = 1 /\ inbox[1].seq = seq
            \/ Len(outbox) = 1 /\ Len(inbox) = 0
        <5>1. Len(outbox) = 1 /\ Len(inbox) = 1 => outbox # <<>> /\ inbox # <<>>
          <6>1. Len(<<>>) = 0
            OBVIOUS
          <6>2. QED
            BY <6>1
        <5>2. QED
          BY <3>3, <3>4, <5>1
      <4>2. CASE Len(outbox) = 0 /\ Len(inbox) = 1 /\ inbox[1].seq = seq
        <5>1. Len(outbox) + Len(inbox) = 1
          BY <4>2
        <5>2. ASSUME NEW i \in 1 .. Len(inbox) PROVE Age(inbox[i].seq, seq) = 1 - Len(outbox) - i
          <6>1. i = 1 /\ 1 - Len(outbox) - i = 0
            BY <4>2
          <6>2. QED
            BY <3>2, <4>2, <6>1
        <5>3. QED
          BY <5>1, <5>2
      <4>3. CASE Len(outbox) = 1 /\ Len(inbox) = 0
        BY <4>3
      <4>4. QED
        BY <4>1, <4>2, <4>3
    <3>7. QED
      BY <1>1, <1>2, <2>1, <3>1, <3>5, <3>6 DEF LateInv
  <2>3. CASE ~(Holds("recv") /\ writer = "open")
    <3>1. /\ Quiet /\ NoneComing
          /\ writer # "open" => session # "cur"
          /\ writer # "none" => wait = 0
          /\ writer = "open" /\ session = "cur" => Settled
      <4>1. CASE ~Holds("recv")
        BY <4>1, Resting
      <4>2. CASE Holds("recv")
        BY <2>3, <4>2, Waiting DEF SessionInv, ClosedInv, Quiet
      <4>3. QED
        BY <4>1, <4>2
    <3>2. /\ Quiet' /\ NoneComing'
          /\ writer' # "open" => session' # "cur"
          /\ writer' # "none" => wait' = 0
          /\ writer' = "open" /\ session' = "cur" => Settled'
      BY <1>1, <1>2, <3>1 DEF Quiet, NoneComing, Settled, Aligned
    <3>3. SessionInv'
      BY <1>2, <2>1, <3>2, RestKeepsSession
    <3>4. QED
      BY <1>1, <2>1, <3>3 DEF PromiseInv
  <2>4. QED
    BY <2>2, <2>3
<1>5. QED
  BY <1>3, <1>4

LEMMA CancelLate ==
  ASSUME TypesInv, PledgeInv, NEW g \in Nat, LateInv(g), NEW t \in Tasks, Cancel(t)
  PROVE  ((LateInv(g)' \/ LateInv(g + 1)') /\ PledgeInv') \/ (SessionInv' /\ PromiseInv')
<1>1. /\ UNCHANGED <<immutable, connected, wait, published, fast, writer, eof, seq, server, wire, sealed>>
      /\ PledgeInv' /\ writer # "none" /\ wait' = 0
  BY Cancelling DEF LateInv
<1>2. /\ UNCHANGED <<backlog, session, inbox, outbox>>
      /\ LinkInv' /\ GoodInv' /\ OneComing'
  BY <1>1 DEF server, wire, LateInv, LinkInv, GoodInv, GoodMeansRead, OneComing
<1>3. ~Holds("connect") /\ ~Holds("connect")'
  BY Cancelling DEF LateInv, Steps
<1>4. CASE Holds("recv")' <=> Holds("recv")
  <2>1. Holds("recv")' => call' = call
    BY Cancelling DEF Steps
  <2>2. LateInv(g)'
    BY <1>1, <1>2, <1>3, <1>4, <2>1, LateRests
  <2>3. QED
    BY <1>1, <2>2
<1>5. CASE ~(Holds("recv")' <=> Holds("recv"))
  <2>1. Holds("recv") /\ ~Holds("recv")'
    BY <1>5, Cancelling DEF Steps
  <2>2. CASE writer = "open"
    <3>1. Turn = 1 /\ Turn' = 0 /\ (Heard' <=> Heard)
      BY <1>2, <2>1 DEF Turn, Heard, NoneComing
    <3>2. LateReplies(g + 1)' /\ LateRequests(g + 1)'
      BY <1>1, <1>2, <3>1 DEF LateInv, LateReplies, LateRequests
    <3>3. QED
      BY <1>1, <1>2, <1>3, <2>1, <2>2, <3>2 DEF LateInv
  <2>3. CASE writer # "open"
    <3>1. ~Heard /\ inbox = <<>> /\ writer = "closing"
      BY <2>3 DEF LateInv, TypesInv, BridgeTypes
    <3>2. session' # "cur" /\ NoneComing' /\ inbox' = <<>> /\ writer' # "open"
      BY <1>1, <1>2, <3>1 DEF Heard, NoneComing
    <3>3. QED
      BY <1>1, <1>2, <1>3, <2>1, <3>2, EndsLate
  <2>4. QED
    BY <2>2, <2>3
<1>6. QED
  BY <1>4, <1>5

LEMMA InitKept == Init => Kept /\ Punctual
  BY InitSession, InitPromises DEF Kept, Punctual

LEMMA KeptInductive == TypesInv /\ Kept /\ [Next]_vars => Kept'
<1> SUFFICES ASSUME TypesInv, Kept, [Next]_vars, cancels' < SeqSize
             PROVE  (SessionInv /\ PromiseInv)' \/ (Late /\ PledgeInv)'
  BY DEF Kept
<1>1. cancels \in Nat /\ SeqSize \in Nat
  BY ConstantTypes, BridgeAssumption DEF TypesInv, ServerTypes
<1>2. CASE cancels' = cancels /\ \A t \in Tasks : ~Cancel(t)
  <2>1. CASE SessionInv /\ PromiseInv
    BY <1>2, <2>1, SessionGoesOn, PromisesGoOn
  <2>2. CASE Late /\ PledgeInv
    <3>1. PICK g \in 1 .. cancels : LateInv(g)
      BY <2>2 DEF Late
    <3>2. g \in 1 .. SeqSize - 1 /\ g \in 1 .. cancels'
      BY <1>1, <1>2
    <3>3. (LateInv(g)' /\ PledgeInv') \/ (SessionInv' /\ PromiseInv')
      BY <1>2, <2>2, <3>1, <3>2, LateGoesOn
    <3>4. QED
      BY <3>2, <3>3 DEF Late
  <2>3. QED
    BY <1>2, <2>1, <2>2 DEF Kept
<1>3. CASE cancels' = cancels + 1 /\ \E t \in Tasks : Cancel(t)
  <2>1. PICK t \in Tasks : Cancel(t)
    BY <1>3
  <2>2. CASE SessionInv /\ PromiseInv
    <3>1. (SessionInv' /\ PromiseInv') \/ (LateInv(1)' /\ PledgeInv')
      BY <2>1, <2>2, CancelInStep
    <3>2. 1 \in 1 .. cancels'
      BY <1>1, <1>3
    <3>3. QED
      BY <3>1, <3>2 DEF Late
  <2>3. CASE Late /\ PledgeInv
    <3>1. PICK g \in 1 .. cancels : LateInv(g)
      BY <2>3 DEF Late
    <3>2. g \in Nat /\ g \in 1 .. cancels' /\ g + 1 \in 1 .. cancels'
      BY <1>1, <1>3
    <3>3. ((LateInv(g)' \/ LateInv(g + 1)') /\ PledgeInv') \/ (SessionInv' /\ PromiseInv')
      BY <2>1, <2>3, <3>1, <3>2, CancelLate
    <3>4. QED
      BY <3>2, <3>3 DEF Late
  <2>4. QED
    BY <1>1, <1>3, <2>2, <2>3 DEF Kept
<1>4. QED
  BY <1>2, <1>3, OnlyCancelCounts

-----------------------------------------------------------------------------
(* Without timeouts *)

\* What the invariant says of the connection where none is reset.
LEMMA KeptConnection ==
  ASSUME TypesInv, Kept, cancels < SeqSize, Resets = FALSE
  PROVE  /\ OneComing /\ PledgeInv /\ writer # "closing"
         /\ writer # "open" => ~Heard
         /\ Holds("connect") => writer # "open"
         /\ Late => ~Holds("connect") /\ writer = "open"
         /\ Late \/ SessionInv
<1>1. CASE SessionInv /\ PromiseInv /\ ~Late
  BY <1>1, SessionHasOneComing DEF SessionInv, PromiseInv, ClosedInv, ConnectInv, GoodInv, Heard
<1>2. CASE Late /\ PledgeInv
  BY <1>2 DEF Late, LateInv, GoodInv, TypesInv, BridgeTypes
<1>3. CASE SessionInv /\ PromiseInv /\ Late
  BY <1>2, <1>3 DEF PromiseInv
<1>4. QED
  BY <1>1, <1>2, <1>3 DEF Kept

\* In turn, a reply to a request of _ensure_connected is never wrong.
LEMMA AnsweredInTurn ==
  ASSUME TypesInv, Kept, cancels < SeqSize, Resets = FALSE
  PROVE  /\ \A t, last : Answered(t, last) => SessionInv /\ ~Late
         /\ \A t : WrongAnswer(t) => call.stage = "op"
<1>1. ASSUME Late, NEW t, NEW last, Answered(t, last) PROVE FALSE
  <2>1. PICK g \in 1 .. cancels : LateInv(g)
    BY <1>1 DEF Late
  <2>2. g \in Nat \ {0}
    BY <2>1
  <2>3. QED
    BY <1>1, <2>1, <2>2, AnsweredIs, LateUnanswered DEF Answered
<1>2. ASSUME NEW t, WrongAnswer(t), call.stage # "op" PROVE FALSE
  <2>1. /\ Holds("recv") /\ call \in PendingCalls /\ outbox # <<>>
        /\ Head(outbox).seq # call.seq \/ Head(outbox).ok # TRUE
    BY <1>2, AtStep DEF WrongAnswer
  <2>2. SessionInv
    BY <1>2, <2>1, KeptConnection DEF Late, LateInv
  <2>3. call.stage = "ensure" /\ call.want \in {"HELLO", "SET_CONFIG"} /\ call.last = call.want
    BY <1>2, <2>1, <2>2, Waiting DEF PendingCalls, Fits
  <2>4. QED
    BY <2>1, <2>2, <2>3, ReplyReady DEF ModuleOps
<1>3. QED
  BY <1>1, <1>2, KeptConnection

\* A request that is written carries the masks of the moment.
Written ==
  \/ inbox' = inbox
  \/ \E m : inbox' = Append(inbox, m) /\ (m.type = "SET_CONFIG" => m.modules = immutable')

\* Modules are sealed when the server has their masks, or no connection.
Sealing ==
  \/ sealed' \subseteq sealed
  \/ ~Heard
  \/ inbox = <<>> /\ (session = "cur" /\ configured = TRUE => config = immutable')

LEMMA Writing ==
  ASSUME NEW t, NEW type, NEW c, Send(t, type, c)
  PROVE  Written
<1> DEFINE m == Numbered(t, type, NextSeq)
<1>1. inbox' = inbox \/ inbox' = Append(inbox, m)
  BY DEF Send
<1>2. m.type = type /\ (type = "SET_CONFIG" => m.modules = immutable')
  BY DEF Numbered, Payload, Masks, ModuleOps
<1> HIDE DEF m
<1>3. QED
  BY <1>1, <1>2 DEF Written

LEMMA RequestWrites ==
  ASSUME NEW t, NEW c, Request(t, c)
  PROVE  Written /\ eof' = eof
  BY Writing DEF Request, Written

LEMMA TaskKeepsPunctual ==
  ASSUME TypesInv, PunctualInv, SealInv', UNCHANGED <<server, eof>>, Written, Sealing
  PROVE  PunctualInv'
<1>1. /\ UNCHANGED <<stale, session, backlog, configured, config>> /\ (Heard' <=> Heard)
      /\ sealed' \subseteq immutable' /\ inbox \in Seq(Messages)
  BY DEF server, Heard, NoneComing, SealInv, TypesInv, ServerTypes
<1>2. session = "cur" /\ configured = TRUE => sealed' \subseteq config
  BY <1>1 DEF PunctualInv, Sealing, Heard
<1>3. ASSUME Heard, NEW i \in 1 .. Len(inbox), inbox[i].type = "SET_CONFIG"
      PROVE  sealed' \subseteq inbox[i].modules
  <2>1. inbox # <<>>
    <3>1. Len(inbox) > 0
      BY <1>1, LenProperties
    <3>2. QED
      BY <1>1, <3>1, NotEmpty
  <2>2. QED
    BY <1>3, <2>1 DEF PunctualInv, Sealing
<1>4. ASSUME Heard, NEW i \in 1 .. Len(inbox'), inbox'[i].type = "SET_CONFIG"
      PROVE  sealed' \subseteq inbox'[i].modules
  <2>1. CASE inbox' = inbox
    BY <1>3, <1>4, <2>1
  <2>2. CASE inbox' # inbox
    <3>1. PICK m : inbox' = Append(inbox, m) /\ (m.type = "SET_CONFIG" => m.modules = immutable')
      BY <2>2 DEF Written
    <3>2. /\ i \in 1 .. Len(inbox) \/ i = Len(inbox) + 1
          /\ inbox'[Len(inbox) + 1] = m
          /\ \A j \in 1 .. Len(inbox) : inbox'[j] = inbox[j]
      BY <1>1, <1>4, <3>1
    <3>3. QED
      BY <1>1, <1>3, <1>4, <3>1, <3>2
  <2>3. QED
    BY <2>1, <2>2
<1>5. QED
  BY <1>1, <1>2, <1>4 DEF PunctualInv

\* The steps of a task that leave the connection as it is.
LEMMA ProgressKeepsPunctual ==
  ASSUME TypesInv, Kept, cancels < SeqSize, Resets = FALSE, PunctualInv, SealInv',
         NEW t \in Tasks, Progress(t),
         ~ConnectSucceeds(t), ~ConnectionLost(t), ~TimesOut(t)
  PROVE  PunctualInv'
<1>1. PledgeInv
  BY KeptConnection
<1>2. CASE Start(t)
  <2>1. PICK op \in Operations \ {"L1SCALERS"} : Ensures(t, op)
    BY <1>1, <1>2, Starting
  <2>2. Ensure(t, op) /\ UNCHANGED server
    BY <2>1 DEF Ensures
  <2>3. Written /\ UNCHANGED eof
    BY <2>2, RequestWrites DEF Ensure, Written
  <2>4. Sealing
    BY <2>2, KeptConnection DEF Ensure, Sealing, Unsealed
  <2>5. QED
    BY <2>2, <2>3, <2>4, TaskKeepsPunctual
<1>3. CASE ConnectFails(t)
  <2>1. /\ UNCHANGED <<server, eof, inbox>> /\ ~Heard
    BY <1>3, AtStep, KeptConnection DEF ConnectFails, wire
  <2>2. QED
    BY <2>1, TaskKeepsPunctual DEF Written, Sealing
<1>4. CASE Negotiated(t) \/ Configured(t)
  <2>1. UNCHANGED <<server, eof, sealed>> /\ Written
    BY <1>4, Writing, RequestWrites DEF Negotiated, Configured, Answered, history
  <2>2. QED
    BY <2>1, TaskKeepsPunctual DEF Sealing
<1>5. CASE CommandAnswered(t)
  <2>1. UNCHANGED <<server, eof, sealed, inbox>>
    BY <1>5 DEF CommandAnswered, Answered
  <2>2. QED
    BY <2>1, TaskKeepsPunctual DEF Sealing, Written
<1>6. CASE ImmutableAnswered(t)
  <2>1. Answered(t, "SET_CONFIG") /\ UNCHANGED <<server, eof, inbox, immutable>>
    BY <1>6 DEF ImmutableAnswered, Answered
  <2>2. SessionInv /\ Holds("recv") /\ outbox # <<>> /\ call.last = "SET_CONFIG"
    BY <2>1, AnsweredInTurn, AnsweredIs
  <2>3. Sealing
    BY <2>1, <2>2, ReplyReady DEF Sealing, Settled, Aligned
  <2>4. QED
    BY <2>1, <2>3, TaskKeepsPunctual DEF Written
<1>7. CASE WrongAnswer(t)
  <2>1. UNCHANGED <<server, eof, inbox>> /\ Failed(t) /\ call.stage = "op"
    BY <1>7, AnsweredInTurn DEF WrongAnswer
  <2>2. sealed' = sealed
    BY <2>1 DEF Failed
  <2>3. QED
    BY <2>1, <2>2, TaskKeepsPunctual DEF Sealing, Written
<1>8. QED
  BY <1>2, <1>3, <1>4, <1>5, <1>6, <1>7 DEF Progress

\* A connection is made once the server is known to have no other of the API.
LEMMA ConnectionsKeepPunctual ==
  ASSUME TypesInv, Kept, cancels < SeqSize, Resets = FALSE, Timeouts = FALSE, PunctualInv,
         NEW t \in Tasks, ConnectSucceeds(t) \/ ConnectionLost(t) \/ TimesOut(t)
  PROVE  PunctualInv'
<1>1. CASE ConnectSucceeds(t)
  <2>1. /\ eof' = FALSE /\ UNCHANGED <<session, stale>>
        /\ inbox' = <<Numbered(t, "HELLO", NextSeq)>>
    BY <1>1 DEF ConnectSucceeds
  <2>2. session # "cur"
    BY <1>1, AtStep, KeptConnection DEF ConnectSucceeds, Heard
  <2>3. \A i \in 1 .. Len(inbox') : inbox'[i].type = "HELLO"
    <3>1. \A x : Len(<<x>>) = 1 /\ <<x>>[1] = x
      OBVIOUS
    <3>2. Numbered(t, "HELLO", NextSeq).type = "HELLO"
      BY DEF Numbered
    <3>3. Len(inbox') = 1 /\ inbox'[1].type = "HELLO"
      BY <2>1, <3>1, <3>2
    <3>4. QED
      BY <3>3
  <2>4. QED
    BY <2>1, <2>2, <2>3 DEF PunctualInv
<1>2. CASE ConnectionLost(t) \/ TimesOut(t)
  <2>1. eof = TRUE /\ Disconnect
    BY <1>2, KeptConnection DEF ConnectionLost, TimesOut, TypesInv, BridgeTypes
  <2>2. session # "cur" /\ stale = <<>>
    BY <2>1 DEF PunctualInv, Heard
  <2>3. eof' = FALSE /\ stale' = <<>> /\ session' # "cur" /\ inbox' = <<>>
    BY <2>1, <2>2 DEF Disconnect, GiveUp
  <2>4. \A i \in DOMAIN backlog' : backlog'[i] # "cur"
    BY <2>1, GiveUpTypes DEF Disconnect, TypesInv
  <2>5. QED
    BY <2>3, <2>4 DEF PunctualInv, Heard, NoneComing
<1>3. QED
  BY <1>1, <1>2

LEMMA ServeKeepsPunctual ==
  ASSUME TypesInv, PunctualInv, Serve
  PROVE  PunctualInv'
<1> DEFINE r == Head(inbox)
<1>1. /\ session = "cur" /\ inbox # <<>> /\ inbox' = Tail(inbox) /\ Execute(r)
      /\ UNCHANGED <<eof, session, backlog, stale, sealed>> /\ configured \in BOOLEAN
  BY DEF Serve, TypesInv, ServerTypes
<1>2. /\ Len(inbox') = Len(inbox) - 1 /\ Len(inbox) \in Nat \ {0} /\ r = inbox[1]
      /\ \A i \in 1 .. Len(inbox') : inbox'[i] = inbox[i + 1]
  <2>1. inbox \in Seq(Messages)
    BY DEF TypesInv, ServerTypes
  <2>2. QED
    BY <1>1, <2>1, HeadTailProperties, LenProperties, NotEmpty
<1>3. Heard /\ Heard'
  BY <1>1 DEF Heard
<1>4. \A i \in 1 .. Len(inbox) : inbox[i].type = "SET_CONFIG" => sealed \subseteq inbox[i].modules
  BY <1>3 DEF PunctualInv
<1>5. configured' = TRUE => sealed \subseteq config'
  <2>1. r.type = "SET_CONFIG" => sealed \subseteq r.modules
    BY <1>2, <1>4
  <2> HIDE DEF r
  <2>2. configured = TRUE => sealed \subseteq config
    BY <1>1 DEF PunctualInv
  <2>3. QED
    BY <1>1, <2>1, <2>2 DEF Execute
<1>6. \A i \in 1 .. Len(inbox') : inbox'[i].type = "SET_CONFIG" => sealed \subseteq inbox'[i].modules
  BY <1>2, <1>4
<1>7. stale = <<>> /\ (eof = TRUE => ~Heard)
  BY DEF PunctualInv
<1>8. QED
  BY <1>1, <1>3, <1>5, <1>6, <1>7 DEF PunctualInv

LEMMA ServerKeepsPunctual ==
  ASSUME TypesInv, OneComing, PunctualInv, Accept \/ ServeStale \/ DropOld \/ ServerCloses
  PROVE  PunctualInv'
<1>1. stale = <<>> /\ eof \in BOOLEAN
  BY DEF PunctualInv, TypesInv, BridgeTypes
<1>2. CASE Accept
  <2>1. UNCHANGED <<stale, sealed>> /\ session' # "none"
    BY <1>2 DEF Accept, history, TypesInv, ServerTypes
  <2>2. CASE Head(backlog) = "cur"
    <3>1. session # "cur" /\ NoneComing' /\ Heard
      BY <1>2, <2>2, AcceptingOne DEF Heard
    <3>2. \/ session' = "cur" /\ inbox' = inbox /\ configured' = FALSE /\ eof' = eof
          \/ session' = session /\ inbox' = <<>>
      BY <1>2, <2>2 DEF Accept
    <3>3. QED
      BY <1>1, <2>1, <3>1, <3>2 DEF PunctualInv, Heard
  <2>3. CASE Head(backlog) # "cur"
    <3>1. NoneComing' <=> NoneComing
      BY <1>2, <2>3, AcceptingOne
    <3>2. /\ inbox' = inbox /\ eof' = eof /\ (session' = "cur" <=> session = "cur")
          /\ session = "cur" => UNCHANGED <<configured, config>>
      BY <1>1, <1>2, <2>3 DEF Accept
    <3>3. Heard' <=> Heard
      BY <3>1, <3>2 DEF Heard
    <3>4. QED
      BY <2>1, <3>2, <3>3 DEF PunctualInv
  <2>4. QED
    BY <2>2, <2>3
<1>3. CASE DropOld
  <2>1. /\ UNCHANGED <<eof, backlog, inbox, sealed>> /\ session # "cur" /\ session' # "cur" /\ stale' = <<>>
    BY <1>3 DEF DropOld, wire, history
  <2>2. Heard' <=> Heard
    BY <2>1 DEF Heard, NoneComing
  <2>3. QED
    BY <2>1, <2>2 DEF PunctualInv
<1>4. CASE ServerCloses
  <2>1. session = "cur" /\ session' # "cur" /\ inbox' = <<>> /\ UNCHANGED <<backlog, stale, sealed>>
    BY <1>4 DEF ServerCloses, history
  <2>2. ~Heard'
    BY <2>1 DEF OneComing, Heard, NoneComing
  <2>3. QED
    BY <1>1, <2>1, <2>2 DEF PunctualInv, Heard
<1>5. ~ServeStale
  BY <1>1 DEF ServeStale
<1>6. QED
  BY <1>2, <1>3, <1>4, <1>5

LEMMA PunctualInductive ==
  ASSUME ~Resets, ~Timeouts
  PROVE  TypesInv /\ Kept /\ Punctual /\ [Next]_vars /\ Kept' => Punctual'
<1> SUFFICES ASSUME TypesInv, Kept, Punctual, [Next]_vars, Kept', cancels' < SeqSize
             PROVE  PunctualInv'
  BY DEF Punctual
<1>1. /\ cancels < SeqSize /\ Resets = FALSE /\ Timeouts = FALSE /\ PunctualInv
  <2>1. cancels \in Int /\ SeqSize \in Int /\ cancels' \in {cancels, cancels + 1}
    BY OnlyCancelCounts, ConstantTypes, BridgeAssumption DEF TypesInv, ServerTypes
  <2>2. cancels < SeqSize
    BY <2>1
  <2>3. QED
    BY <2>2, BridgeAssumption DEF Punctual
<1>2. SealInv'
  BY DEF Kept, PromiseInv, PledgeInv
<1>3. OneComing
  BY <1>1, KeptConnection
<1>4. ASSUME NEW t \in Tasks, Progress(t) PROVE PunctualInv'
  BY <1>1, <1>2, <1>4, ProgressKeepsPunctual, ConnectionsKeepPunctual
<1>5. ASSUME UNCHANGED <<server, eof, inbox, sealed>> PROVE PunctualInv'
  BY <1>1, <1>2, <1>5, TaskKeepsPunctual DEF Written, Sealing
<1>6. CASE (\E t \in Tasks : Invoke(t) \/ Cancel(t)) \/ WakePoll \/ Tick \/ UNCHANGED vars
  BY <1>5, <1>6 DEF Invoke, Cancel, WakePoll, Tick, vars, api, wire, history
<1>7. CASE PollProgress
  <2>1. CASE SlowPoll
    <3>1. CASE Ensures(Poll, "SLOW_POLL")
      <4>1. Ensure(Poll, "SLOW_POLL") /\ UNCHANGED server
        BY <3>1 DEF Ensures
      <4>2. Written /\ UNCHANGED eof
        BY <4>1, RequestWrites DEF Ensure, Written
      <4>3. Sealing
        BY <1>1, <4>1, KeptConnection DEF Ensure, Sealing, Unsealed
      <4>4. QED
        BY <1>1, <1>2, <4>1, <4>2, <4>3, TaskKeepsPunctual
    <3>2. CASE ~Ensures(Poll, "SLOW_POLL")
      <4>1. UNCHANGED <<server, eof, inbox, sealed>>
        BY <1>1, <2>1, <3>2, KeptConnection, PollingSlowly DEF wire
      <4>2. QED
        BY <1>5, <4>1
    <3>3. QED
      BY <3>1, <3>2
  <2>2. CASE FastAnswered
    <3>1. UNCHANGED <<server, eof, sealed>> /\ Written
      BY <2>2, RequestWrites DEF FastAnswered, Answered, history, Written
    <3>2. QED
      BY <1>1, <1>2, <3>1, TaskKeepsPunctual DEF Sealing
  <2>3. CASE ScalersAnswered \/ SlowAnswered
    <3>1. UNCHANGED <<server, eof, inbox, sealed>>
      BY <2>3 DEF ScalersAnswered, SlowAnswered, Answered, history
    <3>2. QED
      BY <1>5, <3>1
  <2>4. QED
    BY <1>7, <2>1, <2>2, <2>3 DEF PollProgress
<1>8. CASE Server \/ ServerCloses \/ Reset
  BY <1>1, <1>3, <1>8, ServeKeepsPunctual, ServerKeepsPunctual DEF Server, Reset
<1>9. QED
  BY <1>4, <1>6, <1>7, <1>8 DEF Next

-----------------------------------------------------------------------------
(* What follows for the server, the methods and what is published *)

\* No task is setting up the API's session: the hypothesis of SessionConfigured.
SetUp ==
  /\ writer = "open" /\ session = "cur" /\ cancels = 0
  /\ \/ lockq = <<>>
     \/ task[Head(lockq)].pc \in {"lock", "slow"}
     \/ call.op \notin {"none", "IMMUTABLE"} /\ call.stage = "op" /\ call.last # "HELLO"

LEMMA SetUpSettled == TypesInv /\ Kept /\ SetUp => Settled
<1> SUFFICES ASSUME TypesInv, Kept, SetUp PROVE Settled
  OBVIOUS
<1>1. SessionInv
  BY ConstantTypes DEF Kept, Late, SetUp
<1>2. CASE ~Holds("recv")
  BY <1>1, <1>2, Resting DEF SetUp
<1>3. CASE Holds("recv")
  <2>1. /\ call \in PendingCalls /\ call.stage = "op" /\ call.last # "HELLO"
        /\ call.op # "IMMUTABLE"
    BY <1>3 DEF SetUp, Holds, TypesInv, CallInv
  <2>2. call.last = RequestOf(call.op)
    BY <1>1, <1>3, <2>1, Waiting DEF Fits
  <2>3. call.last \notin {"HELLO", "SET_CONFIG"}
    BY <2>1, <2>2, ConstantTypes DEF PendingCalls, Operations, RequestOf
  <2>4. QED
    BY <1>1, <1>3, <2>3, Waiting DEF SetUp
<1>4. QED
  BY <1>2, <1>3

\* Unless connections are reset while nobody reads them, the server works under
\* the bridge's masks whenever no task is setting its session up, as long as no
\* method was cancelled: whatever the order of the calls, the timeouts, the
\* restarts of the server and its stale clients (module Bridge, SessionConfigured).
THEOREM SessionsConfigured ==
  ASSUME ~Resets
  PROVE  Spec => []SessionConfigured
<1>1. TypesInv /\ Kept => SessionConfigured
  BY SetUpSettled, BridgeAssumption DEF SessionConfigured, SetUp, Settled, Aligned
<1>2. QED
  BY <1>1, InitTypes, TypesInductive, InitKept, KeptInductive, PTL DEF Spec

NeverOutdated == SetUp /\ configured => config = immutable

\* Also when connections are reset: a session may then be used without a configuration,
\* but never under one that is out of date. The masks a server has are the present
\* ones whenever no task is setting its session up (_send_recv connects again without
\* SET_CONFIG, SetModuleIsImmutable and _ensure_connected send those of the moment).
THEOREM MasksNeverOutdated == Spec => []NeverOutdated
<1>1. TypesInv /\ Kept => NeverOutdated
  BY SetUpSettled DEF NeverOutdated, Settled, Aligned
<1>2. QED
  BY <1>1, InitTypes, TypesInductive, InitKept, KeptInductive, PTL DEF Spec

\* Unless connections are reset, what is published as Good was read from the boards,
\* as long as fewer methods were cancelled than there are sequence numbers: a poll
\* that is answered in its turn is answered by a configured server, and one that
\* reads the reply to another request fails (module Bridge, GoodMeansRead).
THEOREM GoodIsRead ==
  ASSUME ~Resets
  PROVE  Spec => [](cancels < SeqSize => GoodMeansRead)
<1>1. Kept => (cancels < SeqSize => GoodMeansRead)
  BY BridgeAssumption DEF Kept, SessionInv, GoodInv, Late, LateInv
<1>2. QED
  BY <1>1, InitTypes, TypesInductive, InitKept, KeptInductive, PTL DEF Spec

\* The server has acted on the command, or passed it over as it should.
Served(t) ==
  \/ t \in applied
  \/ task[t].op = "POWER" /\ task[t].modules \subseteq immutable

\* What OkMeansApplied says, for the methods that command a module only.
ModuleOkMeansApplied ==
  [][\A t \in Calls : CommandAnswered(t) /\ task[t].op \in ModuleOps => Served(t)]_vars

LEMMA AnsweredIsServed ==
  ASSUME TypesInv, SessionInv, PromiseInv, NEW t \in Calls, CommandAnswered(t),
         task[t].op \in ModuleOps \/ Resets = FALSE
  PROVE  Served(t)
<1>1. PICK op \in ModuleOps \cup {"CRATE"} : Answered(t, op)
  BY DEF CommandAnswered
<1>2. /\ Holds("recv") /\ Owner = t /\ outbox # <<>> /\ Head(outbox).ok /\ call.last = op
      /\ call \in PendingCalls
  BY <1>1, AnsweredIs DEF Answered, Owner
<1>3. call.op = op /\ op \in Methods
  <2>1. op = RequestOf(call.op) /\ call.op \in Operations
    BY <1>2, Waiting DEF ModuleOps, PendingCalls, Fits
  <2>2. QED
    BY <2>1 DEF ModuleOps, RequestOf, Operations
<1>4. task[t].op = op
  BY <1>2, <1>3 DEF PromiseInv, PledgeInv, OwnerInv
<1>5. QED
  BY <1>2, <1>4 DEF PromiseInv, ApplyInv, Served

\* A request is answered in its turn or not at all.
LEMMA AnsweredMeansInTurn ==
  ASSUME MaxCancels < SeqSize, TypesInv, Kept, NEW t, CommandAnswered(t)
  PROVE  SessionInv /\ PromiseInv
<1>1. PICK op : Answered(t, op)
  BY DEF CommandAnswered
<1>2. cancels < SeqSize
  BY ConstantTypes, BridgeAssumption DEF TypesInv, ServerTypes
<1>3. ~Late
  <2> SUFFICES ASSUME NEW g \in 1 .. cancels, LateInv(g) PROVE FALSE
    BY DEF Late
  <2>1. g \in Nat \ {0}
    OBVIOUS
  <2>2. QED
    BY <1>1, <2>1, AnsweredIs, LateUnanswered DEF Answered
<1>4. QED
  BY <1>2, <1>3 DEF Kept

\* A method that returns OK was answered for its own command, for any number of
\* methods, timeouts and restarts of the server, and also after methods were
\* cancelled whose replies are still to come, if they are fewer than the sequence
\* numbers (module Bridge, OkMeansApplied).
THEOREM OkIsApplied ==
  ASSUME ~Resets, MaxCancels < SeqSize
  PROVE  Spec => OkMeansApplied
<1> DEFINE Applied == \A t \in Calls : CommandAnswered(t) =>
                        \/ t \in applied
                        \/ task[t].op = "POWER" /\ task[t].modules \subseteq immutable
<1>1. TypesInv /\ Kept => Applied
  <2> SUFFICES ASSUME TypesInv, Kept, NEW t \in Calls, CommandAnswered(t)
               PROVE  Served(t)
    BY DEF Served
  <2>1. Resets = FALSE
    BY BridgeAssumption
  <2>2. QED
    BY <2>1, AnsweredMeansInTurn, AnsweredIsServed
<1> HIDE DEF Applied
<1>2. Spec => [][Applied]_vars
  BY <1>1, InitTypes, TypesInductive, InitKept, KeptInductive, PTL DEF Spec
<1>3. QED
  BY <1>2 DEF OkMeansApplied, Applied

\* Also when connections are reset: a session without a configuration answers a
\* command to a module with an ERROR, so that a method that commands a module
\* returns OK only when the server has acted on it (is_slot_active before SET_CH_POWER).
\* Commands to all slots have no such protection.
THEOREM ModuleOkIsApplied ==
  ASSUME MaxCancels < SeqSize
  PROVE  Spec => ModuleOkMeansApplied
<1> DEFINE Applied == \A t \in Calls : CommandAnswered(t) /\ task[t].op \in ModuleOps => Served(t)
<1>1. TypesInv /\ Kept => Applied
  BY AnsweredMeansInTurn, AnsweredIsServed
<1> HIDE DEF Applied
<1>2. Spec => [][Applied]_vars
  BY <1>1, InitTypes, TypesInductive, InitKept, KeptInductive, PTL DEF Spec
<1>3. QED
  BY <1>2 DEF ModuleOkMeansApplied, Applied

\* The server spares what is sealed.
LEMMA PowerKept ==
  ASSUME PunctualInv, TypesInv, ~Resets, [Next]_vars
  PROVE  on \cap sealed = on' \cap sealed
<1>1. CASE Serve
  <2> DEFINE r == Head(inbox)
  <2>1. session = "cur" /\ Execute(r) /\ configured \in BOOLEAN
    BY <1>1 DEF Serve, TypesInv, ServerTypes
  <2> HIDE DEF r
  <2>2. CASE r.type # "POWER" \/ ~Acts(r)
    BY <2>1, <2>2 DEF Execute
  <2>3. CASE r.type = "POWER" /\ Acts(r)
    <3>1. on' = on \cup r.modules \/ on' = on \ r.modules
      BY <2>1, <2>3 DEF Execute
    <3>2. r.modules \cap config = {} /\ sealed \subseteq config
      BY <2>1, <2>3 DEF Acts, ModuleOps, PunctualInv
    <3>3. QED
      BY <3>1, <3>2
  <2>4. QED
    BY <2>2, <2>3
<1>2. CASE ~Serve
  <2>1. ~ServeStale
    BY DEF ServeStale, PunctualInv
  <2>2. ASSUME NEW t \in Tasks, Invoke(t) \/ Progress(t) \/ Cancel(t) PROVE on' = on
    BY <2>2
       DEF Progress, Invoke, Cancel, Start, ConnectSucceeds, ConnectFails, Negotiated, Configured,
           CommandAnswered, ImmutableAnswered, WrongAnswer, ConnectionLost, TimesOut, Answered, server,
           Disconnect, GiveUp
  <2>3. ASSUME WakePoll \/ Tick \/ PollProgress \/ Accept \/ DropOld \/ ServerCloses \/ UNCHANGED vars
        PROVE  on' = on
    BY <2>3
       DEF WakePoll, Tick, PollProgress, SlowPoll, FastAnswered, ScalersAnswered, SlowAnswered, Answered,
           Accept, DropOld, ServerCloses, vars, server
  <2>4. on' = on
    BY <1>2, <2>1, <2>2, <2>3 DEF Next, Server, Reset
  <2>5. QED
    BY <2>4
<1>3. QED
  BY <1>1, <1>2

\* Where requests do not time out, no command changes the power of a module once
\* SetModuleIsImmutable(True) has returned OK for it, not even one that was waiting
\* for the lock, nor one whose method was cancelled and that the server has yet to
\* read (module Bridge, ImmutableHonoured).
THEOREM ImmutableIsHonoured ==
  ASSUME ~Resets, ~Timeouts, MaxCancels < SeqSize
  PROVE  Spec => ImmutableHonoured
<1> DEFINE Honoured == on \cap sealed = on' \cap sealed
<1>1. TypesInv /\ Punctual /\ [Next]_vars => [Honoured]_vars
  <2> SUFFICES ASSUME TypesInv, Punctual, [Next]_vars PROVE Honoured
    OBVIOUS
  <2>1. PunctualInv
    BY ConstantTypes, BridgeAssumption DEF Punctual, TypesInv, ServerTypes
  <2>2. QED
    BY <2>1, PowerKept
<1> HIDE DEF Honoured
<1>2. Spec => [][Honoured]_vars
  BY <1>1, InitTypes, TypesInductive, InitKept, KeptInductive, PunctualInductive, PTL DEF Spec
<1>3. QED
  BY <1>2 DEF ImmutableHonoured, Honoured

=============================================================================
